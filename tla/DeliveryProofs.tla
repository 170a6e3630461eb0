---------------------------- MODULE DeliveryProofs ----------------------------
(***************************************************************************)
(* What a delivered version stands on.  Two results, each over invariants  *)
(* of its own relative to those of ConversationProofs:                     *)
(*                                                                         *)
(* Module Conversation implements module Delivery, for every plan size,    *)
(* relay bound and set of commits, restarts and exceptions included.  A    *)
(* step of the register either leaves the phase of the version alone, a    *)
(* HandOver of the abstract machine, or it is one of seven steps that move *)
(* it on.  That the moving steps start from the right phase needs the      *)
(* invariants about the plan and the signature, and PhaseInv below.        *)
(*                                                                         *)
(* The first signature of a version stands over a green boot, while no     *)
(* turn is cut short by an exception or a restart.  (With them the report  *)
(* of a red kontrola may be committed and the note of its red floor not.)  *)
(* FirstInv follows a kontrola through its three commits: the machine's    *)
(* result, the partner's report, the note of a red floor.                  *)
(***************************************************************************)
EXTENDS ConversationProofs

\* A completion takes the version off the build stage, and a plan is composed
\* of an approved specification only.
PhaseInv ==
  /\ programming_complete => row.stage # "programovanie"
  /\ IsLatest(log, "compose") \/ turn = "plan" => spec_approved

RegisterInv == OwnInv /\ PlanInv /\ SignInv /\ PhaseInv

\* What the abstract machine may do in a step of the register, after which
\* PhaseInv holds again.
PhaseStep == D!Next /\ PhaseInv'

LEMMA PhaseInit == Init => PhaseInv /\ D!Init
  BY DEF Init, PhaseInv, NoRow, EmptyLog, Has, IsLatest, programming_complete,
         navrh_plan_materialized, spec_approved, delivery_phase, D!Init

\* A step that changes neither the stage, nor whether there is a plan, nor
\* whether it is complete, hands the version over at most.
LEMMA PhaseKept ==
  ASSUME RegisterInv, row'.stage = row.stage,
         navrh_plan_materialized' <=> navrh_plan_materialized,
         Has(log', "complete") <=> Has(log, "complete"),
         Has(log, "approval") => Has(log', "approval"),
         Has(log', "approval") => Has(log, "approval") \/ row.stage = "programovanie",
         IsLatest(log', "compose") \/ turn' = "plan" => Has(log, "approval")
  PROVE  PhaseStep
  <1>1. delivery_phase' = delivery_phase
    BY DEF delivery_phase, programming_complete, spec_approved
  <1>2. PhaseInv'
    BY DEF RegisterInv, PhaseInv, programming_complete, spec_approved
  <1>3. (row.status = "agent_working")' \in BOOLEAN
    OBVIOUS
  <1> QED BY <1>1, <1>2, <1>3 DEF PhaseStep, D!Next, D!HandOver

\* What a message of a class that moves no phase tells the queries.
LEMMA SaidPhase ==
  ASSUME LogOK(log),
         log' = log \/ \E k \in Classes \ {"compose", "complete", "approval"} : Say(k)
  PROVE  /\ Has(log', "complete") <=> Has(log, "complete")
         /\ Has(log', "approval") <=> Has(log, "approval")
         /\ IsLatest(log', "compose") => IsLatest(log, "compose")
  BY RecordHas, RecordLatest DEF Say

\* An action of the Manager that moves neither stage nor program point.
LEMMA RestPhase ==
  ASSUME RegisterInv, UNCHANGED turn, row'.stage = row.stage,
         tasks' = tasks \/ tasks' = reset_failed_tasks_to_todo,
         log' = log \/ \E k \in Classes \ {"compose", "complete", "approval"} : Say(k)
  PROVE  PhaseStep
  <1>0. LogOK(log) /\ tasks \in [Task -> TaskStatus]
    BY DEF RegisterInv, OwnInv
  <1>1. navrh_plan_materialized' <=> navrh_plan_materialized
    BY <1>0, ResetOK DEF navrh_plan_materialized
  <1> QED BY <1>0, <1>1, SaidPhase, PhaseKept DEF RegisterInv, PhaseInv, spec_approved

\* A settle that keeps the stage and does not write or complete a plan.
LEMMA SettlePhase ==
  ASSUME RegisterInv, NEW r, RowOK(r), SettleTurn(r), r.stage = row.stage,
         NEW ts \in [Task -> TaskStatus], TasksAfterSettle(ts),
         ts = tasks \/ \E t \in Task : tasks[t] = "in_progress" /\ ts = [tasks EXCEPT ![t] = "failed"],
         log' = log \/ \E k \in Classes \ {"compose", "complete", "approval"} : Say(k)
  PROVE  PhaseStep
  <1>0. LogOK(log) /\ tasks \in [Task -> TaskStatus] /\ queue \in 0..MaxRelay
    BY DEF RegisterInv, OwnInv
  <1>1. row'.stage = row.stage /\ (turn' = "plan" => IsLatest(log', "compose"))
    BY <1>0, SettleOK
  <1>2. \A t \in Task : ts[t] = "absent" <=> tasks[t] = "absent"
    BY <1>0
  <1>3. \A t \in Task : \/ tasks'[t] = ts[t]
                        \/ ts[t] = "in_progress" /\ tasks'[t] = "todo"
    BY TasksOK
  <1>4. navrh_plan_materialized' <=> navrh_plan_materialized
    BY <1>2, <1>3 DEF navrh_plan_materialized
  <1> QED BY <1>0, <1>1, <1>4, SaidPhase, PhaseKept DEF RegisterInv, PhaseInv, spec_approved

\* A signature on a complete build at rest or at work is a delivery or a renewal.
LEMMA SignedPhase ==
  ASSUME RegisterInv, Has(log, "complete"), row.stage # "done", Say("hotovo"),
         row'.stage = "done", turn' # "plan",
         \/ row.status # "agent_working" /\ row'.status # "agent_working"
         \/ row.status = "agent_working"
  PROVE  PhaseStep
  <1>0. LogOK(log)
    BY DEF RegisterInv, OwnInv
  <1>1. Has(log', "complete") /\ ~IsLatest(log', "compose")
    BY <1>0, RecordHas, RecordLatest DEF Say, Classes
  <1>2. delivery_phase = "built" /\ delivery_phase' = "delivered"
    <2>1. programming_complete /\ row.stage # "programovanie"
      BY DEF RegisterInv, PhaseInv, programming_complete
    <2> QED BY <2>1 DEF delivery_phase
  <1>3. PhaseInv'
    BY <1>1 DEF PhaseInv
  <1>4. CASE row.status = "agent_working"
    <2>1. (row.status = "agent_working")' \in BOOLEAN
      OBVIOUS
    <2> QED BY <1>2, <1>3, <1>4, <2>1 DEF PhaseStep, D!Next, D!Renew
  <1>5. CASE row.status # "agent_working" /\ row'.status # "agent_working"
    BY <1>2, <1>3, <1>5 DEF PhaseStep, D!Next, D!Deliver
  <1> QED BY <1>4, <1>5

-----------------------------------------------------------------------------
(* The actions *)

\* Every action of the Manager hands the version over, approves it, starts its
\* build, delivers or re-opens it.
LEMMA PhaseManager == RegisterInv /\ Manager => PhaseStep
  <1> SUFFICES ASSUME RegisterInv, Manager PROVE PhaseStep
    OBVIOUS
  <1> USE DEF Classes
  <1>0. /\ OwnInv /\ PlanInv /\ SignInv /\ PhaseInv
        /\ LogOK(log) /\ RowOK(row) /\ row \in Rows /\ ReasonOK(row)
    BY DEF RegisterInv, OwnInv, RowOK, ReasonOK
  <1>b. BeginDispatch(row).stage = row.stage /\ ArmConsult(row).stage = row.stage
    BY <1>0, BeginKeepsStage
  <1>v. \A v \in Statuses : SetStatus(row, v).stage = row.stage
    BY <1>0 DEF SetStatus, ClearBlockReasonOnUnblock, ClearDispatchOnSettle, Rows
  <1>m. \A s \in Stages \ {"done"} :
          /\ BeginDispatch([row EXCEPT !.stage = s]).stage = s
          /\ BeginDispatch([row EXCEPT !.stage = s]).status = "agent_working"
    <2> SUFFICES ASSUME NEW s \in Stages \ {"done"}
                 PROVE  /\ BeginDispatch([row EXCEPT !.stage = s]).stage = s
                        /\ BeginDispatch([row EXCEPT !.stage = s]).status = "agent_working"
      OBVIOUS
    <2>1. ReasonOK([row EXCEPT !.stage = s]) /\ [row EXCEPT !.stage = s].stage = s
      BY <1>0 DEF ReasonOK, Rows
    <2> QED BY <2>1, BeginDispatchOK
  <1>1. CASE Start
    <2>1. row.stage = "priprava"
      BY <1>0, <1>1 DEF Start, Started, RowOK
    <2>2. BeginDispatch(NewRow).stage = "priprava"
      BY DEF BeginDispatch, NewRow, NoRow, SetStatus, ClearBlockReasonOnUnblock,
             ClearDispatchOnSettle
    <2> QED BY <1>1, <2>1, <2>2, RestPhase DEF Start
  <1>2. CASE ApproveSpec
    <2>1. /\ row.stage = "priprava" /\ row.status # "agent_working"
          /\ row'.stage = "priprava" /\ row'.status = "awaiting_manazer"
          /\ tasks' = tasks /\ turn' = turn /\ turn = "idle"
      BY <1>2, <1>0, GuardIdle, SetStatusOK DEF ApproveSpec, CanApproveSpec
    <2>2. /\ Has(log', "complete") <=> Has(log, "complete")
          /\ Has(log', "approval") /\ ~IsLatest(log', "compose")
      BY <1>2, <1>0, RecordHas, RecordLatest DEF ApproveSpec, Say
    <2>3. navrh_plan_materialized' <=> navrh_plan_materialized
      BY <2>1 DEF navrh_plan_materialized
    <2>4. CASE delivery_phase = "drafting"
      <3>1. ~programming_complete /\ ~navrh_plan_materialized
        BY <2>1, <2>4 DEF delivery_phase
      <3>2. delivery_phase' = "specified"
        BY <2>1, <2>2, <2>3, <3>1 DEF delivery_phase, programming_complete, spec_approved
      <3>3. PhaseInv'
        BY <2>1, <2>2 DEF PhaseInv, spec_approved
      <3> QED BY <2>1, <2>4, <3>2, <3>3 DEF PhaseStep, D!Next, D!Approve
    <2>5. CASE delivery_phase # "drafting"
      <3>1. programming_complete \/ navrh_plan_materialized \/ Has(log, "approval")
        BY <2>1, <2>5 DEF delivery_phase, spec_approved
      <3>2. delivery_phase' = delivery_phase
        BY <2>1, <2>2, <2>3, <3>1 DEF delivery_phase, programming_complete, spec_approved
      <3>3. PhaseInv'
        BY <2>1, <2>2 DEF PhaseInv, spec_approved
      <3>4. (row.status = "agent_working")' \in BOOLEAN
        OBVIOUS
      <3> QED BY <3>2, <3>3, <3>4 DEF PhaseStep, D!Next, D!HandOver
    <2> QED BY <2>4, <2>5
  <1>3. CASE ZostavPlan
    <2>1. /\ Has(log', "complete") <=> Has(log, "complete")
          /\ Has(log', "approval") <=> Has(log, "approval")
      BY <1>3, <1>0, RecordHas DEF ZostavPlan, Say
    <2>2. /\ Has(log, "approval") /\ row'.stage = row.stage
          /\ navrh_plan_materialized' <=> navrh_plan_materialized
      BY <1>3, <1>b DEF ZostavPlan, CanZostavPlan, spec_approved, navrh_plan_materialized
    <2> QED BY <2>1, <2>2, PhaseKept
  <1>4. CASE SpustitStavbu
    <2>1. /\ turn = "idle" /\ turn' = "idle" /\ tasks' = tasks
          /\ row.status # "agent_working"
          /\ row'.stage = "programovanie" /\ row'.status = "agent_working"
      BY <1>4, <1>0, <1>m, GuardIdle DEF SpustitStavbu, CanSpustitStavbu, Stages
    <2>2. navrh_plan_materialized /\ ~build_started
      BY <1>4 DEF SpustitStavbu, CanSpustitStavbu
    <2>3. ~programming_complete
      BY <1>0, <2>2 DEF PlanInv, CompleteMeansAllDone, build_started, navrh_plan_materialized
    <2>4. row.stage # "done"
      BY <1>0, <2>3 DEF SignInv, manazer_signoff, NotOutrankedBy, programming_complete
    <2>5. Has(log', "complete") <=> Has(log, "complete")
      BY <1>4, <1>0, SaidPhase DEF SpustitStavbu
    <2>6. ~IsLatest(log', "compose")
      BY <1>4, <1>0, RecordLatest DEF SpustitStavbu, Say
    <2>7. PhaseInv'
      BY <2>1, <2>3, <2>5, <2>6 DEF PhaseInv, programming_complete
    <2>8. delivery_phase' = "building"
      BY <2>1 DEF delivery_phase
    <2>9. CASE row.stage = "programovanie"
      <3>1. delivery_phase = "building"
        BY <2>9 DEF delivery_phase
      <3>2. (row.status = "agent_working")' \in BOOLEAN
        OBVIOUS
      <3> QED BY <2>7, <2>8, <3>1, <3>2 DEF PhaseStep, D!Next, D!HandOver
    <2>10. CASE row.stage # "programovanie"
      <3>1. delivery_phase = "planned"
        BY <2>2, <2>3, <2>4, <2>10 DEF delivery_phase
      <3> QED BY <2>1, <2>7, <2>8, <3>1 DEF PhaseStep, D!Next, D!StartBuild
    <2> QED BY <2>9, <2>10
  <1>5. CASE Skontrolovat
    BY <1>5, <1>b, RestPhase DEF Skontrolovat
  <1>6. CASE Hotovo
    <2>1. turn = "idle" /\ row.status # "agent_working"
      BY <1>6, <1>0, GuardIdle DEF Hotovo, CanHotovo
    <2>2. row'.stage = "done" /\ row'.status = "done"
      BY <1>6, <1>0, SignedRowOK DEF Hotovo
    <2> QED BY <1>6, <2>1, <2>2, SignedPhase
            DEF Hotovo, CanHotovo, Sign, kontrola_done, programming_complete
  <1>7. CASE OveritZnovu
    <2>1. /\ turn = "idle" /\ turn' = "idle" /\ tasks' = tasks
          /\ row.status # "agent_working"
          /\ row'.stage = "priprava" /\ row'.status = "agent_working"
      BY <1>7, <1>0, <1>m, GuardIdle DEF OveritZnovu, CanOveritZnovu, Stages
    <2>2. Has(log, "complete")
      BY <1>7, <1>0 DEF OveritZnovu, CanOveritZnovu, hotovo_drift, manazer_signoff,
                        NotOutrankedBy, SignInv
    <2>3. /\ Has(log', "complete") <=> Has(log, "complete")
          /\ ~IsLatest(log', "compose")
      BY <1>7, <1>0, RecordHas, RecordLatest DEF OveritZnovu, Say
    <2>4. PhaseInv'
      BY <2>1, <2>3 DEF PhaseInv
    <2>5. delivery_phase' = "built"
      BY <2>1, <2>2, <2>3 DEF delivery_phase, programming_complete
    <2>6. CASE row.stage = "done"
      <3>1. delivery_phase = "delivered"
        BY <2>6 DEF delivery_phase
      <3> QED BY <2>1, <2>4, <2>5, <3>1 DEF PhaseStep, D!Next, D!Reopen
    <2>7. CASE row.stage # "done"
      <3>1. programming_complete /\ row.stage # "programovanie"
        BY <1>0, <2>2 DEF PhaseInv, programming_complete
      <3>2. delivery_phase = "built"
        BY <2>7, <3>1 DEF delivery_phase
      <3>3. (row.status = "agent_working")' \in BOOLEAN
        OBVIOUS
      <3> QED BY <2>4, <2>5, <3>2, <3>3 DEF PhaseStep, D!Next, D!HandOver
    <2> QED BY <2>6, <2>7
  <1>8. CASE Uprav
    BY <1>8, <1>b, RestPhase DEF Uprav
  <1>9. CASE Ask
    BY <1>9, <1>b, RestPhase DEF Ask
  <1>10. CASE Answer
    BY <1>10, <1>b, RestPhase DEF Answer
  <1>11. CASE Pokracovat
    <2>1. /\ Has(log', "complete") <=> Has(log, "complete")
          /\ Has(log', "approval") /\ ~IsLatest(log', "compose")
      BY <1>11, <1>0, RecordHas, RecordLatest DEF Pokracovat, Say
    <2>2. row.stage = "programovanie" /\ row'.stage = row.stage /\ turn' = turn
      BY <1>11, <1>b DEF Pokracovat, CanPokracovat
    <2>3. turn # "plan"
      BY <1>0, <2>2 DEF OwnInv, TurnOwnsRow
    <2>4. navrh_plan_materialized' <=> navrh_plan_materialized
      BY <1>11, <1>0, ResetOK DEF Pokracovat, navrh_plan_materialized, OwnInv
    <2> QED BY <2>1, <2>2, <2>3, <2>4, PhaseKept
  <1>12. CASE Pause
    BY <1>12, <1>v, RestPhase DEF Pause, Statuses
  <1>13. CASE RelayEnqueue
    BY <1>13, RestPhase DEF RelayEnqueue
  <1>14. CASE RelayConsult
    BY <1>14, <1>b, RestPhase DEF RelayConsult
  <1> QED BY <1>1, <1>2, <1>3, <1>4, <1>5, <1>6, <1>7, <1>8, <1>9, <1>10, <1>11, <1>12,
             <1>13, <1>14 DEF Manager

\* Every step of the dispatch task hands the version back, writes its plan,
\* completes its build or renews its signature.
LEMMA PhaseEngine == RegisterInv /\ Engine => PhaseStep
  <1> SUFFICES ASSUME RegisterInv, Engine PROVE PhaseStep
    OBVIOUS
  <1> USE DEF Classes
  <1>0. /\ OwnInv /\ PlanInv /\ SignInv /\ PhaseInv
        /\ LogOK(log) /\ RowOK(row) /\ TurnOwnsRow
        /\ tasks \in [Task -> TaskStatus] /\ queue \in 0..MaxRelay
    BY DEF RegisterInv, OwnInv
  <1>b. \A b \in {"agent_question", "parse_exhaustion", "framework_issue", "agent_error",
                  "system_error"} :
          RowOK(Block(row, b)) /\ Block(row, b).stage = row.stage
    BY <1>0, BlockOK DEF BlockReasons
  <1>a. RowOK(SetStatus(row, "awaiting_manazer"))
          /\ SetStatus(row, "awaiting_manazer").stage = row.stage
    BY <1>0, SetStatusOK
  <1>1. CASE StartTurn
    <2>1. navrh_plan_materialized' <=> navrh_plan_materialized
      BY <1>1, <1>0, TasksOK DEF StartTurn, navrh_plan_materialized
    <2>2. turn' = "plan" => IsLatest(log, "compose")
      BY <1>1, RouteOK DEF StartTurn
    <2> QED BY <1>1, <1>0, <2>1, <2>2, PhaseKept DEF StartTurn, PhaseInv, spec_approved
  <1>2. CASE ChatTurn
    BY <1>2, <1>0, <1>a, <1>b, SettlePhase DEF ChatTurn
  <1>3. CASE PlanWritten
    <2>1. PICK n \in Task :
            TasksAfterSettle([t \in Task |-> IF t <= n THEN "todo" ELSE "absent"])
      BY <1>3 DEF PlanWritten
    <2> DEFINE ts == [t \in Task |-> IF t <= n THEN "todo" ELSE "absent"]
    <2>2. navrh_plan_materialized'
      <3>1. ts \in [Task -> TaskStatus] /\ ts[n] = "todo"
        BY DEF TaskStatus, Task
      <3>2. tasks'[n] = "todo"
        BY <2>1, <3>1, TasksOK
      <3> QED BY <3>2 DEF navrh_plan_materialized
    <2>3. /\ row.status = "agent_working" /\ row.stage \notin {"done", "programovanie"}
          /\ ~navrh_plan_materialized /\ Has(log, "approval")
      BY <1>3, <1>0 DEF PlanWritten, TurnOwnsRow, PlanInv, PlanComposedOnce, NoPlan,
                        navrh_plan_materialized, PhaseInv, spec_approved
    <2>4. ~programming_complete
      BY <1>0, <2>3 DEF PlanInv, CompleteMeansAllDone
    <2>5. /\ ~Has(log', "complete") /\ Has(log', "approval")
      BY <1>3, <1>0, <2>3, <2>4, SaidPhase DEF PlanWritten, programming_complete
    <2>6. row'.stage = row.stage
      BY <1>3, <1>0, <1>a, SettleOK DEF PlanWritten
    <2>7. delivery_phase = "specified"
      BY <2>3, <2>4 DEF delivery_phase, spec_approved
    <2>8. delivery_phase' = "planned"
      BY <2>2, <2>3, <2>5, <2>6 DEF delivery_phase, programming_complete
    <2>9. PhaseInv'
      BY <2>5 DEF PhaseInv, programming_complete, spec_approved
    <2>10. (row.status = "agent_working")' \in BOOLEAN
      OBVIOUS
    <2> QED BY <2>3, <2>7, <2>8, <2>9, <2>10 DEF PhaseStep, D!Next, D!Plan
  <1>4. CASE PlanFails
    BY <1>4, <1>0, <1>a, <1>b, SettlePhase DEF PlanFails
  <1>5. CASE KontrolaSmoke
    <2>1. log' = log \/ \E k \in Classes \ {"compose", "complete", "approval"} : Say(k)
      BY <1>5 DEF KontrolaSmoke
    <2> QED BY <1>5, <1>0, <2>1, SaidPhase, PhaseKept
            DEF KontrolaSmoke, PhaseInv, navrh_plan_materialized, spec_approved
  <1>6. CASE KontrolaReport
    <2>1. log' = log \/ \E k \in Classes \ {"compose", "complete", "approval"} : Say(k)
      BY <1>6 DEF KontrolaReport
    <2> QED BY <1>6, <1>0, <2>1, SaidPhase, PhaseKept
            DEF KontrolaReport, PhaseInv, navrh_plan_materialized, spec_approved
  <1>7. CASE KontrolaNoReport
    BY <1>7, <1>0, <1>b, SettlePhase DEF KontrolaNoReport
  <1>8. CASE KontrolaRed
    BY <1>8, <1>0, <1>a, SettlePhase DEF KontrolaRed
  <1>9. CASE KontrolaGreen
    BY <1>9, <1>0, <1>a, SettlePhase DEF KontrolaGreen
  <1>10. CASE KontrolaResigns
    <2>1. Has(log, "complete") /\ Say("hotovo")
      BY <1>10, <1>0 DEF KontrolaResigns, auto_hotovo, NotOutrankedBy, SignInv, Sign
    <2>2. row.status = "agent_working" /\ row.stage # "done"
      BY <1>10, <1>0 DEF KontrolaResigns, TurnOwnsRow
    <2>3. row'.stage = "done" /\ (turn' = "plan" => IsLatest(log', "compose"))
      BY <1>10, <1>0, SignedRowOK, SettleOK DEF KontrolaResigns
    <2>4. ~IsLatest(log', "compose")
      BY <1>0, <2>1, RecordLatest DEF Say
    <2> QED BY <2>1, <2>2, <2>3, <2>4, SignedPhase
  <1>11. CASE BuildLeaves
    BY <1>11, <1>0, SettlePhase DEF BuildLeaves
  <1>12. CASE BuildTokenStop
    <2>1. RowOK(SetStatus(row, "paused")) /\ SetStatus(row, "paused").stage = row.stage
      BY <1>12, <1>0, SetStatusOK DEF BuildTokenStop, TurnOwnsRow
    <2> QED BY <1>12, <1>0, <2>1, SettlePhase DEF BuildTokenStop
  <1>13. CASE BuildOpenFindings
    BY <1>13, <1>0, <1>b, SettlePhase DEF BuildOpenFindings
  <1>14. CASE BuildCompletes
    <2> DEFINE r == SetStatus([row EXCEPT !.stage = "priprava"], "awaiting_manazer")
    <2>1. RowOK([row EXCEPT !.stage = "priprava"]) /\ [row EXCEPT !.stage = "priprava"].stage = "priprava"
      BY <1>14, <1>0 DEF BuildCompletes, RowOK, Rows, Stages
    <2>2. RowOK(r) /\ r.stage = "priprava"
      BY <2>1, SetStatusOK
    <2>3. row.status = "agent_working" /\ row.stage = "programovanie"
      BY <1>14, <1>0 DEF BuildCompletes, TurnOwnsRow
    <2>4. row'.stage = "priprava" /\ (turn' = "plan" => IsLatest(log', "compose"))
      BY <1>14, <1>0, <2>2, SettleOK DEF BuildCompletes
    <2>5. Has(log', "complete") /\ ~IsLatest(log', "compose")
      BY <1>14, <1>0, RecordHas, RecordLatest DEF BuildCompletes, Say
    <2>6. delivery_phase = "building"
      BY <2>3 DEF delivery_phase
    <2>7. delivery_phase' = "built"
      BY <2>4, <2>5 DEF delivery_phase, programming_complete
    <2>8. PhaseInv'
      BY <2>4, <2>5 DEF PhaseInv
    <2>9. (row.status = "agent_working")' \in BOOLEAN
      OBVIOUS
    <2> QED BY <2>3, <2>6, <2>7, <2>8, <2>9 DEF PhaseStep, D!Next, D!Complete
  <1>15. CASE BuildNoBaseline
    BY <1>15, <1>0, <1>a, SettlePhase DEF BuildNoBaseline
  <1>16. CASE BuildPicksTask
    <2>1. PICK t \in Task : IsNextTodo(t) /\ tasks' = [tasks EXCEPT ![t] = "in_progress"]
      BY <1>16 DEF BuildPicksTask
    <2>2. navrh_plan_materialized' <=> navrh_plan_materialized
      BY <1>0, <2>1 DEF IsNextTodo, TodoTasks, navrh_plan_materialized
    <2>3. log' = log \/ \E k \in Classes \ {"compose", "complete", "approval"} : Say(k)
      BY <1>16 DEF BuildPicksTask
    <2> QED BY <1>16, <1>0, <2>2, <2>3, SaidPhase, PhaseKept DEF BuildPicksTask, PhaseInv, spec_approved
  <1>17. ASSUME NEW t \in Task, TaskDone(t) PROVE PhaseStep
    <2>1. navrh_plan_materialized' <=> navrh_plan_materialized
      BY <1>17, <1>0 DEF TaskDone, Current, navrh_plan_materialized
    <2>2. log' = log \/ \E k \in Classes \ {"compose", "complete", "approval"} : Say(k)
      BY <1>17 DEF TaskDone
    <2> QED BY <1>17, <1>0, <2>1, <2>2, SaidPhase, PhaseKept DEF TaskDone, PhaseInv, spec_approved
  <1>18. ASSUME NEW t \in Task, TaskFails(t) PROVE PhaseStep
    <2>1. [tasks EXCEPT ![t] = "failed"] \in [Task -> TaskStatus]
      BY <1>0 DEF TaskStatus
    <2> QED BY <1>18, <1>0, <1>a, <2>1, SettlePhase DEF TaskFails, Current
  <1>19. ASSUME NEW t \in Task, TaskStops(t) PROVE PhaseStep
    BY <1>19, <1>0, <1>a, <1>b, SettlePhase DEF TaskStops
  <1>20. CASE ConsultTurn
    <2>1. RowOK(SetStatus(row, "done")) /\ SetStatus(row, "done").stage = row.stage
      BY <1>20, <1>0, SetStatusOK DEF ConsultTurn, TurnOwnsRow
    <2> QED BY <1>20, <1>0, <2>1, SettlePhase DEF ConsultTurn
  <1> QED BY <1>1, <1>2, <1>3, <1>4, <1>5, <1>6, <1>7, <1>8, <1>9, <1>10, <1>11, <1>12,
             <1>13, <1>14, <1>15, <1>16, <1>17, <1>18, <1>19, <1>20 DEF Engine

\* An exception or a restart hands the version back; a moving HEAD moves nothing.
LEMMA PhaseEnvironment == RegisterInv /\ (Crash \/ Restart \/ HeadMoves) => PhaseStep
  <1> SUFFICES ASSUME RegisterInv, Crash \/ Restart \/ HeadMoves PROVE PhaseStep
    OBVIOUS
  <1> USE DEF Classes
  <1>0. LogOK(log) /\ RowOK(row) /\ PhaseInv
    BY DEF RegisterInv, OwnInv
  <1>1. row'.stage = row.stage /\ tasks' = tasks /\ turn' \in {"idle", turn}
    BY <1>0, BlockOK, SetStatusOK DEF Crash, Restart, HeadMoves, BlockReasons
  <1>2. log' = log \/ \E k \in Classes \ {"compose", "complete", "approval"} : Say(k)
    BY DEF Crash, Restart, HeadMoves
  <1>3. navrh_plan_materialized' <=> navrh_plan_materialized
    BY <1>1 DEF navrh_plan_materialized
  <1> QED BY <1>0, <1>1, <1>2, <1>3, SaidPhase, PhaseKept DEF PhaseInv, spec_approved

\* Every step of the register is a step of the abstract machine, or leaves it alone.
LEMMA PhaseNext ==
  ASSUME RegisterInv, [Next]_vars
  PROVE  [D!Next]_<<delivery_phase, row.status = "agent_working">> /\ PhaseInv'
  <1>1. CASE Next
    BY <1>1, PhaseManager, PhaseEngine, PhaseEnvironment DEF Next, PhaseStep
  <1>2. CASE UNCHANGED vars
    <2>1. UNCHANGED <<delivery_phase, row.status = "agent_working">>
      BY <1>2 DEF vars, delivery_phase, programming_complete, navrh_plan_materialized,
                  spec_approved
    <2>2. PhaseInv'
      BY <1>2 DEF RegisterInv, vars, PhaseInv, programming_complete, spec_approved
    <2> QED BY <2>1, <2>2
  <1> QED BY <1>1, <1>2

\* PhaseInv is an invariant.
THEOREM Phased == Spec => []PhaseInv
  <1>1. OwnInv /\ PlanInv /\ SignInv /\ PhaseInv /\ [Next]_vars => PhaseInv'
    BY PhaseNext DEF RegisterInv
  <1>2. Init => PhaseInv
    BY PhaseInit
  <1> QED BY <1>1, <1>2, Owned, Planned, Signed, PTL DEF Spec

\* The register implements the promise: drafted, specified, planned, built and
\* delivered in this order, each step by whoever's turn it is (apply_action for
\* the Manager, the dispatch task for the agent), restarts and exceptions included.
THEOREM ImplementsDelivery == Spec => DeliversInOrder
  <1>1. OwnInv /\ PlanInv /\ SignInv /\ PhaseInv /\ [Next]_vars
          => [D!Next]_<<delivery_phase, row.status = "agent_working">>
    BY PhaseNext DEF RegisterInv
  <1>2. Init => D!Init
    BY PhaseInit
  <1> QED BY <1>1, <1>2, Owned, Planned, Signed, Phased, PTL DEF Spec, DeliversInOrder, D!Spec

-----------------------------------------------------------------------------
(* The first signature *)


\* A kontrola that is asked for or under way has not been reported yet.
CheckPending ==
  turn \in {"smoke", "check"} \/ IsLatest(log, "check") => ~kontrola_done

\* Past its first commit the result of a boot is recorded.
Booted ==
  turn \in {"check", "floor"} => Has(log, "smoke_green") \/ Has(log, "smoke_red")

\* Outside the last stretch of a kontrola a passed one speaks of a green boot.
PassedIsGreen ==
  turn # "floor" /\ kontrola_done /\ ~kontrola_floor_red
    => NotOutrankedBy(log, "smoke_green", "smoke_red")

FirstInv == ~Has(log, "hotovo") => CheckPending /\ Booted /\ PassedIsGreen

-----------------------------------------------------------------------------
(* What a step does to the queries *)

Loud == {"complete", "report", "floor_red", "smoke_green", "smoke_red", "hotovo"}

\* A message of any other class leaves every query of FirstInv as it was.
LEMMA QuietQueries ==
  ASSUME LogOK(log), log' = log \/ \E k \in Classes \ Loud : Say(k)
  PROVE  /\ kontrola_done' <=> kontrola_done
         /\ kontrola_floor_red' <=> kontrola_floor_red
         /\ Has(log', "hotovo") <=> Has(log, "hotovo")
         /\ Has(log', "smoke_green") <=> Has(log, "smoke_green")
         /\ Has(log', "smoke_red") <=> Has(log, "smoke_red")
         /\ NotOutrankedBy(log', "smoke_green", "smoke_red")
              <=> NotOutrankedBy(log, "smoke_green", "smoke_red")
  <1>1. CASE log' = log
    BY <1>1 DEF kontrola_done, kontrola_floor_red, programming_complete, NotOutrankedBy
  <1>2. ASSUME NEW k \in Classes \ Loud, Say(k)
        PROVE  /\ \A j \in Loud : Has(log', j) <=> Has(log, j)
               /\ \A a, b \in Loud : Newer(log', a, b) <=> Newer(log, a, b)
    BY <1>2, RecordHas, RecordNewer DEF Say, Loud
  <1> QED BY <1>1, <1>2 DEF kontrola_done, kontrola_floor_red, programming_complete,
                            NotOutrankedBy, Loud

\* A quiet step that enters a kontrola by its marker only keeps FirstInv.
LEMMA FirstKept ==
  ASSUME OwnInv, SignInv, FirstInv,
         log' = log \/ \E k \in Classes \ (Loud \cup {"check", "check_auto"}) : Say(k),
         turn' = "smoke" => turn = "smoke" \/ pending_check_marker(log'),
         turn' \in {"check", "floor"} => turn' = turn,
         turn = "floor" => turn' = turn
  PROVE  FirstInv'
  <1> SUFFICES ASSUME ~Has(log', "hotovo") PROVE (CheckPending /\ Booted /\ PassedIsGreen)'
    BY DEF FirstInv
  <1>0. LogOK(log)
    BY DEF OwnInv
  <1>1. /\ kontrola_done' <=> kontrola_done
        /\ kontrola_floor_red' <=> kontrola_floor_red
        /\ Has(log', "hotovo") <=> Has(log, "hotovo")
        /\ Has(log', "smoke_green") <=> Has(log, "smoke_green")
        /\ Has(log', "smoke_red") <=> Has(log, "smoke_red")
        /\ NotOutrankedBy(log', "smoke_green", "smoke_red")
             <=> NotOutrankedBy(log, "smoke_green", "smoke_red")
    BY <1>0, QuietQueries
  <1>2. CheckPending /\ Booted /\ PassedIsGreen
    BY <1>1 DEF FirstInv
  <1>3. IsLatest(log', "check") => IsLatest(log, "check")
    BY <1>0, RecordLatest DEF Say
  <1>4. ~IsLatest(log', "check_auto")
    <2>1. ~Has(log, "check_auto")
      BY <1>1 DEF SignInv
    <2> QED BY <1>0, <2>1, RecordLatest DEF Say, IsLatest
  <1>5. CheckPending'
    BY <1>1, <1>2, <1>3, <1>4 DEF CheckPending, pending_check_marker
  <1>6. Booted'
    BY <1>1, <1>2 DEF Booted
  <1>7. PassedIsGreen'
    BY <1>1, <1>2 DEF PassedIsGreen
  <1> QED BY <1>5, <1>6, <1>7

\* A settled turn is followed by a kontrola only if its marker is the latest message.
LEMMA SettleRoute ==
  ASSUME NEW r, SettleTurn(r)
  PROVE  /\ turn' = "smoke" => pending_check_marker(log')
         /\ turn' \notin {"check", "floor"}
  BY DEF SettleTurn, RouteTurn

\* The end of a turn that is no kontrola, or of one without a report.
LEMMA SettleFirst ==
  ASSUME OwnInv, SignInv, FirstInv, NEW r, SettleTurn(r), turn # "floor",
         log' = log \/ \E k \in Classes \ (Loud \cup {"check", "check_auto"}) : Say(k)
  PROVE  FirstInv'
  BY SettleRoute, FirstKept

LEMMA FirstInit == Init => FirstInv
  BY DEF Init, FirstInv, CheckPending, Booted, PassedIsGreen, EmptyLog, Has, IsLatest,
         kontrola_done, programming_complete

\* Once a version is signed FirstInv asks nothing more.
LEMMA FirstSigned ==
  ASSUME LogOK(log), NEW k \in Classes, Say(k), Has(log, "hotovo") \/ k = "hotovo"
  PROVE  FirstInv'
  BY RecordHas DEF Say, FirstInv

-----------------------------------------------------------------------------
(* The actions *)

LEMMA FirstManager == OwnInv /\ SignInv /\ FirstInv /\ Manager => FirstInv'
  <1> SUFFICES ASSUME OwnInv, SignInv, FirstInv, Manager PROVE FirstInv'
    OBVIOUS
  <1> USE DEF Classes, Loud
  <1>0. LogOK(log)
    BY DEF OwnInv
  <1>1. CASE Start \/ ApproveSpec \/ ZostavPlan \/ SpustitStavbu \/ Uprav \/ Ask \/ Answer
             \/ Pokracovat \/ Pause \/ RelayEnqueue \/ RelayConsult
    <2>1. log' = log \/ \E k \in {"other", "approval", "compose"} : Say(k)
      BY <1>1 DEF Start, ApproveSpec, ZostavPlan, SpustitStavbu, Uprav, Ask, Answer,
                  Pokracovat, Pause, RelayEnqueue, RelayConsult
    <2>2. turn' = turn
      BY <1>1 DEF Start, ApproveSpec, ZostavPlan, SpustitStavbu, Uprav, Ask, Answer,
                  Pokracovat, Pause, RelayEnqueue, RelayConsult
    <2> QED BY <2>1, <2>2, FirstKept
  <1>2. CASE Skontrolovat
    <2>1. ~kontrola_done /\ Say("check") /\ turn = "idle" /\ turn' = "idle"
      BY <1>2, GuardIdle DEF Skontrolovat, CanSkontrolovat
    <2>2. ~kontrola_done'
      BY <1>0, <2>1, QuietQueries
    <2> QED BY <2>1, <2>2 DEF FirstInv, CheckPending, Booted, PassedIsGreen
  <1>3. CASE Hotovo
    BY <1>0, <1>3, FirstSigned DEF Hotovo, Sign
  <1>4. CASE OveritZnovu
    BY <1>0, <1>4, FirstSigned DEF OveritZnovu, CanOveritZnovu, hotovo_drift, manazer_signoff,
                                   NotOutrankedBy
  <1> QED BY <1>1, <1>2, <1>3, <1>4 DEF Manager

LEMMA FirstEngine == OwnInv /\ SignInv /\ FirstInv /\ Engine => FirstInv'
  <1> SUFFICES ASSUME OwnInv, SignInv, FirstInv, Engine PROVE FirstInv'
    OBVIOUS
  <1> USE DEF Classes, Loud
  <1>0. LogOK(log)
    BY DEF OwnInv
  <1>1. CASE StartTurn
    <2>1. /\ turn = "idle" /\ log' = log
          /\ turn' = "smoke" => pending_check_marker(log')
          /\ turn' \notin {"check", "floor"}
      BY <1>1 DEF StartTurn, RouteTurn
    <2> QED BY <2>1, FirstKept
  <1>2. CASE ChatTurn
    BY <1>2, SettleFirst DEF ChatTurn
  <1>3. CASE PlanWritten
    BY <1>3, SettleFirst DEF PlanWritten
  <1>4. CASE PlanFails
    BY <1>4, SettleFirst DEF PlanFails
  <1>5. CASE KontrolaSmoke
    <2>1. PICK k \in {"smoke_green", "smoke_red"} : Say(k)
      BY <1>5 DEF KontrolaSmoke
    <2>2. turn = "smoke" /\ turn' = "check"
      BY <1>5 DEF KontrolaSmoke
    <2>3. CASE Has(log, "hotovo")
      BY <1>0, <2>1, <2>3, FirstSigned
    <2>4. CASE ~Has(log, "hotovo")
      <3>1. ~kontrola_done
        BY <2>2, <2>4 DEF FirstInv, CheckPending
      <3>2. ~kontrola_done'
        BY <1>0, <2>1, <3>1, RecordHas, RecordNewer DEF Say, kontrola_done, programming_complete
      <3>3. Has(log', "smoke_green") \/ Has(log', "smoke_red")
        BY <1>0, <2>1, RecordHas DEF Say
      <3> QED BY <2>2, <3>2, <3>3 DEF FirstInv, CheckPending, Booted, PassedIsGreen
    <2> QED BY <2>3, <2>4
  <1>6. CASE KontrolaReport
    <2>1. PICK k \in {"report", "other"} : Say(k)
      BY <1>6 DEF KontrolaReport
    <2>2. turn = "check" /\ turn' = "floor"
      BY <1>6 DEF KontrolaReport
    <2>3. CASE Has(log, "hotovo")
      BY <1>0, <2>1, <2>3, FirstSigned
    <2>4. CASE ~Has(log, "hotovo")
      <3>1. Has(log', "smoke_green") \/ Has(log', "smoke_red")
        BY <1>0, <2>1, <2>2, <2>4, RecordHas DEF Say, FirstInv, Booted
      <3>2. ~IsLatest(log', "check")
        BY <1>0, <2>1, RecordLatest DEF Say
      <3> QED BY <2>2, <3>1, <3>2 DEF FirstInv, CheckPending, Booted, PassedIsGreen
    <2> QED BY <2>3, <2>4
  <1>7. CASE KontrolaNoReport
    BY <1>7, SettleFirst DEF KontrolaNoReport
  <1>8. CASE KontrolaRed
    <2>1. Say("floor_red") /\ turn = "floor"
      BY <1>8 DEF KontrolaRed
    <2>2. turn' \notin {"check", "floor"} /\ (turn' = "smoke" => pending_check_marker(log'))
      BY <1>8, SettleRoute DEF KontrolaRed
    <2>3. ~pending_check_marker(log') /\ ~IsLatest(log', "check")
      BY <1>0, <2>1, RecordLatest DEF Say, pending_check_marker
    <2>4. kontrola_done' => kontrola_floor_red'
      <3>1. kontrola_done' => Newer(log, "report", "complete")
        BY <1>0, <2>1, RecordNewer DEF Say, kontrola_done
      <3>2. Newer(log, "report", "complete") => Has(log, "report")
        BY <1>0 DEF LogOK, Newer, Has
      <3>3. Has(log, "report") => Has(log', "report") /\ Newer(log', "floor_red", "report")
        BY <1>0, <2>1, RecordHas, RecordNewer DEF Say
      <3> QED BY <3>1, <3>2, <3>3 DEF kontrola_floor_red
    <2> QED BY <2>2, <2>3, <2>4 DEF FirstInv, CheckPending, Booted, PassedIsGreen
  <1>9. CASE KontrolaGreen
    <2>1. log' = log /\ turn = "floor" /\ ~runtime_floor_red
      BY <1>9 DEF KontrolaGreen
    <2>2. turn' \notin {"check", "floor"} /\ (turn' = "smoke" => pending_check_marker(log'))
      BY <1>9, SettleRoute DEF KontrolaGreen
    <2> SUFFICES ASSUME ~Has(log', "hotovo") PROVE (CheckPending /\ Booted /\ PassedIsGreen)'
      BY DEF FirstInv
    <2>3. CheckPending /\ Booted
      BY <2>1 DEF FirstInv
    <2>4. NotOutrankedBy(log, "smoke_green", "smoke_red")
      BY <1>0, <2>1, <2>3 DEF Booted, runtime_floor_red, NotOutrankedBy, LogOK, Has, Newer
    <2>5. ~IsLatest(log', "check_auto")
      BY <2>1 DEF SignInv, IsLatest
    <2>6. (kontrola_done' <=> kontrola_done) /\ (IsLatest(log', "check") <=> IsLatest(log, "check"))
      BY <2>1 DEF kontrola_done, programming_complete
    <2> QED BY <2>1, <2>2, <2>3, <2>4, <2>5, <2>6
            DEF CheckPending, Booted, PassedIsGreen, pending_check_marker
  <1>10. CASE KontrolaResigns
    BY <1>0, <1>10, FirstSigned DEF KontrolaResigns, Sign
  <1>11. CASE BuildLeaves
    BY <1>11, SettleFirst DEF BuildLeaves
  <1>12. CASE BuildTokenStop
    BY <1>12, SettleFirst DEF BuildTokenStop
  <1>13. CASE BuildOpenFindings
    BY <1>13, SettleFirst DEF BuildOpenFindings
  <1>14. CASE BuildCompletes
    <2>1. Say("complete")
      BY <1>14 DEF BuildCompletes
    <2>2. turn' \notin {"check", "floor"}
      BY <1>14, SettleRoute DEF BuildCompletes
    <2>3. ~kontrola_done'
      BY <1>0, <2>1, RecordNewer DEF Say, kontrola_done
    <2> QED BY <2>2, <2>3 DEF FirstInv, CheckPending, Booted, PassedIsGreen
  <1>15. CASE BuildNoBaseline
    BY <1>15, SettleFirst DEF BuildNoBaseline
  <1>16. CASE BuildPicksTask
    BY <1>16, FirstKept DEF BuildPicksTask
  <1>17. ASSUME NEW t \in Task, TaskDone(t) PROVE FirstInv'
    BY <1>17, FirstKept DEF TaskDone, Current
  <1>18. ASSUME NEW t \in Task, TaskFails(t) PROVE FirstInv'
    BY <1>18, SettleFirst DEF TaskFails, Current
  <1>19. ASSUME NEW t \in Task, TaskStops(t) PROVE FirstInv'
    BY <1>19, SettleFirst DEF TaskStops, Current
  <1>20. CASE ConsultTurn
    BY <1>20, SettleFirst DEF ConsultTurn
  <1> QED BY <1>1, <1>2, <1>3, <1>4, <1>5, <1>6, <1>7, <1>8, <1>9, <1>10, <1>11, <1>12,
             <1>13, <1>14, <1>15, <1>16, <1>17, <1>18, <1>19, <1>20 DEF Engine

LEMMA FirstNext ==
  ASSUME ~CanCrash, ~CanRestart, OwnInv, SignInv, FirstInv, [Next]_vars
  PROVE  FirstInv'
  <1>1. CASE HeadMoves \/ UNCHANGED vars
    BY <1>1, FirstKept DEF HeadMoves, vars
  <1>2. ~Crash /\ ~Restart
    BY DEF Crash, Restart
  <1> QED BY <1>1, <1>2, FirstManager, FirstEngine DEF Next

\* The step that signs a version for the first time is a hotovo on a passed kontrola.
LEMMA FirstSignStep ==
  ASSUME ~CanCrash, ~CanRestart, OwnInv, SignInv, FirstInv, [Next]_vars,
         Signs, ~Has(log, "hotovo")
  PROVE  NotOutrankedBy(log, "smoke_green", "smoke_red")
  <1>0. LogOK(log) /\ RowOK(row) /\ row \in Rows /\ TurnOwnsRow
    BY DEF OwnInv, RowOK
  <1>1. CASE Hotovo
    BY <1>1, GuardIdle DEF Hotovo, CanHotovo, FirstInv, PassedIsGreen
  <1>2. ~KontrolaResigns
    BY DEF KontrolaResigns, auto_hotovo, NotOutrankedBy, SignInv
  <1>3. ASSUME Manager, ~Hotovo PROVE FALSE
    <2>1. BeginDispatch(row).stage = row.stage
      BY <1>0, BeginKeepsStage
    <2>2. \A s \in Stages : BeginDispatch([row EXCEPT !.stage = s]).stage = s
      <3> SUFFICES ASSUME NEW s \in Stages PROVE BeginDispatch([row EXCEPT !.stage = s]).stage = s
        OBVIOUS
      <3>1. [row EXCEPT !.stage = s] \in Rows /\ [row EXCEPT !.stage = s].stage = s
        BY <1>0 DEF Rows
      <3> QED BY <3>1, BeginKeepsStage
    <2>3. \A v \in Statuses : SetStatus(row, v).stage = row.stage
      BY <1>0 DEF SetStatus, ClearBlockReasonOnUnblock, ClearDispatchOnSettle, Rows
    <2>4. BeginDispatch(NewRow).stage = "priprava"
      BY DEF BeginDispatch, NewRow, NoRow, SetStatus, ClearBlockReasonOnUnblock,
             ClearDispatchOnSettle
    <2>5. ~(SpustitStavbu \/ OveritZnovu \/ Start)
      BY <2>2, <2>4 DEF SpustitStavbu, OveritZnovu, Start, Signs, Stages
    <2>6. ~(ApproveSpec \/ Pause \/ RelayEnqueue \/ RelayConsult)
      BY <2>3 DEF ApproveSpec, Pause, RelayEnqueue, RelayConsult, Signs, Statuses
    <2>7. ~(ZostavPlan \/ Skontrolovat \/ Uprav \/ Ask \/ Answer \/ Pokracovat)
      BY <2>1 DEF ZostavPlan, Skontrolovat, Uprav, Ask, Answer, Pokracovat, Signs
    <2> QED BY <1>3, <2>5, <2>6, <2>7 DEF Manager
  <1>4. ASSUME Engine PROVE FALSE
    <2>1. \A r : RowOK(r) /\ SettleTurn(r) => r.stage = "done"
      BY SettleOK DEF OwnInv, Signs
    <2>2. \A b \in {"agent_question", "parse_exhaustion", "framework_issue", "agent_error",
                    "system_error"} :
            RowOK(Block(row, b)) /\ Block(row, b).stage # "done"
      BY <1>0, BlockOK DEF BlockReasons, Signs
    <2>3. RowOK(SetStatus(row, "awaiting_manazer"))
            /\ SetStatus(row, "awaiting_manazer").stage # "done"
      BY <1>0, SetStatusOK DEF Signs
    <2>4. turn # "consult"
      BY <1>0 DEF TurnOwnsRow, Signs
    <2>5. ~(ChatTurn \/ PlanWritten \/ PlanFails \/ KontrolaNoReport \/ KontrolaRed
            \/ KontrolaGreen \/ BuildOpenFindings \/ BuildNoBaseline)
      BY <2>1, <2>2, <2>3 DEF ChatTurn, PlanWritten, PlanFails, KontrolaNoReport, KontrolaRed,
                              KontrolaGreen, BuildOpenFindings, BuildNoBaseline
    <2>6. ~BuildLeaves
      BY <1>0, <2>1 DEF BuildLeaves, Signs
    <2>7. ~BuildTokenStop
      BY <1>0, <2>1, SetStatusOK DEF BuildTokenStop, TurnOwnsRow
    <2>8. ~BuildCompletes
      <3>1. BuildCompletes => /\ RowOK([row EXCEPT !.stage = "priprava"])
                              /\ [row EXCEPT !.stage = "priprava"].stage = "priprava"
        BY <1>0 DEF BuildCompletes, RowOK, Rows, Stages
      <3> QED BY <2>1, <3>1, SetStatusOK DEF BuildCompletes
    <2>9. ~(StartTurn \/ KontrolaSmoke \/ KontrolaReport \/ BuildPicksTask)
      BY DEF StartTurn, KontrolaSmoke, KontrolaReport, BuildPicksTask, Signs
    <2>10. \A t \in Task : ~TaskDone(t) /\ ~TaskFails(t) /\ ~TaskStops(t)
      BY <2>1, <2>2, <2>3 DEF TaskDone, TaskFails, TaskStops, Signs
    <2>11. ~ConsultTurn
      BY <2>4 DEF ConsultTurn
    <2> QED BY <1>2, <1>4, <2>5, <2>6, <2>7, <2>8, <2>9, <2>10, <2>11 DEF Engine
  <1>5. ~(Crash \/ Restart \/ HeadMoves \/ UNCHANGED vars)
    BY DEF Crash, Restart, HeadMoves, vars, Signs
  <1> QED BY <1>1, <1>3, <1>4, <1>5 DEF Next

\* FirstInv is an invariant while no turn is cut short.
THEOREM FirstHolds == ~CanCrash /\ ~CanRestart /\ Spec => []FirstInv
  <1> SUFFICES ASSUME ~CanCrash, ~CanRestart PROVE Spec => []FirstInv
    OBVIOUS
  <1>1. OwnInv /\ SignInv /\ FirstInv /\ [Next]_vars => FirstInv'
    BY FirstNext
  <1> QED BY <1>1, FirstInit, Owned, Signed, PTL DEF Spec

\* While no turn is cut short, the first signature of a version is put under a
\* build whose last boot passed (hotovo, through kontrola_passed).
THEOREM FirstSignatureGreen ==
  ~CanCrash /\ ~CanRestart /\ Spec => FirstSignatureOverGreenSmoke
  <1> SUFFICES ASSUME ~CanCrash, ~CanRestart PROVE Spec => FirstSignatureOverGreenSmoke
    OBVIOUS
  <1>1. OwnInv /\ SignInv /\ FirstInv /\ [Next]_vars
          => [Signs /\ ~Has(log, "hotovo")
                => NotOutrankedBy(log, "smoke_green", "smoke_red")]_vars
    BY FirstSignStep
  <1>2. Spec => []FirstInv
    BY FirstHolds
  <1> QED BY <1>1, <1>2, Owned, Signed, PTL DEF Spec, FirstSignatureOverGreenSmoke
=============================================================================
