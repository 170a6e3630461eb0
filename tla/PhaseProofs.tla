----------------------------- MODULE PhaseProofs -----------------------------
(***************************************************************************)
(* Machine-checked proofs about module PhaseBuild, for every plan size,    *)
(* every number of the Auditor's rounds and every set of commits, with     *)
(* exceptions and restarts allowed.                                        *)
(*                                                                         *)
(* GateInv says that a dispatch works on the row of its own phase and      *)
(* never chains more phases than its budget has left: two for every fix    *)
(* round not started yet and one for every phase still ahead of            *)
(* verifikacia.  A chained phase uses up what it costs, and what the       *)
(* Manager does between dispatches only gives the counter back.            *)
(*                                                                         *)
(* On it rest TasksInv, the shape of the plan and the fixes behind it, and *)
(* CardInv, that a decision that waits is read from its own card.          *)
(***************************************************************************)
EXTENDS PhaseBuild, TLAPS

-----------------------------------------------------------------------------
(* The row *)

\* The flag is set exactly while an agent works, and the terminal stage is done.
RowOK(r) ==
  /\ r \in Rows
  /\ r.in_flight <=> r.status = "agent_working"
  /\ r.stage = "done" => r.status = "done"
  /\ r.status = "absent" => r.stage = "priprava"

\* A settle through the ORM listeners leaves a consistent row of the same stage.
LEMMA SetStatusOK ==
  ASSUME NEW r, RowOK(r), NEW v \in {"awaiting_manazer", "paused", "done"},
         v = "done" \/ r.stage # "done"
  PROVE  /\ RowOK(SetStatus(r, v)) /\ SetStatus(r, v).stage = r.stage
         /\ SetStatus(r, v).status = v
  BY DEF RowOK, Rows, SetStatus, ClearBlockReasonOnUnblock, ClearDispatchOnSettle,
         Statuses, NoReason

\* So does a block, whatever the reason.
LEMMA BlockOK ==
  ASSUME NEW r, RowOK(r), r.stage # "done", NEW reason \in BlockReasons
  PROVE  /\ RowOK(Block(r, reason)) /\ Block(r, reason).stage = r.stage
         /\ Block(r, reason).status = "blocked"
  BY DEF RowOK, Rows, Block, SetStatus, ClearBlockReasonOnUnblock, ClearDispatchOnSettle,
         Statuses, NoReason, BlockReasons

\* Arming a turn (_begin_dispatch) gives a working row of the same stage.
LEMMA BeginDispatchOK ==
  ASSUME NEW r \in Rows, r.stage # "done"
  PROVE  /\ RowOK(BeginDispatch(r)) /\ BeginDispatch(r).stage = r.stage
         /\ BeginDispatch(r).status = "agent_working"
  BY DEF RowOK, Rows, BeginDispatch, StageActor, Actors, Stages, SetStatus,
         ClearBlockReasonOnUnblock, ClearDispatchOnSettle, Statuses, NoReason

\* Moving a started row to another phase keeps it consistent.
LEMMA MoveOK ==
  ASSUME NEW r, RowOK(r), Started(r), NEW s \in Stages \ {"done"}
  PROVE  /\ [r EXCEPT !.stage = s] \in Rows /\ [r EXCEPT !.stage = s].stage = s
         /\ LET q == [r EXCEPT !.stage = s, !.actor = "ai_agent"]
            IN  RowOK(q) /\ q.stage = s
  BY DEF RowOK, Rows, Started, Stages, Actors

\* So does arming it there.
LEMMA ArmMovedOK ==
  ASSUME NEW r, RowOK(r), Started(r), NEW s \in Stages \ {"done"}
  PROVE  LET q == BeginDispatch([r EXCEPT !.stage = s])
         IN  RowOK(q) /\ q.stage = s /\ q.status = "agent_working"
<1> DEFINE moved == [r EXCEPT !.stage = s]
<1>1. moved \in Rows /\ moved.stage = s BY MoveOK
<1> HIDE DEF moved
<1>2. /\ RowOK(BeginDispatch(moved)) /\ BeginDispatch(moved).stage = s
      /\ BeginDispatch(moved).status = "agent_working"
  BY <1>1, BeginDispatchOK
<1> QED BY <1>2 DEF moved

\* Hotovo gives a finished row.
LEMMA TerminalOK ==
  ASSUME RowOK(row), Started(row)
  PROVE  RowOK(Terminal) /\ Terminal.stage = "done"
  BY DEF RowOK, Rows, Started, Terminal, SetStatus, Stages, Actors,
         ClearBlockReasonOnUnblock, ClearDispatchOnSettle, Statuses, NoReason

-----------------------------------------------------------------------------
(* GateInv *)

\* The phase a program point belongs to.
Home ==
  [t \in Turns \ {"idle", "tripped"} |->
     CASE t = "priprava" -> "priprava"
       [] t \in {"navrh", "plan", "review", "consult"} -> "navrh"
       [] t \in {"build", "task"} -> "programovanie"
       [] OTHER -> "verifikacia"]

\* A dispatch works on the row of its own phase; only the loop over the tasks may
\* find its version paused.
Owned ==
  turn \in DOMAIN Home =>
    /\ row.stage = Home[turn]
    /\ \/ row.status = "agent_working"
       \/ row.status = "paused" /\ turn \in {"build", "task"}

\* What a dispatch may still chain: two phases a fix round, one a phase ahead.
RoundsLeft  == IF iteration < AUDITOR_LOOP_MAX THEN 2 * (AUDITOR_LOOP_MAX - iteration) ELSE 0
Ahead(stage) == IF stage = "priprava" THEN 2 ELSE IF stage = "programovanie" THEN 1 ELSE 0

Budgeted ==
  /\ turn # "idle" /\ flow = "fast_fix" =>
       chain + RoundsLeft + Ahead(row.stage) <= 2 * AUDITOR_LOOP_MAX + 2
  /\ turn = "idle" \/ flow = "new_version" => chain = 0

GateInv ==
  /\ RowOK(row) /\ flow \in Flows /\ iteration \in Nat /\ chain \in Nat
  /\ turn \in Turns /\ NeverTrips
  /\ Owned /\ Budgeted
  /\ flow = "fast_fix" => row.stage # "navrh"
  /\ DoneIsVerified

LEMMA RoundsNat ==
  /\ iteration \in Nat => RoundsLeft \in Nat
  /\ iteration' \in Nat => RoundsLeft' \in Nat
<1> USE PhaseAssumption DEF PhaseAssumption
<1>1. ASSUME NEW i \in Nat, i < AUDITOR_LOOP_MAX PROVE 2 * (AUDITOR_LOOP_MAX - i) \in Nat
  BY <1>1
<1> QED BY <1>1 DEF RoundsLeft

LEMMA GateInit == Init => GateInv
  BY DEF Init, GateInv, RowOK, NoRow, Rows, Stages, Actors, Statuses, BlockReasons, NoReason,
         Flows, Turns, NeverTrips, Owned, Home, Budgeted, DoneIsVerified

-----------------------------------------------------------------------------
(* The shapes of a step *)

\* No dispatch runs after the step.
LEMMA IdleKeeps ==
  ASSUME RowOK(row'), turn' = "idle", chain' = 0, flow' \in Flows, iteration' \in Nat,
         flow' = "fast_fix" => row'.stage # "navrh",
         row'.stage = "done" => judged' = "PASS"
  PROVE  GateInv'
  BY DEF GateInv, Turns, NeverTrips, Owned, Home, Budgeted, DoneIsVerified

\* The dispatch goes on inside its phase.
LEMMA InsideKeeps ==
  ASSUME GateInv, turn \in DOMAIN Home, turn' \in DOMAIN Home, Home[turn'] = Home[turn],
         turn \in {"build", "task"} => turn' \in {"build", "task"},
         UNCHANGED <<row, flow, chain, iteration>>
  PROVE  GateInv'
<1>1. row.stage # "done" BY DEF GateInv, Owned, Home, Turns
<1>2. turn # "idle" /\ turn' # "idle" /\ turn' \in Turns /\ turn' # "tripped" BY DEF Home
<1>3. Owned' BY DEF GateInv, Owned
<1>4. Budgeted' BY <1>2 DEF GateInv, Budgeted, RoundsLeft
<1> QED BY <1>1, <1>2, <1>3, <1>4 DEF GateInv, NeverTrips, DoneIsVerified

\* A row is armed where it stands, whoever is at work on it.
LEMMA RearmKeeps ==
  ASSUME GateInv, Started(row), row' = BeginDispatch(row),
         UNCHANGED <<flow, iteration, judged, turn, chain>>
  PROVE  GateInv'
<1>1. CASE row.stage = "done"
  <2>1. row' = row BY <1>1 DEF BeginDispatch
  <2> QED BY <2>1 DEF GateInv, NeverTrips, Owned, Budgeted, RoundsLeft, DoneIsVerified
<1>2. CASE row.stage # "done"
  <2>1. RowOK(row') /\ row'.stage = row.stage /\ row'.status = "agent_working"
    BY <1>2, BeginDispatchOK DEF GateInv, RowOK
  <2>2. Owned' BY <2>1 DEF GateInv, Owned
  <2>3. Budgeted' BY <2>1 DEF GateInv, Budgeted, RoundsLeft
  <2> QED BY <2>1, <2>2, <2>3 DEF GateInv, NeverTrips, DoneIsVerified
<1> QED BY <1>1, <1>2

\* The guards of apply_action let an action through only when no dispatch is
\* running, the three that may meet a running or paused build loop aside.
LEMMA GuardIdle ==
  ASSUME GateInv, NEW a, PassesGuards(row, a), a \notin {"pause", "pokracovat", "uprav"}
  PROVE  /\ turn = "idle" /\ chain = 0 /\ row.status \notin {"agent_working", "paused"}
         /\ Started(row)
  BY DEF GateInv, RowOK, PassesGuards, Owned, Home, Turns, NeverTrips, Budgeted

\* The dispatch enters the round of a phase.
LEMMA EnterHome ==
  ASSUME NEW s \in Stages \ {"done"}, NEW ts, Enter(s, ts)
  PROVE  turn' \in DOMAIN Home /\ Home[turn'] = s
<1>1. CASE s = "programovanie" BY <1>1 DEF Enter, Home, Turns
<1>2. CASE s = "verifikacia" BY <1>2 DEF Enter, Home, Turns
<1>3. CASE s \in {"priprava", "navrh"} BY <1>3 DEF Enter, Home, Turns
<1> QED BY <1>1, <1>2, <1>3 DEF Stages

\* A phase is chained: the dispatch of a fast_fix goes on in another phase, which
\* its budget covers.
LEMMA ChainKeeps ==
  ASSUME GateInv, flow = "fast_fix", turn # "idle", UNCHANGED flow,
         NEW r, RowOK(r), r.status = "agent_working", r.stage \in Stages \ {"done", "navrh"},
         NEW ts, Chain(r, ts), iteration' \in Nat,
         1 + RoundsLeft' + Ahead(r.stage) <= RoundsLeft + Ahead(row.stage)
  PROVE  GateInv'
<1> USE PhaseAssumption DEF PhaseAssumption
<1>1. row' = r BY DEF Chain
<1>2. /\ chain + RoundsLeft + Ahead(row.stage) <= 2 * AUDITOR_LOOP_MAX + 2
      /\ chain \in Nat /\ iteration \in Nat
  BY DEF GateInv, Budgeted
<1>3. RoundsLeft \in Nat /\ RoundsLeft' \in Nat BY <1>2, RoundsNat
<1>4. Ahead(row.stage) \in Nat /\ Ahead(r.stage) \in Nat BY DEF Ahead
<1>5. auto_chain_limit = 5 + 2 * AUDITOR_LOOP_MAX
  BY DEF auto_chain_limit, STAGE_ORDER
<1>6. chain < auto_chain_limit BY <1>2, <1>3, <1>4, <1>5
<1>7. chain' = chain + 1 /\ Enter(r.stage, ts) BY <1>6 DEF Chain
<1>8. turn' \in DOMAIN Home /\ Home[turn'] = r.stage BY <1>7, EnterHome
<1>9. Owned' BY <1>1, <1>8 DEF Owned
<1>10. chain' + RoundsLeft' + Ahead(r.stage) <= 2 * AUDITOR_LOOP_MAX + 2
  BY <1>2, <1>3, <1>4, <1>7
<1>11. turn' \in Turns /\ turn' # "idle" /\ turn' # "tripped" BY <1>8 DEF Home
<1>12. Budgeted' BY <1>1, <1>10, <1>11 DEF Budgeted
<1> QED BY <1>1, <1>2, <1>7, <1>9, <1>11, <1>12 DEF GateInv, NeverTrips, DoneIsVerified, Flows

\* The settle of a phase boundary (_settle_phase_boundary); only a fast_fix
\* leaves its phase by it.
LEMMA BoundaryKeeps ==
  ASSUME GateInv, turn \in {"priprava", "review", "build", "settle"},
         row.status = "agent_working", Boundary, UNCHANGED <<flow, iteration, judged>>
  PROVE  GateInv' /\ (flow = "new_version" => row'.stage = row.stage)
<1> USE PhaseAssumption DEF PhaseAssumption
<1> DEFINE next == NextStage(row.stage, flow)
<1>0. /\ row.stage = Home[turn] /\ RowOK(row) /\ row.stage # "done" /\ Started(row)
      /\ turn # "idle"
  BY DEF GateInv, Owned, Home, Turns, Started
<1>1. CASE ~Continues(row.stage)
  <2>1. Settle(SetStatus(row, "awaiting_manazer")) BY <1>1 DEF Boundary
  <2>2. RowOK(row') /\ row'.stage = row.stage BY <2>1, <1>0, SetStatusOK DEF Settle
  <2> QED BY <2>1, <2>2, <1>0, IdleKeeps DEF Settle, GateInv
<1>2. CASE Continues(row.stage)
  <2>1. flow = "fast_fix" /\ row.stage # "navrh" BY <1>2 DEF Continues, GateInv
  <2>2. CASE row.stage = "verifikacia"
    <3>1. next = "done" BY <2>2 DEF NextStage
    <3>2. Settle(Terminal) BY <1>2, <3>1 DEF Boundary
    <3>3. judged = "PASS" BY <1>2, <2>2 DEF Continues, verifikacia_passed
    <3> QED BY <1>0, <2>1, <3>2, <3>3, TerminalOK, IdleKeeps DEF Settle, GateInv, Flows
  <2>3. CASE row.stage \in {"priprava", "programovanie"}
    <3>1. /\ next \in Stages \ {"done", "navrh"}
          /\ 1 + Ahead(next) = Ahead(row.stage)
      BY <2>1, <2>3 DEF NextStage, Ahead, Stages
    <3> DEFINE r == BeginDispatch([row EXCEPT !.stage = next])
    <3>2. Chain(r, tasks) BY <1>2, <3>1 DEF Boundary
    <3> HIDE DEF next
    <3>3. RowOK(r) /\ r.stage = next /\ r.status = "agent_working"
      BY <1>0, <3>1, ArmMovedOK
    <3> HIDE DEF r
    <3>4. iteration' \in Nat /\ RoundsLeft' = RoundsLeft BY DEF GateInv, RoundsLeft
    <3>5. RoundsLeft \in Nat BY DEF GateInv, RoundsLeft
    <3>6. Ahead(row.stage) \in Nat /\ Ahead(next) \in Nat BY DEF Ahead
    <3>7. 1 + RoundsLeft' + Ahead(r.stage) <= RoundsLeft + Ahead(row.stage)
      BY <3>1, <3>3, <3>4, <3>5, <3>6
    <3> QED BY <1>0, <2>1, <3>1, <3>2, <3>3, <3>4, <3>7, ChainKeeps
  <2> QED BY <1>0, <2>1, <2>2, <2>3 DEF GateInv, RowOK, Rows, Stages
<1> QED BY <1>1, <1>2

-----------------------------------------------------------------------------
(* The Manager *)

\* A correction routed to the fixer (_route_manazer_fix_to_ai_agent).
LEMMA RouteFixKeeps ==
  ASSUME GateInv, turn = "idle", Started(row), RouteFix
  PROVE  GateInv'
<1> DEFINE r == [row EXCEPT !.stage = "programovanie", !.actor = "ai_agent"]
<1>1. RowOK(r) /\ r.stage = "programovanie" BY MoveOK DEF GateInv, Stages
<1>2. row' = IF flow = "fast_fix" THEN BeginDispatch(r) ELSE SetStatus(r, "paused")
  BY DEF RouteFix
<1> HIDE DEF r
<1>3. RowOK(row') /\ row'.stage = "programovanie"
  BY <1>1, <1>2, BeginDispatchOK, SetStatusOK DEF RowOK
<1> QED BY <1>3, IdleKeeps DEF RouteFix, GateInv, Budgeted

LEMMA ManagerKeeps == ASSUME GateInv, Manager PROVE GateInv'
<1> USE PhaseAssumption DEF PhaseAssumption
<1>0. RowOK(row) /\ row \in Rows BY DEF GateInv, RowOK
<1>1. ASSUME NEW f \in Flows, Start(f) PROVE GateInv'
  <2>1. turn = "idle" /\ chain = 0
    BY <1>1 DEF Start, Started, GateInv, Owned, Home, Turns, NeverTrips, Budgeted
  <2>2. NewRow \in Rows /\ NewRow.stage = "priprava"
    BY DEF NewRow, NoRow, Rows, Stages, Actors, Statuses, NoReason
  <2>3. RowOK(row') /\ row'.stage = "priprava" BY <1>1, <2>2, BeginDispatchOK DEF Start
  <2> QED BY <1>1, <2>1, <2>3, IdleKeeps DEF Start, GateInv
<1>2. CASE ApproveSpec
  <2>1. turn = "idle" /\ chain = 0 /\ Started(row) BY <1>2, GuardIdle DEF ApproveSpec
  <2> DEFINE s == NextStage("priprava", flow)
  <2>2. s \in Stages \ {"done"} /\ (flow = "fast_fix" => s # "navrh") BY DEF NextStage, Stages
  <2>3. row' = BeginDispatch([row EXCEPT !.stage = s]) BY <1>2 DEF ApproveSpec, Rearm
  <2> HIDE DEF s
  <2>4. RowOK(row') /\ row'.stage = s BY <1>0, <2>1, <2>2, <2>3, ArmMovedOK
  <2> QED BY <1>2, <2>1, <2>2, <2>4, IdleKeeps DEF ApproveSpec, Rearm, GateInv
<1>3. CASE Schvalit
  <2>1. turn = "idle" /\ chain = 0 /\ Started(row) BY <1>3, GuardIdle DEF Schvalit
  <2>2. CASE row.stage = "verifikacia"
    <3>1. row' = Terminal /\ judged = "PASS" BY <1>3, <2>2 DEF Schvalit, verifikacia_passed
    <3>2. UNCHANGED <<flow, iteration, judged, turn, chain>> BY <1>3 DEF Schvalit, evidence
    <3>3. RowOK(row') /\ row'.stage = "done" BY <1>0, <2>1, <3>1, TerminalOK
    <3> QED BY <2>1, <3>1, <3>2, <3>3, IdleKeeps DEF GateInv
  <2>3. CASE row.stage # "verifikacia"
    <3> DEFINE s == NextStage(row.stage, flow)
    <3>1. s \in Stages \ {"done", "navrh"} BY <1>3, <2>3 DEF Schvalit, NextStage, Stages
    <3>2. row' = BeginDispatch([row EXCEPT !.stage = s]) BY <1>3, <2>3 DEF Schvalit
    <3> HIDE DEF s
    <3>3. RowOK(row') /\ row'.stage = s BY <1>0, <2>1, <3>1, <3>2, ArmMovedOK
    <3> QED BY <1>3, <2>1, <3>1, <3>3, IdleKeeps DEF Schvalit, GateInv
  <2> QED BY <2>2, <2>3
<1>4. CASE Uprav
  <2>1. Started(row) /\ row.status # "agent_working"
    BY <1>4, <1>0 DEF Uprav, PassesGuards, AdvancingActions
  <2>2. CASE row.stage = "verifikacia" /\ RouteFix
    <3>1. turn = "idle" BY <2>1, <2>2 DEF GateInv, Owned, Home, Turns, NeverTrips
    <3> QED BY <2>1, <2>2, <3>1, RouteFixKeeps
  <2>3. CASE Rearm(row) BY <2>1, <2>3, RearmKeeps DEF Rearm, evidence
  <2> QED BY <1>4, <2>2, <2>3 DEF Uprav
<1>5. CASE OveritZnovu
  <2>1. turn = "idle" /\ chain = 0 /\ Started(row) BY <1>5, GuardIdle DEF OveritZnovu
  <2>2. row' = BeginDispatch([row EXCEPT !.stage = "verifikacia"]) BY <1>5 DEF OveritZnovu
  <2>3. "verifikacia" \in Stages \ {"done"} BY DEF Stages
  <2>4. RowOK(row') /\ row'.stage = "verifikacia"
    BY <1>0, <2>1, <2>2, <2>3, ArmMovedOK
  <2>5. iteration' \in Nat /\ flow' = flow /\ turn' = turn /\ chain' = chain
    BY <1>5 DEF OveritZnovu, GateInv
  <2> QED BY <2>1, <2>4, <2>5, IdleKeeps DEF GateInv
<1>6. CASE AskOrAnswer
  <2>1. Started(row) BY <1>6 DEF AskOrAnswer, PassesGuards
  <2> QED BY <1>6, <2>1, RearmKeeps DEF AskOrAnswer, Rearm, evidence
<1>7. CASE DecideUpfront
  <2>1. turn = "idle" /\ chain = 0 /\ Started(row) BY <1>7, GuardIdle DEF DecideUpfront, CanDecide
  <2>2. row' = BeginDispatch(row) \/ row' = row BY <1>7 DEF DecideUpfront
  <2>3. UNCHANGED <<flow, iteration, judged, turn, chain>> BY <1>7 DEF DecideUpfront, evidence
  <2>4. CASE row' = row
    BY <1>0, <2>1, <2>3, <2>4, IdleKeeps DEF GateInv, DoneIsVerified
  <2> QED BY <2>1, <2>2, <2>3, <2>4, RearmKeeps
<1>8. CASE DecideAcceptFix
  <2>1. Started(row) BY <1>8 DEF DecideAcceptFix, CanDecide, PassesGuards
  <2> QED BY <1>8, <2>1, RearmKeeps DEF DecideAcceptFix, Rearm, evidence
<1>9. CASE DecideGuide
  <2>1. turn = "idle" /\ Started(row) BY <1>9, GuardIdle DEF DecideGuide, CanDecide
  <2> QED BY <1>9, <2>1, RouteFixKeeps DEF DecideGuide
<1>10. CASE VerdictPass
  <2>1. turn = "idle" /\ chain = 0 BY <1>10, GuardIdle DEF VerdictPass
  <2>2. row' = SetStatus(row, "awaiting_manazer") /\ row.stage = "verifikacia"
    BY <1>10 DEF VerdictPass
  <2>3. RowOK(row') /\ row'.stage = "verifikacia" BY <1>0, <2>2, SetStatusOK
  <2> QED BY <1>10, <2>1, <2>3, IdleKeeps DEF VerdictPass, GateInv
<1>11. CASE VerdictFail
  <2>1. turn = "idle" /\ chain = 0 /\ Started(row) BY <1>11, GuardIdle DEF VerdictFail
  <2>2. row.stage = "verifikacia" /\ flow' = flow BY <1>11 DEF VerdictFail
  <2>3. "decision_needed" \in BlockReasons BY DEF BlockReasons
  <2>4. CASE LoopIsSpent
    <3>1. Settle(Block(row, "decision_needed")) /\ iteration' = iteration
      BY <1>11, <2>4 DEF VerdictFail, SettleFailExhausted
    <3>2. RowOK(row') /\ row'.stage = "verifikacia" BY <1>0, <2>2, <2>3, <3>1, BlockOK DEF Settle
    <3> QED BY <2>2, <3>1, <3>2, IdleKeeps DEF Settle, GateInv
  <2>5. CASE ~LoopIsSpent
    <3> DEFINE r == [row EXCEPT !.stage = "programovanie", !.actor = "ai_agent"]
    <3>1. RowOK(r) /\ r.stage = "programovanie" BY <1>0, <2>1, MoveOK DEF Stages
    <3>2. row' = BeginDispatch(r) \/ row' = Block(r, "decision_needed")
      BY <1>11, <2>5 DEF VerdictFail
    <3>3. iteration' = iteration + 1 /\ turn' = turn /\ chain' = chain
      BY <1>11, <2>5 DEF VerdictFail
    <3> HIDE DEF r
    <3>4. RowOK(row') /\ row'.stage = "programovanie"
      BY <2>3, <3>1, <3>2, BlockOK, BeginDispatchOK DEF RowOK
    <3> QED BY <2>1, <2>2, <3>3, <3>4, IdleKeeps DEF GateInv
  <2> QED BY <2>4, <2>5
<1>12. CASE Pokracovat
  <2>1. Started(row) BY <1>12 DEF Pokracovat, PassesGuards
  <2> QED BY <1>12, <2>1, RearmKeeps DEF Pokracovat, Rearm, evidence
<1>13. CASE Pause
  <2>1. row.status = "agent_working" /\ row.stage = "programovanie"
    BY <1>13 DEF Pause, PassesGuards
  <2>2. row' = SetStatus(row, "paused") /\ UNCHANGED <<flow, iteration, judged, turn, chain>>
    BY <1>13 DEF Pause, evidence
  <2>3. RowOK(row') /\ row'.stage = "programovanie" /\ row'.status = "paused"
    BY <1>0, <2>1, <2>2, SetStatusOK
  <2>4. Owned' BY <2>1, <2>2, <2>3 DEF GateInv, Owned, Home, Turns
  <2>5. Budgeted' BY <2>1, <2>2, <2>3 DEF GateInv, Budgeted, RoundsLeft
  <2> QED BY <2>2, <2>3, <2>4, <2>5 DEF GateInv, NeverTrips, DoneIsVerified
<1> QED BY <1>1, <1>2, <1>3, <1>4, <1>5, <1>6, <1>7, <1>8, <1>9, <1>10, <1>11, <1>12, <1>13
        DEF Manager

-----------------------------------------------------------------------------
(* The dispatch *)

\* What a step of the engine does: the invariant holds again, and no new_version
\* is taken to a later phase.
Held == GateInv' /\ (flow = "new_version" => row'.stage \in {row.stage, "programovanie"})
        /\ (row'.stage # row.stage /\ flow = "new_version" => row.stage = "verifikacia")

\* A dispatch ends on a row of its phase.
LEMMA RestHolds ==
  ASSUME GateInv, NEW r, RowOK(r), r.stage = row.stage, turn' = "idle", chain' = 0, row' = r,
         UNCHANGED <<flow, iteration>>, row.stage = "done" => judged' = judged
  PROVE  Held
<1>1. GateInv' BY IdleKeeps DEF GateInv, DoneIsVerified
<1> QED BY <1>1 DEF Held

\* A turn rests on a settled or blocked row.
LEMMA StopHolds ==
  ASSUME GateInv, turn \in DOMAIN Home, NEW r, Rest(r),
         r = row \/ r = SetStatus(row, "awaiting_manazer") \/ r = SetStatus(row, "paused")
           \/ \E reason \in BlockReasons : r = Block(row, reason)
  PROVE  Held
<1>1. RowOK(row) /\ row.stage # "done" BY DEF GateInv, Owned, Home, Turns
<1>2. RowOK(r) /\ r.stage = row.stage BY <1>1, SetStatusOK, BlockOK
<1> QED BY <1>2, RestHolds DEF Rest, Settle, evidence

LEMMA BoundaryHolds ==
  ASSUME GateInv, turn \in {"priprava", "review", "build", "settle"},
         row.status = "agent_working", Boundary, UNCHANGED <<flow, iteration, evidence>>
  PROVE  Held
  BY BoundaryKeeps DEF Held, evidence

\* The dispatch goes on inside its phase.
LEMMA GoHolds ==
  ASSUME GateInv, NEW from \in DOMAIN Home, turn = from, NEW point \in DOMAIN Home, Goes(point),
         Home[point] = Home[from], from \in {"build", "task"} => point \in {"build", "task"},
         UNCHANGED iteration
  PROVE  Held
<1>1. GateInv' BY InsideKeeps DEF Goes
<1> QED BY <1>1 DEF Held, Goes

\* A FAIL is settled (_settle_verifikacia_verdict).
LEMMA FailHolds ==
  ASSUME GateInv, turn = "settle", SettleFailed
  PROVE  Held
<1> USE PhaseAssumption DEF PhaseAssumption
<1>0. /\ RowOK(row) /\ row.stage = "verifikacia" /\ row.status = "agent_working" /\ Started(row)
      /\ "decision_needed" \in BlockReasons /\ iteration \in Nat
  BY DEF GateInv, Owned, Home, Turns, Started, BlockReasons
<1>1. flow' = flow /\ judged' = judged BY DEF SettleFailed, evidence
<1>2. CASE LoopIsSpent
  <2>1. Settle(Block(row, "decision_needed")) /\ iteration' = iteration
    BY <1>2 DEF SettleFailed, SettleFailExhausted
  <2>2. RowOK(row') /\ row'.stage = row.stage BY <1>0, <2>1, BlockOK DEF Settle
  <2> QED BY <1>1, <2>1, <2>2, RestHolds DEF Settle
<1>3. CASE ~LoopIsSpent
  <2> DEFINE r == [row EXCEPT !.stage = "programovanie", !.actor = "ai_agent"]
  <2>1. RowOK(r) /\ r.stage = "programovanie" BY <1>0, MoveOK DEF Stages
  <2>2. iteration' = iteration + 1 BY <1>3 DEF SettleFailed, SettleFail
  <2>3. CASE flow = "fast_fix"
    <3>1. PICK ts : Chain(BeginDispatch(r), ts) BY <1>3, <2>3 DEF SettleFailed, SettleFail
    <3> DEFINE armed == BeginDispatch(r)
    <3> HIDE DEF r
    <3>2. RowOK(armed) /\ armed.stage = "programovanie" /\ armed.status = "agent_working"
      BY <2>1, BeginDispatchOK DEF RowOK
    <3>3. Chain(armed, ts) BY <3>1
    <3> HIDE DEF armed
    <3>4. 1 + RoundsLeft' + Ahead(armed.stage) <= RoundsLeft + Ahead(row.stage)
      BY <1>0, <1>3, <2>2, <3>2 DEF RoundsLeft, Ahead, LoopIsSpent
    <3>5. GateInv' BY <1>0, <1>1, <2>2, <2>3, <3>2, <3>3, <3>4, ChainKeeps DEF Stages
    <3> QED BY <2>3, <3>5 DEF Held
  <2>4. CASE flow # "fast_fix"
    <3>1. Settle(Block(r, "decision_needed")) BY <1>3, <2>4 DEF SettleFailed, SettleFail
    <3> HIDE DEF r
    <3>2. RowOK(row') /\ row'.stage = "programovanie" BY <1>0, <2>1, <3>1, BlockOK DEF Settle
    <3>3. GateInv' BY <1>0, <1>1, <2>2, <3>1, <3>2, IdleKeeps DEF Settle, GateInv
    <3> QED BY <1>0, <3>2, <3>3 DEF Held
  <2> QED BY <2>3, <2>4
<1> QED BY <1>2, <1>3

\* The dispatch is picked up with a full budget.
LEMMA PickUpHolds == ASSUME GateInv, StartTurn PROVE Held
<1> USE PhaseAssumption DEF PhaseAssumption
<1>1. row.stage \in Stages \ {"done"} /\ Enter(row.stage, tasks)
  BY DEF StartTurn, GateInv, RowOK, Rows
<1>2. turn' \in DOMAIN Home /\ Home[turn'] = row.stage BY <1>1, EnterHome
<1>3. UNCHANGED <<row, flow, iteration, judged>> /\ chain' = 0 /\ row.status = "agent_working"
  BY DEF StartTurn, evidence
<1>4. Owned' BY <1>2, <1>3 DEF Owned
<1>5. iteration \in Nat BY DEF GateInv
<1>6. RoundsLeft' \in Nat /\ RoundsLeft' <= 2 * AUDITOR_LOOP_MAX BY <1>3, <1>5 DEF RoundsLeft
<1>7. Ahead(row.stage) \in 0..2 BY DEF Ahead
<1>8. chain' + RoundsLeft' + Ahead(row'.stage) <= 2 * AUDITOR_LOOP_MAX + 2
  BY <1>3, <1>6, <1>7
<1>9. turn' \in Turns /\ turn' # "tripped" BY <1>2 DEF Home
<1>10. Budgeted' BY <1>3, <1>8 DEF Budgeted
<1> QED BY <1>3, <1>4, <1>9, <1>10 DEF GateInv, NeverTrips, DoneIsVerified, Held

LEMMA EngineHolds == ASSUME GateInv, Engine PROVE Held
<1> USE DEF BlockReasons
<1>0. /\ turn \in DOMAIN Home => row.stage # "done"
      /\ turn \in DOMAIN Home \ {"build", "task"} => row.status = "agent_working"
  BY DEF GateInv, Owned, Home, Turns
<1>1. CASE StartTurn BY <1>1, PickUpHolds
<1>2. CASE PripravaStops
  <2>1. turn \in DOMAIN Home BY <1>2 DEF PripravaStops, Home, Turns
  <2> QED BY <1>2, <2>1, StopHolds DEF PripravaStops, ParseExhausted, FrameworkIssue
<1>3. CASE PripravaDone
  <2>1. turn \in DOMAIN Home \ {"build", "task"} BY <1>3 DEF PripravaDone, Home, Turns
  <2> QED BY <1>0, <1>3, <2>1, StopHolds, BoundaryHolds DEF PripravaDone
<1>4. CASE NavrhStops
  <2>1. turn \in DOMAIN Home BY <1>4 DEF NavrhStops, Home, Turns
  <2> QED BY <1>4, <2>1, StopHolds DEF NavrhStops, ParseExhausted
<1>5. CASE NavrhDesigned
  <2>1. turn = "navrh" /\ turn \in DOMAIN Home /\ "plan" \in DOMAIN Home /\ Home["plan"] = Home["navrh"]
    BY <1>5 DEF NavrhDesigned, Home, Turns
  <2> QED BY <1>5, <2>1, StopHolds, GoHolds DEF NavrhDesigned
<1>6. CASE PlanStops
  <2>1. turn \in DOMAIN Home BY <1>6 DEF PlanStops, Home, Turns
  <2> QED BY <1>6, <2>1, StopHolds DEF PlanStops, ParseExhausted
<1>7. CASE PlanWritten
  <2>1. turn = "plan" /\ turn \in DOMAIN Home /\ "review" \in DOMAIN Home /\ Home["review"] = Home["plan"]
    BY <1>7 DEF PlanWritten, Home, Turns
  <2> QED BY <1>7, <2>1, GoHolds DEF PlanWritten
<1>8. CASE ReviewClean
  <2>1. turn \in DOMAIN Home \ {"build", "task"} BY <1>8 DEF ReviewClean, Home, Turns
  <2> QED BY <1>0, <1>8, <2>1, BoundaryHolds DEF ReviewClean
<1>9. CASE ReviewFindsHole
  <2>1. turn = "review" /\ turn \in DOMAIN Home /\ "consult" \in DOMAIN Home /\ Home["consult"] = Home["review"]
    BY <1>9 DEF ReviewFindsHole, Home, Turns
  <2> QED BY <1>9, <2>1, GoHolds DEF ReviewFindsHole
<1>10. CASE ConsultCard
  <2>1. turn \in DOMAIN Home BY <1>10 DEF ConsultCard, Home, Turns
  <2>2. RowOK(Block(row, "decision_needed")) /\ Block(row, "decision_needed").stage = row.stage
    BY <1>0, <2>1, BlockOK DEF GateInv
  <2> QED BY <1>10, <2>2, RestHolds DEF ConsultCard, Settle, evidence
<1>11. CASE ConsultFallsBack
  <2>1. turn \in DOMAIN Home BY <1>11 DEF ConsultFallsBack, Home, Turns
  <2> QED BY <1>11, <2>1, StopHolds DEF ConsultFallsBack
<1>12. CASE BuildRests
  <2>1. turn \in DOMAIN Home BY <1>12 DEF BuildRests, Home, Turns
  <2> QED BY <1>12, <2>1, StopHolds DEF BuildRests
<1>13. CASE BuildCompletes BY <1>13, BoundaryHolds DEF BuildCompletes
<1>14. CASE BuildPicksTask
  <2>1. turn = "build" /\ turn \in DOMAIN Home /\ "task" \in DOMAIN Home /\ Home["task"] = Home["build"]
    BY <1>14 DEF BuildPicksTask, Home, Turns
  <2> QED BY <1>14, <2>1, GoHolds DEF BuildPicksTask
<1>15. CASE TaskDone
  <2>1. turn = "task" /\ turn \in DOMAIN Home /\ "build" \in DOMAIN Home /\ Home["task"] = Home["build"]
    BY <1>15 DEF TaskDone, Home, Turns
  <2> QED BY <1>15, <2>1, GoHolds DEF TaskDone
<1>16. CASE TaskFails
  <2>1. turn \in DOMAIN Home BY <1>16 DEF TaskFails, Home, Turns
  <2>2. RowOK(SetStatus(row, "awaiting_manazer"))
        /\ SetStatus(row, "awaiting_manazer").stage = row.stage
    BY <1>0, <2>1, SetStatusOK DEF GateInv
  <2> QED BY <1>16, <2>2, RestHolds DEF TaskFails, Settle, evidence
<1>17. CASE TaskStops
  <2>1. turn \in DOMAIN Home BY <1>17 DEF TaskStops, Home, Turns
  <2> QED BY <1>17, <2>1, StopHolds DEF TaskStops
<1>18. CASE Smoke \/ BootVerdict \/ Acceptance \/ AuditorAnswers \/ VerdictRecorded \/ Critic
  <2> DEFINE Floor == {"smoke", "boot_verdict", "acceptance", "audit", "verdict", "no_verdict", "critic",
                       "settle"}
  <2>1. turn \in Floor /\ \E point \in Floor : Goes(point)
    BY <1>18 DEF Smoke, BootVerdict, Acceptance, AuditorAnswers, VerdictRecorded, Critic
  <2>2. iteration' = iteration
    BY <1>18 DEF Smoke, BootVerdict, Acceptance, AuditorAnswers, VerdictRecorded, Critic
  <2>3. \A point \in Floor : point \in DOMAIN Home /\ Home[point] = "verifikacia"
                             /\ point \notin {"build", "task"}
    BY DEF Home, Turns
  <2> HIDE DEF Floor
  <2> QED BY <2>1, <2>2, <2>3, GoHolds
<1>19. CASE AuditorUnreadable
  <2>1. turn \in DOMAIN Home BY <1>19 DEF AuditorUnreadable, Home, Turns
  <2> QED BY <1>19, <2>1, StopHolds DEF AuditorUnreadable
<1>20. CASE SettlePass
  <2>1. turn \in DOMAIN Home \ {"build", "task"} BY <1>20 DEF SettlePass, Home, Turns
  <2> QED BY <1>0, <1>20, <2>1, BoundaryHolds DEF SettlePass
<1>21. CASE SettleFailed BY <1>21, FailHolds DEF SettleFailed
<1> QED BY <1>1, <1>2, <1>3, <1>4, <1>5, <1>6, <1>7, <1>8, <1>9, <1>10, <1>11, <1>12, <1>13, <1>14,
           <1>15, <1>16, <1>17, <1>18, <1>19, <1>20, <1>21 DEF Engine

\* An exception that escapes a turn, a restart and a foreign commit.
LEMMA EnvironmentHolds ==
  ASSUME GateInv, Crash \/ Restart \/ HeadMoves
  PROVE  Held
<1>1. CASE Crash
  <2>1. turn \in DOMAIN Home BY <1>1 DEF Crash, GateInv, NeverTrips, Home
  <2> QED BY <1>1, <2>1, StopHolds DEF Crash, BlockReasons
<1>2. CASE Restart
  <2> DEFINE r == IF row.status = "agent_working" THEN SetStatus(row, "awaiting_manazer") ELSE row
  <2>1. RowOK(r) /\ r.stage = row.stage BY SetStatusOK DEF GateInv, RowOK
  <2>2. Rest(r) BY <1>2 DEF Restart
  <2> HIDE DEF r
  <2> QED BY <2>1, <2>2, RestHolds DEF Rest, Settle, evidence
<1>3. CASE HeadMoves
  <2>1. UNCHANGED <<row, flow, iteration, judged, turn, chain>> BY <1>3 DEF HeadMoves, evidence
  <2>2. GateInv'
    BY <2>1 DEF GateInv, NeverTrips, Owned, Budgeted, RoundsLeft, DoneIsVerified
  <2> QED BY <2>1, <2>2 DEF Held
<1> QED BY <1>1, <1>2, <1>3

LEMMA GateNext == GateInv /\ [Next]_vars => GateInv'
<1>1. ASSUME GateInv, UNCHANGED vars PROVE GateInv'
  <2>1. UNCHANGED <<row, flow, iteration, judged, turn, chain>> BY <1>1 DEF vars, evidence
  <2> QED BY <1>1, <2>1 DEF GateInv, NeverTrips, Owned, Budgeted, RoundsLeft, DoneIsVerified
<1> QED BY <1>1, ManagerKeeps, EngineHolds, EnvironmentHolds DEF Next, Held

-----------------------------------------------------------------------------
(* Theorems *)

\* The inductive invariant, for every value of the constants.
THEOREM Phased == Spec => []GateInv
  BY GateInit, GateNext, PTL DEF Spec

\* No version is finished without a canonical PASS (no-silent-done of schvalit and
\* of the automatic sign-off of a fast_fix).
THEOREM DoneStaysVerified == Spec => []DoneIsVerified
<1>1. GateInv => DoneIsVerified BY DEF GateInv
<1> QED BY <1>1, Phased, PTL

\* The backstop of the runner is out of reach, whatever AUDITOR_LOOP_MAX is
\* (auto_chain_limit of pipeline_runner): no version is left working by it.
THEOREM ChainFits == Spec => []NeverTrips
<1>1. GateInv => NeverTrips BY DEF GateInv
<1> QED BY <1>1, Phased, PTL

LEMMA Places ==
  /\ Place("priprava") = 1 /\ Place("navrh") = 2 /\ Place("programovanie") = 3
  /\ Place("verifikacia") = 4 /\ Place("done") = 5
<1> DEFINE P(i) == STAGE_ORDER[i]
<1>1. /\ P(1) = "priprava" /\ P(2) = "navrh" /\ P(3) = "programovanie"
      /\ P(4) = "verifikacia" /\ P(5) = "done"
  BY DEF STAGE_ORDER
<1>2. \A i \in 1..5 : i = 1 \/ i = 2 \/ i = 3 \/ i = 4 \/ i = 5 OBVIOUS
<1> HIDE DEF P
<1>3. ASSUME NEW k \in 1..5 PROVE Place(P(k)) = k
  <2>1. \A i \in 1..5 : P(i) = P(k) => i = k BY <1>1, <1>2
  <2>2. Place(P(k)) = CHOOSE i \in 1..5 : P(i) = P(k) BY DEF Place, P
  <2> QED BY <2>1, <2>2
<1> QED BY <1>1, <1>3

\* Whatever the dial, only an act of the Manager takes a new_version to a later
\* phase (the mandatory gates of _settle_phase_boundary).
THEOREM OnlyTheManagerAdvances == Spec => PhaseGate
<1>1. ASSUME GateInv, [Next]_vars, flow = "new_version", Place(row'.stage) > Place(row.stage)
      PROVE  Manager
  <2>1. CASE UNCHANGED vars
    <3>1. row' = row BY <2>1 DEF vars
    <3>2. row.stage \in Stages BY <1>1 DEF GateInv, RowOK, Rows
    <3> QED BY <1>1, <3>1, <3>2, Places DEF Stages
  <2>2. CASE Engine \/ Crash \/ Restart \/ HeadMoves
    <3>1. /\ row'.stage \in {row.stage, "programovanie"}
          /\ row'.stage # row.stage => row.stage = "verifikacia"
      BY <1>1, <2>2, EngineHolds, EnvironmentHolds DEF Held
    <3>2. row.stage \in Stages BY <1>1 DEF GateInv, RowOK, Rows
    <3> QED BY <1>1, <3>1, <3>2, Places DEF Stages
  <2> QED BY <1>1, <2>1, <2>2 DEF Next
<1>2. GateInv /\ [Next]_vars =>
        [flow = "new_version" /\ Place(row'.stage) > Place(row.stage) => Manager]_vars
  BY <1>1
<1> QED BY <1>2, Phased, PTL DEF Spec, PhaseGate

-----------------------------------------------------------------------------
(* The plan and the fixes *)

\* The plan comes first and whole, the fixes behind it, and none of them is done.
Planned(ts) ==
  /\ ts \in Seq(Tasks) /\ Len(ts) <= PlanSize + FixCap
  /\ \A i \in DOMAIN ts : ts[i].brief = "plan" =>
       i <= PlanSize /\ \A j \in 1..i : ts[j].brief = "plan"
  /\ \A i \in DOMAIN ts : ts[i].status = "done" => ts[i].brief = "plan"

\* A version under judgement has room for the fix of a FAIL.
TasksInv ==
  /\ Planned(tasks)
  /\ row.stage = "verifikacia" => HasRoom

\* Statuses change and nothing done is undone.
LEMMA StatusesKeep ==
  ASSUME NEW ts, Planned(ts), NEW us \in Seq(Tasks), Len(us) = Len(ts),
         \A i \in 1..Len(ts) :
           /\ us[i].brief = ts[i].brief
           /\ ts[i].status = "done" => us[i].status = "done"
           /\ us[i].status = "done" => ts[i].status = "done" \/ ts[i].brief = "plan"
  PROVE  Planned(us) /\ PlanDone(ts) \subseteq PlanDone(us)
<1>1. DOMAIN ts = 1..Len(ts) /\ DOMAIN us = 1..Len(ts) /\ Len(ts) \in Nat BY DEF Planned
<1>2. Planned(us) BY <1>1 DEF Planned
<1> QED BY <1>1, <1>2 DEF PlanDone

\* The resets of a retry and of a pick-up put back nothing that is done.
LEMMA ResetsKeep ==
  ASSUME NEW ts, Planned(ts)
  PROVE  /\ Planned(ResetFailed(ts)) /\ PlanDone(ts) \subseteq PlanDone(ResetFailed(ts))
         /\ Planned(Reclaimed(ts)) /\ PlanDone(ts) \subseteq PlanDone(Reclaimed(ts))
         /\ Len(ResetFailed(ts)) = Len(ts) /\ Len(Reclaimed(ts)) = Len(ts)
<1>1. ts \in Seq(Tasks) /\ DOMAIN ts = 1..Len(ts) /\ Len(ts) \in Nat BY DEF Planned
<1>2. \A t \in Tasks : [t EXCEPT !.status = "todo"] \in Tasks /\ [t EXCEPT !.status = "todo"].brief = t.brief
  BY DEF Tasks
<1>3. /\ ResetFailed(ts) \in [1..Len(ts) -> Tasks]
      /\ Reclaimed(ts) \in [1..Len(ts) -> Tasks]
  BY <1>1, <1>2 DEF ResetFailed, Reclaimed
<1>4. /\ ResetFailed(ts) \in Seq(Tasks) /\ Len(ResetFailed(ts)) = Len(ts)
      /\ Reclaimed(ts) \in Seq(Tasks) /\ Len(Reclaimed(ts)) = Len(ts)
  BY <1>1, <1>3
<1>5. \A i \in 1..Len(ts) :
        /\ ResetFailed(ts)[i].brief = ts[i].brief /\ Reclaimed(ts)[i].brief = ts[i].brief
        /\ ts[i].status = "done" => ResetFailed(ts)[i] = ts[i] /\ Reclaimed(ts)[i] = ts[i]
        /\ ResetFailed(ts)[i].status = "done" => ts[i].status = "done"
        /\ Reclaimed(ts)[i].status = "done" => ts[i].status = "done"
  BY <1>1, <1>2 DEF ResetFailed, Reclaimed, Tasks
<1> QED BY <1>4, <1>5, StatusesKeep

\* One task is marked; only one of the plan is kept when it is done.
LEMMA MarkKeeps ==
  ASSUME Planned(tasks), NEW i \in DOMAIN tasks, tasks[i].status # "done",
         NEW s \in {"todo", "in_progress", "done", "failed"},
         s = "done" => tasks[i].brief = "plan", Mark(i, s)
  PROVE  Planned(tasks') /\ PlanDone(tasks) \subseteq PlanDone(tasks') /\ Len(tasks') = Len(tasks)
<1>1. /\ tasks \in Seq(Tasks) /\ DOMAIN tasks = 1..Len(tasks) /\ Len(tasks) \in Nat
      /\ tasks[i] \in Tasks
  BY DEF Planned
<1> DEFINE marked == [tasks[i] EXCEPT !.status = s]
<1>2. tasks' = [tasks EXCEPT ![i] = marked] BY DEF Mark
<1>3. marked \in Tasks /\ marked.brief = tasks[i].brief /\ marked.status = s
  BY <1>1 DEF Tasks
<1> HIDE DEF marked
<1>4. tasks' \in Seq(Tasks) /\ Len(tasks') = Len(tasks) BY <1>1, <1>2, <1>3
<1>5. \A j \in 1..Len(tasks) : tasks'[j] = IF j = i THEN marked ELSE tasks[j]
  BY <1>1, <1>2
<1> HIDE DEF Mark
<1> QED BY <1>1, <1>3, <1>4, <1>5, StatusesKeep

\* A fix that is done is forgotten; the plan keeps its places.
LEMMA WithoutKeeps ==
  ASSUME Planned(tasks), NEW i \in DOMAIN tasks, tasks[i].brief # "plan"
  PROVE  /\ Planned(Without(i)) /\ PlanDone(tasks) \subseteq PlanDone(Without(i))
         /\ Len(Without(i)) < Len(tasks)
<1> DEFINE us == Without(i)
<1>1. /\ tasks \in Seq(Tasks) /\ DOMAIN tasks = 1..Len(tasks) /\ Len(tasks) \in Nat
      /\ i \in 1..Len(tasks) /\ Len(tasks) - 1 \in Nat
  BY DEF Planned
<1>2. us \in [1..(Len(tasks) - 1) -> Tasks] BY <1>1 DEF Without
<1>3. us \in Seq(Tasks) /\ Len(us) = Len(tasks) - 1 /\ DOMAIN us = 1..(Len(tasks) - 1)
  <2>1. \A n \in Nat : us \in [1..n -> Tasks] => us \in Seq(Tasks) /\ Len(us) = n /\ DOMAIN us = 1..n
    OBVIOUS
  <2> QED BY <1>1, <1>2, <2>1
<1>4. \A j \in 1..(Len(tasks) - 1) : us[j] = tasks[IF j < i THEN j ELSE j + 1] BY DEF Without
<1>5. \A j \in 1..Len(tasks) : tasks[j].brief = "plan" => j < i
  BY <1>1 DEF Planned
<1> HIDE DEF us
<1>6. \A j \in DOMAIN us : us[j].brief = "plan" => j < i /\ us[j] = tasks[j]
  BY <1>1, <1>3, <1>4, <1>5
<1>7. \A j \in 1..Len(tasks) : tasks[j].brief = "plan" => j \in DOMAIN us /\ us[j] = tasks[j]
  BY <1>1, <1>3, <1>4, <1>5
<1>8. \A j \in DOMAIN us : us[j].status = "done" => us[j].brief = "plan"
  BY <1>1, <1>3, <1>4 DEF Planned
<1>9. \A j \in DOMAIN us : us[j].brief = "plan" =>
        j <= PlanSize /\ \A k \in 1..j : us[k].brief = "plan"
  BY <1>1, <1>3, <1>6, <1>7 DEF Planned
<1>10. Len(us) <= PlanSize + FixCap BY <1>1, <1>3, PhaseAssumption DEF Planned, PhaseAssumption
<1>11. Planned(us) BY <1>3, <1>8, <1>9, <1>10 DEF Planned
<1>12. PlanDone(tasks) \subseteq PlanDone(us) BY <1>1, <1>7 DEF PlanDone
<1> QED BY <1>1, <1>3, <1>11, <1>12 DEF us

\* A fix is put behind all others.
LEMMA FixKeeps ==
  ASSUME Planned(tasks), HasRoom, NEW brief \in Briefs \ {"plan"}
  PROVE  /\ Planned(WithFix(brief)) /\ PlanDone(tasks) \subseteq PlanDone(WithFix(brief))
         /\ \E i \in DOMAIN WithFix(brief) : WithFix(brief)[i].brief = brief
<1> DEFINE t == [status |-> "todo", brief |-> brief]
           us == WithFix(brief)
           n == Len(tasks) + 1
<1>1. /\ tasks \in Seq(Tasks) /\ DOMAIN tasks = 1..Len(tasks) /\ Len(tasks) \in Nat /\ t \in Tasks
  BY DEF Planned, Tasks
<1>2. us = Append(tasks, t) BY DEF WithFix
<1>3. /\ us \in Seq(Tasks) /\ Len(us) = n /\ DOMAIN us = 1..n
      /\ us[n] = t /\ \A j \in 1..Len(tasks) : us[j] = tasks[j]
  BY <1>1, <1>2
<1> HIDE DEF us
<1>4. \A j \in DOMAIN us : us[j].brief = "plan" => j \in 1..Len(tasks) /\ us[j] = tasks[j]
  BY <1>1, <1>3
<1>5. \A j \in DOMAIN us : us[j].status = "done" => us[j].brief = "plan"
  BY <1>1, <1>3 DEF Planned
<1>6. \A j \in DOMAIN us : us[j].brief = "plan" =>
        j <= PlanSize /\ \A k \in 1..j : us[k].brief = "plan"
  BY <1>1, <1>3, <1>4 DEF Planned
<1>7. Len(us) <= PlanSize + FixCap BY <1>1, <1>3, PhaseAssumption DEF HasRoom, PhaseAssumption
<1>8. Planned(us) BY <1>3, <1>5, <1>6, <1>7 DEF Planned
<1>9. PlanDone(tasks) \subseteq PlanDone(us) BY <1>1, <1>3 DEF PlanDone
<1>10. n \in DOMAIN us /\ us[n].brief = brief BY <1>1, <1>3
<1> QED BY <1>8, <1>9, <1>10 DEF us

\* The dispatch enters a round: only the loop over the tasks touches them.
LEMMA EnterKeeps ==
  ASSUME NEW s, NEW ts, Planned(ts), Enter(s, ts)
  PROVE  /\ Planned(tasks') /\ PlanDone(ts) \subseteq PlanDone(tasks')
         /\ s = "verifikacia" => tasks' = ts
<1> USE PhaseAssumption DEF PhaseAssumption
<1>1. CASE s = "programovanie" /\ flow = "fast_fix" /\ ts = <<>>
  <2> DEFINE t == [status |-> "todo", brief |-> "plan"]
  <2>1. t \in Tasks /\ t.status = "todo" /\ t.brief = "plan" BY DEF Tasks, Briefs
  <2>2. tasks' = <<t>> BY <1>1 DEF Enter
  <2> HIDE DEF t
  <2>3. /\ <<t>> \in Seq(Tasks) /\ Len(<<t>>) = 1 /\ DOMAIN <<t>> = 1..1 /\ <<t>>[1] = t
    BY <2>1
  <2>4. \A i \in 1..1 : i = 1 OBVIOUS
  <2>5. Planned(<<t>>) BY <2>1, <2>3, <2>4 DEF Planned
  <2>6. PlanDone(ts) = {} BY <1>1 DEF PlanDone
  <2> QED BY <1>1, <2>2, <2>5, <2>6
<1>2. CASE s = "programovanie" /\ ~(flow = "fast_fix" /\ ts = <<>>)
  <2>1. tasks' = Reclaimed(ts) BY <1>2 DEF Enter
  <2> QED BY <1>2, <2>1, ResetsKeep
<1>3. CASE s # "programovanie"
  <2>1. tasks' = ts BY <1>3 DEF Enter
  <2> QED BY <2>1
<1> QED BY <1>1, <1>2, <1>3

\* What the three ways to write the row do to its stage, status and reason.
LEMMA RowWritten ==
  ASSUME NEW r \in Rows
  PROVE  /\ BeginDispatch(r).stage = r.stage
         /\ r.stage # "done" => BeginDispatch(r).status = "agent_working"
         /\ \A v \in Statuses : SetStatus(r, v).stage = r.stage /\ SetStatus(r, v).status = v
         /\ \A reason : /\ Block(r, reason).stage = r.stage /\ Block(r, reason).status = "blocked"
                        /\ Block(r, reason).block_reason = reason
  BY DEF Rows, BeginDispatch, Block, SetStatus, ClearBlockReasonOnUnblock, ClearDispatchOnSettle

\* What a step does to the tasks.
TasksStep ==
  /\ TasksInv'
  /\ row.stage # "navrh" => PlanDone(tasks) \subseteq PlanDone(tasks')

\* The tasks stay, and the version is judged only with room for a fix.
LEMMA TasksStay ==
  ASSUME TasksInv, tasks' = tasks, row'.stage = "verifikacia" => row.stage = "verifikacia" \/ HasRoom
  PROVE  TasksStep
  BY DEF TasksStep, TasksInv, Planned, HasRoom, PlanDone

\* The tasks of a version that is not at verifikacia afterwards.
LEMMA TasksMove ==
  ASSUME Planned(tasks'), PlanDone(tasks) \subseteq PlanDone(tasks'), row'.stage # "verifikacia"
  PROVE  TasksStep
  BY DEF TasksStep, TasksInv

\* A correction goes back to programovanie with one more fix.
LEMMA RouteFixTasks ==
  ASSUME GateInv, TasksInv, Started(row), RouteFix PROVE TasksStep
<1> DEFINE r == [row EXCEPT !.stage = "programovanie", !.actor = "ai_agent"]
<1>1. RowOK(r) /\ r.stage = "programovanie" BY MoveOK DEF GateInv, Stages
<1>2. row' = BeginDispatch(r) \/ row' = SetStatus(r, "paused") BY DEF RouteFix
<1> HIDE DEF r
<1>3. row'.stage = "programovanie" BY <1>1, <1>2, RowWritten DEF RowOK, Statuses
<1>4. HasRoom /\ tasks' = WithFix("manager") BY DEF RouteFix
<1> QED BY <1>3, <1>4, FixKeeps, TasksMove DEF TasksInv, Briefs

LEMMA ManagerTasks == ASSUME GateInv, TasksInv, Manager PROVE TasksStep
<1>0. RowOK(row) /\ row \in Rows BY DEF GateInv, RowOK
<1>1. ASSUME NEW f \in Flows, Start(f) PROVE TasksStep
  <2>1. NewRow \in Rows /\ NewRow.stage = "priprava"
    BY DEF NewRow, NoRow, Rows, Stages, Actors, Statuses, NoReason
  <2>2. row'.stage = "priprava" /\ tasks' = tasks BY <1>1, <2>1, RowWritten DEF Start
  <2> QED BY <2>2, TasksStay
<1>2. CASE ApproveSpec
  <2>1. Started(row) BY <1>2 DEF ApproveSpec, PassesGuards
  <2> DEFINE s == NextStage("priprava", flow)
  <2>2. s \in Stages \ {"done"} /\ s # "verifikacia" BY DEF NextStage, Stages
  <2>3. row' = BeginDispatch([row EXCEPT !.stage = s]) /\ tasks' = tasks
    BY <1>2 DEF ApproveSpec, Rearm
  <2> HIDE DEF s
  <2>4. row'.stage = s BY <1>0, <2>1, <2>2, <2>3, ArmMovedOK
  <2> QED BY <2>2, <2>3, <2>4, TasksStay
<1>3. CASE Schvalit
  <2>1. Started(row) /\ tasks' = tasks BY <1>3 DEF Schvalit, PassesGuards
  <2>2. CASE row.stage = "verifikacia" BY <2>1, <2>2, TasksStay
  <2>3. CASE row.stage # "verifikacia"
    <3> DEFINE s == NextStage(row.stage, flow)
    <3>1. s \in Stages \ {"done"} /\ (s = "verifikacia" => HasRoom)
      BY <1>3, <2>3 DEF Schvalit, NextStage, Stages
    <3>2. row' = BeginDispatch([row EXCEPT !.stage = s]) BY <1>3, <2>3 DEF Schvalit
    <3> HIDE DEF s
    <3>3. row'.stage = s BY <1>0, <2>1, <3>1, <3>2, ArmMovedOK
    <3> QED BY <2>1, <3>1, <3>3, TasksStay
  <2> QED BY <2>2, <2>3
<1>4. CASE Uprav
  <2>1. Started(row) BY <1>4 DEF Uprav, PassesGuards
  <2>2. CASE RouteFix BY <2>1, <2>2, RouteFixTasks
  <2>3. CASE ~RouteFix
    <3>1. row' = BeginDispatch(row) /\ row.stage # "verifikacia"
      BY <1>4, <2>3 DEF Uprav, Rearm
    <3>2. row'.stage # "verifikacia" BY <1>0, <3>1, RowWritten
    <3>3. tasks' = ResetFailed(tasks) \/ tasks' = tasks BY <1>4, <2>3 DEF Uprav
    <3> QED BY <3>2, <3>3, ResetsKeep, TasksMove, TasksStay DEF TasksInv
  <2> QED BY <2>2, <2>3
<1>5. CASE OveritZnovu BY <1>5, TasksStay DEF OveritZnovu
<1>6. CASE AskOrAnswer \/ DecideAcceptFix
  <2>1. row' = BeginDispatch(row) /\ tasks' = tasks
    BY <1>6 DEF AskOrAnswer, DecideAcceptFix, Rearm
  <2> QED BY <1>0, <2>1, RowWritten, TasksStay
<1>7. CASE DecideUpfront
  <2>1. row' \in {row, BeginDispatch(row)} /\ tasks' = tasks BY <1>7 DEF DecideUpfront
  <2> QED BY <1>0, <2>1, RowWritten, TasksStay
<1>8. CASE DecideGuide
  <2>1. Started(row) /\ RouteFix BY <1>8 DEF DecideGuide, CanDecide, PassesGuards
  <2> QED BY <2>1, RouteFixTasks
<1>9. CASE VerdictPass BY <1>9, TasksStay DEF VerdictPass
<1>10. CASE VerdictFail
  <2>1. row.stage = "verifikacia" /\ HasRoom /\ Started(row)
    BY <1>10 DEF VerdictFail, TasksInv, PassesGuards
  <2>2. CASE LoopIsSpent BY <1>10, <2>1, <2>2, TasksStay DEF VerdictFail, SettleFailExhausted
  <2>3. CASE ~LoopIsSpent
    <3> DEFINE r == [row EXCEPT !.stage = "programovanie", !.actor = "ai_agent"]
    <3>1. RowOK(r) /\ r.stage = "programovanie" BY <1>0, <2>1, MoveOK DEF Stages
    <3>2. row' = BeginDispatch(r) \/ row' = Block(r, "decision_needed")
      BY <1>10, <2>3 DEF VerdictFail
    <3>3. tasks' = WithFix("auditor") BY <1>10, <2>3 DEF VerdictFail
    <3> HIDE DEF r
    <3>4. row'.stage = "programovanie" BY <3>1, <3>2, RowWritten DEF RowOK
    <3> QED BY <2>1, <3>3, <3>4, FixKeeps, TasksMove DEF TasksInv, Briefs
  <2> QED BY <2>2, <2>3
<1>11. CASE Pokracovat
  <2>1. row' = BeginDispatch(row) /\ row.stage = "programovanie" /\ tasks' = ResetFailed(tasks)
    BY <1>11 DEF Pokracovat, Rearm
  <2> QED BY <1>0, <2>1, RowWritten, ResetsKeep, TasksMove DEF TasksInv
<1>12. CASE Pause
  <2>1. row' = SetStatus(row, "paused") /\ tasks' = tasks BY <1>12 DEF Pause
  <2> QED BY <1>0, <2>1, RowWritten, TasksStay DEF Statuses
<1> QED BY <1>1, <1>2, <1>3, <1>4, <1>5, <1>6, <1>7, <1>8, <1>9, <1>10, <1>11, <1>12 DEF Manager

\* A phase boundary leaves the tasks to the loop that works on them.
LEMMA BoundaryTasks ==
  ASSUME GateInv, TasksInv, turn \in {"priprava", "review", "build", "settle"},
         row.status = "agent_working", Boundary,
         row.stage = "programovanie" => HasRoom
  PROVE  TasksStep
<1> DEFINE next == NextStage(row.stage, flow)
<1>0. /\ row.stage = Home[turn] /\ RowOK(row) /\ row.stage # "done" /\ Started(row) /\ row \in Rows
  BY DEF GateInv, Owned, Home, Turns, Started, RowOK
<1>1. CASE ~Continues(row.stage)
  <2>1. row' = SetStatus(row, "awaiting_manazer") /\ tasks' = tasks BY <1>1 DEF Boundary, Settle
  <2> QED BY <1>0, <2>1, RowWritten, TasksStay DEF Statuses
<1>2. CASE Continues(row.stage) /\ next = "done"
  <2>1. row' = Terminal /\ tasks' = tasks BY <1>2 DEF Boundary, Settle
  <2>2. row'.stage = "done" BY <1>0, <2>1, TerminalOK
  <2> QED BY <2>1, <2>2, TasksStay
<1>3. CASE Continues(row.stage) /\ next # "done"
  <2> DEFINE r == BeginDispatch([row EXCEPT !.stage = next])
  <2>1. Chain(r, tasks) BY <1>3 DEF Boundary
  <2>2. next \in Stages \ {"done"} /\ (next = "verifikacia" => row.stage = "programovanie")
    BY <1>0, <1>3 DEF NextStage, Stages, RowOK, Rows
  <2> HIDE DEF next
  <2>3. r.stage = next BY <1>0, <2>2, ArmMovedOK
  <2> HIDE DEF r
  <2>4. row' = r /\ (tasks' = tasks \/ Enter(r.stage, tasks)) BY <2>1 DEF Chain
  <2>5. CASE tasks' = tasks BY <1>0, <2>2, <2>3, <2>4, <2>5, TasksStay
  <2>6. CASE Enter(r.stage, tasks)
    <3>1. /\ Planned(tasks') /\ PlanDone(tasks) \subseteq PlanDone(tasks')
          /\ r.stage = "verifikacia" => tasks' = tasks
      BY <2>6, EnterKeeps DEF TasksInv
    <3> QED BY <2>2, <2>3, <2>4, <3>1, TasksStay, TasksMove
  <2> QED BY <2>4, <2>5, <2>6
<1> QED BY <1>1, <1>2, <1>3

\* A FAIL settled in the dispatch costs no task and adds one.
LEMMA FailTasks ==
  ASSUME GateInv, TasksInv, turn = "settle", SettleFailed PROVE TasksStep
<1>0. row.stage = "verifikacia" /\ HasRoom /\ RowOK(row) /\ Started(row)
  BY DEF GateInv, Owned, Home, Turns, Started, TasksInv
<1>1. CASE LoopIsSpent
  BY <1>0, <1>1, TasksStay DEF SettleFailed, SettleFailExhausted
<1>2. CASE ~LoopIsSpent
  <2> DEFINE r == [row EXCEPT !.stage = "programovanie", !.actor = "ai_agent"]
             brief == IF vetted THEN "vetted" ELSE "auditor"
             ts == WithFix(brief)
             armed == BeginDispatch(r)
             asked == Block(r, "decision_needed")
  <2>1. RowOK(r) /\ r.stage = "programovanie" BY <1>0, MoveOK DEF Stages
  <2>2. Chain(armed, ts) \/ (row' = asked /\ tasks' = ts)
    BY <1>2 DEF SettleFailed, SettleFail, Settle
  <2> HIDE DEF r
  <2>3. armed.stage = "programovanie" /\ asked.stage = "programovanie"
    BY <2>1, RowWritten DEF RowOK
  <2>4. brief \in Briefs \ {"plan"} BY DEF Briefs
  <2> HIDE DEF armed, asked, brief
  <2>5. Planned(ts) /\ PlanDone(tasks) \subseteq PlanDone(ts) BY <1>0, <2>4, FixKeeps DEF TasksInv
  <2> HIDE DEF ts
  <2>6. CASE Chain(armed, ts)
    <3>1. row' = armed /\ (tasks' = ts \/ Enter(armed.stage, ts)) BY <2>6 DEF Chain
    <3>2. Planned(tasks') /\ PlanDone(ts) \subseteq PlanDone(tasks')
      BY <2>5, <3>1, EnterKeeps
    <3> QED BY <2>3, <2>5, <3>1, <3>2, TasksMove
  <2> QED BY <2>2, <2>3, <2>5, <2>6, TasksMove
<1> QED BY <1>1, <1>2

LEMMA EngineTasks == ASSUME GateInv, TasksInv, Engine PROVE TasksStep
<1> USE PhaseAssumption DEF PhaseAssumption
<1>0. /\ row \in Rows
      /\ turn \in DOMAIN Home => row.stage = Home[turn]
      /\ tasks \in Seq(Tasks) /\ DOMAIN tasks = 1..Len(tasks) /\ Len(tasks) \in Nat
  BY DEF GateInv, RowOK, Owned, TasksInv, Planned
<1>1. CASE StartTurn
  <2>1. row' = row /\ Enter(row.stage, tasks) BY <1>1 DEF StartTurn
  <2>2. /\ Planned(tasks') /\ PlanDone(tasks) \subseteq PlanDone(tasks')
        /\ row.stage = "verifikacia" => tasks' = tasks
    BY <2>1, EnterKeeps DEF TasksInv
  <2> QED BY <2>1, <2>2, TasksStay, TasksMove
<1>2. ASSUME NEW r, Rest(r), r.stage = row.stage PROVE TasksStep
  <2>1. row' = r /\ tasks' = tasks BY <1>2 DEF Rest, Settle
  <2> QED BY <1>2, <2>1, TasksStay
<1>3. \A reason : /\ Block(row, reason).stage = row.stage
                  /\ SetStatus(row, "awaiting_manazer").stage = row.stage
                  /\ SetStatus(row, "paused").stage = row.stage
  BY <1>0, RowWritten DEF Statuses
<1>4. CASE PripravaStops \/ NavrhStops \/ PlanStops \/ ConsultFallsBack \/ BuildRests \/ TaskStops
           \/ AuditorUnreadable
  <2>1. \E r : Rest(r) /\ (r = row \/ r = SetStatus(row, "awaiting_manazer")
                           \/ r = SetStatus(row, "paused") \/ \E reason : r = Block(row, reason))
    BY <1>4 DEF PripravaStops, NavrhStops, PlanStops, ConsultFallsBack, BuildRests, TaskStops,
                AuditorUnreadable, ParseExhausted, FrameworkIssue
  <2>2. PICK r : Rest(r) /\ (r = row \/ r = SetStatus(row, "awaiting_manazer")
                           \/ r = SetStatus(row, "paused") \/ \E reason : r = Block(row, reason))
    BY <2>1
  <2>3. r.stage = row.stage BY <1>3, <2>2
  <2> QED BY <1>2, <2>2, <2>3
<1>5. CASE PripravaDone
  <2>1. turn = "priprava" BY <1>5 DEF PripravaDone
  <2>2. row.stage = "priprava" /\ row.status = "agent_working"
    BY <2>1 DEF GateInv, Owned, Home, Turns
  <2>3. CASE Boundary BY <2>1, <2>2, <2>3, BoundaryTasks
  <2>4. CASE Rest(Block(row, "agent_error")) BY <1>2, <1>3, <2>4
  <2> QED BY <1>5, <2>3, <2>4 DEF PripravaDone
<1>6. CASE NavrhDesigned
  <2>1. CASE Goes("plan") /\ tasks' = tasks BY <2>1, TasksStay DEF Goes
  <2>2. CASE Rest(Block(row, "agent_error")) BY <1>2, <1>3, <2>2
  <2> QED BY <1>6, <2>1, <2>2 DEF NavrhDesigned
<1>7. CASE PlanWritten
  <2>1. turn = "plan" /\ row' = row BY <1>7 DEF PlanWritten, Goes
  <2>2. row.stage = "navrh" BY <1>0, <2>1 DEF Home, Turns
  <2> DEFINE t == [status |-> "todo", brief |-> "plan"]
  <2>3. PICK n \in 1..PlanSize : tasks' = [i \in 1..n |-> t] BY <1>7 DEF PlanWritten
  <2>4. t \in Tasks /\ t.brief = "plan" BY DEF Tasks, Briefs
  <2> HIDE DEF t
  <2>5. n \in Nat /\ n <= PlanSize /\ n <= PlanSize + FixCap OBVIOUS
  <2>6. tasks' \in [1..n -> Tasks] /\ \A i \in 1..n : tasks'[i] = t BY <2>3, <2>4
  <2>7. tasks' \in Seq(Tasks) /\ Len(tasks') = n /\ DOMAIN tasks' = 1..n BY <2>5, <2>6
  <2>8. Planned(tasks')
    <3>1. \A i \in 1..n : tasks'[i].brief = "plan" /\ i <= PlanSize /\ \A j \in 1..i : j \in 1..n
      BY <2>4, <2>5, <2>6
    <3> QED BY <2>5, <2>7, <3>1 DEF Planned
  <2> QED BY <2>1, <2>2, <2>8 DEF TasksStep, TasksInv
<1>8. CASE ReviewClean
  <2>1. turn = "review" /\ Boundary BY <1>8 DEF ReviewClean
  <2>2. row.stage = "navrh" /\ row.status = "agent_working"
    BY <2>1 DEF GateInv, Owned, Home, Turns
  <2> QED BY <2>1, <2>2, BoundaryTasks
<1>9. CASE ReviewFindsHole \/ Smoke \/ BootVerdict \/ Acceptance \/ AuditorAnswers \/ VerdictRecorded \/ Critic
  <2>1. row' = row /\ tasks' = tasks
    BY <1>9 DEF ReviewFindsHole, Smoke, BootVerdict, Acceptance, AuditorAnswers, VerdictRecorded,
                Critic, Goes
  <2> QED BY <2>1, TasksStay
<1>10. CASE ConsultCard
  <2>1. row' = Block(row, "decision_needed") /\ tasks' = tasks BY <1>10 DEF ConsultCard, Settle
  <2> QED BY <1>3, <2>1, TasksStay
<1>11. CASE BuildCompletes
  <2>1. turn = "build" /\ row.status = "agent_working" /\ TodoOf(tasks) = {} /\ ~Open(tasks) /\ Boundary
    BY <1>11 DEF BuildCompletes
  <2>2. \A i \in DOMAIN tasks : tasks[i] \in Tasks BY <1>0
  <2>3. \A i \in DOMAIN tasks : tasks[i].status = "done" BY <2>1, <2>2 DEF TodoOf, Open, Tasks
  <2>4. \A i \in DOMAIN tasks : i <= PlanSize BY <2>3 DEF TasksInv, Planned
  <2>5. Len(tasks) <= PlanSize
    <3>1. CASE Len(tasks) = 0 BY <3>1
    <3>2. CASE Len(tasks) # 0
      <4>1. Len(tasks) \in DOMAIN tasks BY <1>0, <3>2
      <4> QED BY <2>4, <4>1
    <3> QED BY <3>1, <3>2
  <2>6. HasRoom BY <1>0, <2>5 DEF HasRoom
  <2> QED BY <2>1, <2>6, BoundaryTasks
<1>12. CASE BuildPicksTask
  <2>1. turn = "build" /\ row' = row BY <1>12 DEF BuildPicksTask, Goes
  <2>2. row.stage = "programovanie" BY <1>0, <2>1 DEF Home, Turns
  <2>3. PICK i \in TodoOf(tasks) : Mark(i, "in_progress") BY <1>12 DEF BuildPicksTask
  <2>4. i \in DOMAIN tasks /\ tasks[i].status # "done" BY <2>3 DEF TodoOf
  <2> QED BY <2>1, <2>2, <2>3, <2>4, MarkKeeps, TasksMove DEF TasksInv
<1>13. CASE TaskDone
  <2>1. turn = "task" /\ row' = row BY <1>13 DEF TaskDone, Goes
  <2>2. row.stage = "programovanie" BY <1>0, <2>1 DEF Home, Turns
  <2>3. PICK i \in Current : IF tasks[i].brief = "plan" THEN Mark(i, "done") ELSE tasks' = Without(i)
    BY <1>13 DEF TaskDone
  <2>4. i \in DOMAIN tasks /\ tasks[i].status # "done" BY <2>3 DEF Current
  <2>5. Planned(tasks') /\ PlanDone(tasks) \subseteq PlanDone(tasks')
    BY <2>3, <2>4, MarkKeeps, WithoutKeeps DEF TasksInv
  <2> QED BY <2>1, <2>2, <2>5, TasksMove
<1>14. CASE TaskFails
  <2>1. turn = "task" /\ row' = SetStatus(row, "awaiting_manazer") BY <1>14 DEF TaskFails, Settle
  <2>2. row.stage = "programovanie" BY <1>0, <2>1 DEF Home, Turns
  <2>3. PICK i \in Current : Mark(i, "failed") BY <1>14 DEF TaskFails
  <2>4. i \in DOMAIN tasks /\ tasks[i].status # "done" BY <2>3 DEF Current
  <2>5. Planned(tasks') /\ PlanDone(tasks) \subseteq PlanDone(tasks') BY <2>3, <2>4, MarkKeeps DEF TasksInv
  <2> QED BY <1>3, <2>1, <2>2, <2>5, TasksMove
<1>15. CASE SettlePass
  <2>1. turn = "settle" /\ Boundary BY <1>15 DEF SettlePass
  <2>2. row.stage = "verifikacia" /\ row.status = "agent_working"
    BY <2>1 DEF GateInv, Owned, Home, Turns
  <2> QED BY <2>1, <2>2, BoundaryTasks
<1>16. CASE SettleFailed BY <1>16, FailTasks DEF SettleFailed
<1> QED BY <1>1, <1>4, <1>5, <1>6, <1>7, <1>8, <1>9, <1>10, <1>11, <1>12, <1>13, <1>14, <1>15, <1>16
        DEF Engine

LEMMA TasksNext == GateInv /\ TasksInv /\ [Next]_vars => TasksStep
<1> SUFFICES ASSUME GateInv, TasksInv, [Next]_vars PROVE TasksStep OBVIOUS
<1>1. CASE UNCHANGED vars BY <1>1, TasksStay DEF vars
<1>2. CASE Crash \/ Restart
  <2>1. row \in Rows BY DEF GateInv, RowOK
  <2>2. row'.stage = row.stage /\ tasks' = tasks
    BY <1>2, <2>1, RowWritten DEF Crash, Restart, Rest, Settle, Statuses
  <2> QED BY <2>2, TasksStay
<1>3. CASE HeadMoves BY <1>3, TasksStay DEF HeadMoves
<1> QED BY <1>1, <1>2, <1>3, ManagerTasks, EngineTasks DEF Next

-----------------------------------------------------------------------------
(* The cards and the evidence *)

AsksDecision(r) == r.status = "blocked" /\ r.block_reason = "decision_needed"

\* What the Auditor, the critic and the boots left stays in its domain, and so do
\* the rounds counted.
EvidenceOK ==
  /\ judged \in Judgements /\ sha \in Commits \cup {NoSha} /\ vetted \in BOOLEAN
  /\ smoke \in {"none", "green", "red"} /\ acceptance \in {"none", "green", "red"}
  /\ card \in Cards /\ consults \in 0..AUDITOR_LOOP_MAX
  /\ iteration \in 0..(2 * AUDITOR_LOOP_MAX) /\ head \in Commits

CardInv == EvidenceOK /\ CardFits

\* A dispatch at work asks for no decision, before a step and after.
LEMMA WorkAsksNothing ==
  /\ GateInv /\ turn # "idle" => ~AsksDecision(row)
  /\ GateInv' /\ turn' # "idle" => ~AsksDecision(row')
<1>1. GateInv /\ turn # "idle" => ~AsksDecision(row)
  BY DEF GateInv, NeverTrips, Owned, Home, AsksDecision
<1>2. GateInv' /\ turn' # "idle" => ~AsksDecision(row')
  BY DEF GateInv, NeverTrips, Owned, Home, AsksDecision
<1> QED BY <1>1, <1>2

\* A row armed or settled asks for no decision.
LEMMA WrittenAsksNothing ==
  ASSUME NEW r \in Rows
  PROVE  /\ r.stage # "done" => ~AsksDecision(BeginDispatch(r))
         /\ \A v \in Statuses \ {"blocked"} : ~AsksDecision(SetStatus(r, v))
         /\ \A reason \in BlockReasons \ {"decision_needed"} : ~AsksDecision(Block(r, reason))
  BY RowWritten DEF AsksDecision

\* Hotovo asks for none either.
LEMMA TerminalAsksNothing == ASSUME row \in Rows PROVE ~AsksDecision(Terminal)
<1>1. [row EXCEPT !.stage = "done", !.actor = "ai_agent"] \in Rows BY DEF Rows, Stages, Actors
<1>2. "done" \in Statuses BY DEF Statuses
<1> QED BY <1>1, <1>2, WrittenAsksNothing DEF Terminal

\* The Auditor's card of a FAIL, in both forms.
LEMMA CardsTyped ==
  /\ \A offer \in BOOLEAN : FixConsultation(offer) \in Cards
  /\ [source |-> "verifikacia_fail", left |-> 1, vetted |-> FALSE] \in Cards
  /\ \A n \in 1..2 : [source |-> "auditor_upfront", left |-> n, vetted |-> FALSE] \in Cards
  /\ \A n \in 0..AUDITOR_LOOP_MAX : Saturated(n) \in 0..AUDITOR_LOOP_MAX
<1>1. \A n \in 0..AUDITOR_LOOP_MAX : Saturated(n) \in 0..AUDITOR_LOOP_MAX
  BY PhaseAssumption DEF PhaseAssumption, Saturated
<1>2. /\ \A offer \in BOOLEAN : FixConsultation(offer) \in Cards
      /\ [source |-> "verifikacia_fail", left |-> 1, vetted |-> FALSE] \in Cards
      /\ \A n \in 1..2 : [source |-> "auditor_upfront", left |-> n, vetted |-> FALSE] \in Cards
  BY DEF FixConsultation, Cards
<1> QED BY <1>1, <1>2

\* A verdict: PASS with the commit it is for, or FAIL.
LEMMA VerdictTyped ==
  /\ EvidenceOK /\ Pass => /\ judged' \in Judgements /\ sha' \in Commits \cup {NoSha}
                           /\ vetted' \in BOOLEAN /\ head' \in Commits
  /\ EvidenceOK /\ Fail => /\ judged' \in Judgements /\ sha' \in Commits \cup {NoSha}
                           /\ vetted' \in BOOLEAN /\ head' \in Commits
  BY DEF EvidenceOK, Pass, Fail, CommitReleaseNote, Judgements

\* Nothing of it is touched.
LEMMA EvidenceStays ==
  ASSUME EvidenceOK, UNCHANGED <<evidence, cards, iteration, head>> PROVE EvidenceOK'
  BY DEF EvidenceOK, evidence, cards

\* A return to the fixer.
LEMMA RouteFixTyped == ASSUME EvidenceOK, RouteFix PROVE EvidenceOK'
<1>1. 0 \in 0..(2 * AUDITOR_LOOP_MAX) BY PhaseAssumption DEF PhaseAssumption
<1> QED BY <1>1 DEF EvidenceOK, RouteFix, cards, Judgements

\* One round more is still within the bound.
LEMMA RoundCounted ==
  ASSUME iteration \in 0..(2 * AUDITOR_LOOP_MAX), ~LoopIsSpent
  PROVE  iteration + 1 \in 0..(2 * AUDITOR_LOOP_MAX)
  BY PhaseAssumption DEF PhaseAssumption, LoopIsSpent

LEMMA ManagerTyped == ASSUME EvidenceOK, Manager PROVE EvidenceOK'
<1> USE PhaseAssumption DEF PhaseAssumption
<1>1. CASE (\E f \in Flows : Start(f)) \/ ApproveSpec \/ Schvalit \/ AskOrAnswer \/ DecideAcceptFix
           \/ Pokracovat \/ Pause
  <2>1. UNCHANGED <<evidence, cards, iteration, head>>
    BY <1>1 DEF Start, ApproveSpec, Schvalit, AskOrAnswer, DecideAcceptFix, Pokracovat, Pause, Rearm
  <2> QED BY <2>1, EvidenceStays
<1>2. CASE Uprav
  <2>1. RouteFix \/ UNCHANGED <<evidence, cards, iteration, head>> BY <1>2 DEF Uprav, Rearm
  <2> QED BY <2>1, RouteFixTyped, EvidenceStays
<1>3. CASE OveritZnovu
  <2>1. iteration' \in 0..(2 * AUDITOR_LOOP_MAX) BY <1>3 DEF OveritZnovu, EvidenceOK
  <2> QED BY <1>3, <2>1 DEF OveritZnovu, EvidenceOK, evidence, cards
<1>4. CASE DecideUpfront
  <2>1. card' = [card EXCEPT !.left = @ - 1] /\ card.left > 0 /\ card \in Cards
    BY <1>4 DEF DecideUpfront, EvidenceOK
  <2>2. card' \in Cards BY <2>1 DEF Cards
  <2> QED BY <1>4, <2>2 DEF DecideUpfront, EvidenceOK, evidence
<1>5. CASE DecideGuide BY <1>5, RouteFixTyped DEF DecideGuide
<1>6. CASE VerdictPass
  <2>1. Pass /\ UNCHANGED <<iteration, smoke, acceptance, card, consults>>
    BY <1>6 DEF VerdictPass, cards
  <2> QED BY <2>1, VerdictTyped DEF EvidenceOK
<1>7. CASE VerdictFail
  <2>1. Fail /\ UNCHANGED <<smoke, acceptance>> BY <1>7 DEF VerdictFail
  <2>2. CASE LoopIsSpent
    <3>1. /\ card' = [source |-> "verifikacia_fail", left |-> 1, vetted |-> FALSE]
          /\ consults' = Saturated(consults) /\ iteration' = iteration
      BY <1>7, <2>2 DEF VerdictFail, SettleFailExhausted
    <3> QED BY <2>1, <3>1, VerdictTyped, CardsTyped DEF EvidenceOK
  <2>3. CASE ~LoopIsSpent
    <3>1. /\ iteration' = iteration + 1
          /\ \/ UNCHANGED cards
             \/ card' = FixConsultation(FALSE) /\ consults' = Saturated(consults)
      BY <1>7, <2>3 DEF VerdictFail
    <3>2. card' \in Cards /\ consults' \in 0..AUDITOR_LOOP_MAX
      BY <3>1, CardsTyped DEF EvidenceOK, cards
    <3>3. iteration' \in 0..(2 * AUDITOR_LOOP_MAX) BY <2>3, <3>1, RoundCounted DEF EvidenceOK
    <3> QED BY <2>1, <3>2, <3>3, VerdictTyped DEF EvidenceOK
  <2> QED BY <2>2, <2>3
<1> QED BY <1>1, <1>2, <1>3, <1>4, <1>5, <1>6, <1>7 DEF Manager

LEMMA EngineTyped == ASSUME EvidenceOK, Engine PROVE EvidenceOK'
<1> USE PhaseAssumption DEF PhaseAssumption
<1>1. CASE StartTurn \/ PripravaStops \/ PripravaDone \/ NavrhStops \/ NavrhDesigned \/ PlanStops
           \/ PlanWritten \/ ReviewClean \/ ReviewFindsHole \/ ConsultFallsBack
  <2>1. UNCHANGED <<evidence, cards, iteration, head>>
    BY <1>1 DEF StartTurn, PripravaStops, PripravaDone, NavrhStops, NavrhDesigned, PlanStops,
                PlanWritten, ReviewClean, ReviewFindsHole, ConsultFallsBack, Rest
  <2> QED BY <2>1, EvidenceStays
<1>2. CASE BuildRests \/ BuildCompletes \/ BuildPicksTask \/ TaskDone \/ TaskFails \/ TaskStops
           \/ AuditorUnreadable \/ SettlePass
  <2>1. UNCHANGED <<evidence, cards, iteration, head>>
    BY <1>2 DEF BuildRests, BuildCompletes, BuildPicksTask, TaskDone, TaskFails, TaskStops,
                AuditorUnreadable, SettlePass, Rest
  <2> QED BY <2>1, EvidenceStays
<1>3. CASE ConsultCard
  <2>1. card' \in Cards BY <1>3, CardsTyped DEF ConsultCard
  <2>2. consults' \in 0..AUDITOR_LOOP_MAX BY <1>3 DEF ConsultCard, EvidenceOK
  <2> QED BY <1>3, <2>1, <2>2 DEF ConsultCard, EvidenceOK, evidence
<1>4. CASE Smoke \/ Acceptance
  BY <1>4 DEF Smoke, Acceptance, EvidenceOK, cards
<1>7. CASE AuditorAnswers
  BY <1>7 DEF AuditorAnswers, EvidenceOK, cards, Judgements
<1>8. CASE Critic
  BY <1>8 DEF Critic, EvidenceOK, cards, Vouches
<1>5. CASE BootVerdict \/ VerdictRecorded
  <2>1. (Pass \/ Fail) /\ UNCHANGED <<iteration, smoke, acceptance, card, consults>>
    BY <1>5 DEF BootVerdict, VerdictRecorded, cards
  <2> QED BY <2>1, VerdictTyped DEF EvidenceOK
<1>6. CASE SettleFailed
  <2>1. UNCHANGED <<judged, sha, vetted, smoke, acceptance, head>> BY <1>6 DEF SettleFailed, evidence
  <2>2. CASE LoopIsSpent
    <3>1. /\ card' = [source |-> "verifikacia_fail", left |-> 1, vetted |-> FALSE]
          /\ consults' = Saturated(consults) /\ iteration' = iteration
      BY <1>6, <2>2 DEF SettleFailed, SettleFailExhausted
    <3> QED BY <2>1, <3>1, CardsTyped DEF EvidenceOK
  <2>3. CASE ~LoopIsSpent
    <3>1. /\ iteration' = iteration + 1
          /\ \/ UNCHANGED cards
             \/ card' = FixConsultation(vetted) /\ consults' = Saturated(consults)
      BY <1>6, <2>3 DEF SettleFailed, SettleFail
    <3>2. card' \in Cards /\ consults' \in 0..AUDITOR_LOOP_MAX
      BY <3>1, CardsTyped DEF EvidenceOK, cards
    <3>3. iteration' \in 0..(2 * AUDITOR_LOOP_MAX) BY <2>3, <3>1, RoundCounted DEF EvidenceOK
    <3> QED BY <2>1, <3>2, <3>3 DEF EvidenceOK
  <2> QED BY <2>2, <2>3
<1> QED BY <1>1, <1>2, <1>3, <1>4, <1>5, <1>6, <1>7, <1>8 DEF Engine

LEMMA EvidenceNext == EvidenceOK /\ [Next]_vars => EvidenceOK'
<1> SUFFICES ASSUME EvidenceOK, [Next]_vars PROVE EvidenceOK' OBVIOUS
<1>1. CASE UNCHANGED vars BY <1>1, EvidenceStays DEF vars
<1>2. CASE Crash \/ Restart BY <1>2, EvidenceStays DEF Crash, Restart, Rest
<1>3. CASE HeadMoves BY <1>3 DEF HeadMoves, EvidenceOK, evidence, cards
<1> QED BY <1>1, <1>2, <1>3, ManagerTyped, EngineTyped DEF Next

\* A row that asks for no decision is no matter of a card.
LEMMA NothingAsked == ASSUME ~AsksDecision(row') PROVE CardFits'
  BY DEF CardFits, AsksDecision

\* Nothing a card speaks of is touched.
LEMMA CardStays ==
  ASSUME CardFits, UNCHANGED <<row, tasks, card, vetted>> PROVE CardFits'
  BY DEF CardFits

\* The loop is spent: the card asks for guidance.
LEMMA SpentFits ==
  ASSUME row \in Rows, row.stage = "verifikacia", SettleFailExhausted PROVE CardFits'
<1>1. row' = Block(row, "decision_needed")
      /\ card' = [source |-> "verifikacia_fail", left |-> 1, vetted |-> FALSE]
  BY DEF SettleFailExhausted, Settle
<1>2. row'.stage = "verifikacia" BY <1>1, RowWritten
<1> QED BY <1>1, <1>2 DEF CardFits

\* The card of a FAIL offers the fix just made, as the critic left it.
LEMMA FixCardFits ==
  ASSUME NEW r \in Rows, r.stage = "programovanie", row' = Block(r, "decision_needed"),
         TasksInv, HasRoom, NEW offer \in BOOLEAN, card' = FixConsultation(offer), vetted' = offer,
         tasks' = WithFix(IF offer THEN "vetted" ELSE "auditor")
  PROVE  CardFits'
<1>1. row'.stage = "programovanie" BY RowWritten
<1>2. /\ card'.source = "verifikacia_fix" /\ card'.left = 1
      /\ card'.vetted = offer
  BY DEF FixConsultation
<1>3. \E i \in DOMAIN tasks' : tasks'[i].brief = IF offer THEN "vetted" ELSE "auditor"
  BY FixKeeps DEF TasksInv, Briefs
<1> QED BY <1>1, <1>2, <1>3 DEF CardFits

\* A re-armed version asks for nothing.
LEMMA ArmedAsksNothing ==
  /\ RowOK(row) => ~AsksDecision(BeginDispatch(row))
  /\ \A r : RowOK(r) /\ r.stage = "programovanie" =>
       ~AsksDecision(BeginDispatch(r)) /\ ~AsksDecision(SetStatus(r, "paused"))
<1>1. \A r : RowOK(r) /\ r.stage = "done" => ~AsksDecision(BeginDispatch(r))
  BY DEF RowOK, BeginDispatch, AsksDecision
<1>2. "paused" \in Statuses BY DEF Statuses
<1> QED BY <1>1, <1>2, WrittenAsksNothing DEF RowOK

LEMMA RouteFixFits == ASSUME RowOK(row), Started(row), RouteFix PROVE CardFits'
<1> DEFINE r == [row EXCEPT !.stage = "programovanie", !.actor = "ai_agent"]
<1>1. RowOK(r) /\ r.stage = "programovanie" BY MoveOK DEF Stages
<1>2. row' = BeginDispatch(r) \/ row' = SetStatus(r, "paused") BY DEF RouteFix
<1> HIDE DEF r
<1> QED BY <1>1, <1>2, ArmedAsksNothing, NothingAsked

LEMMA ManagerFits ==
  ASSUME GateInv, TasksInv, CardInv, Manager PROVE CardFits'
<1>0. RowOK(row) /\ row \in Rows /\ card \in Cards BY DEF GateInv, RowOK, CardInv, EvidenceOK
<1>1. ASSUME NEW f \in Flows, Start(f) PROVE CardFits'
  <2>1. NewRow \in Rows /\ NewRow.stage # "done"
    BY DEF NewRow, NoRow, Rows, Stages, Actors, Statuses, NoReason
  <2>2. row' = BeginDispatch(NewRow) BY <1>1 DEF Start
  <2> QED BY <2>1, <2>2, WrittenAsksNothing, NothingAsked
<1>2. ASSUME Started(row), NEW s \in Stages \ {"done"}, row' = BeginDispatch([row EXCEPT !.stage = s])
      PROVE  CardFits'
  <2>1. row'.status = "agent_working" BY <1>0, <1>2, ArmMovedOK
  <2> QED BY <2>1, NothingAsked DEF AsksDecision
<1>3. CASE ApproveSpec
  <2>1. Started(row) BY <1>3 DEF ApproveSpec, PassesGuards
  <2>2. NextStage("priprava", flow) \in Stages \ {"done"} BY DEF NextStage, Stages
  <2> QED BY <1>2, <1>3, <2>1, <2>2 DEF ApproveSpec, Rearm
<1>4. CASE Schvalit
  <2>1. Started(row) BY <1>4 DEF Schvalit, PassesGuards
  <2>2. CASE row.stage = "verifikacia"
    <3>1. row' = Terminal BY <1>4, <2>2 DEF Schvalit
    <3> QED BY <1>0, <3>1, TerminalAsksNothing, NothingAsked
  <2>3. CASE row.stage # "verifikacia"
    <3>1. NextStage(row.stage, flow) \in Stages \ {"done"}
      BY <1>4, <2>3 DEF Schvalit, NextStage, Stages
    <3> QED BY <1>2, <1>4, <2>1, <2>3, <3>1 DEF Schvalit
  <2> QED BY <2>2, <2>3
<1>5. CASE Uprav
  <2>1. Started(row) BY <1>5 DEF Uprav, PassesGuards
  <2>2. RouteFix \/ row' = BeginDispatch(row) BY <1>5 DEF Uprav, Rearm
  <2> QED BY <1>0, <2>1, <2>2, RouteFixFits, ArmedAsksNothing, NothingAsked
<1>6. CASE OveritZnovu
  <2>1. Started(row) BY <1>6 DEF OveritZnovu, PassesGuards
  <2>2. "verifikacia" \in Stages \ {"done"} BY DEF Stages
  <2> QED BY <1>2, <1>6, <2>1, <2>2 DEF OveritZnovu
<1>7. CASE AskOrAnswer \/ DecideAcceptFix \/ Pokracovat
  <2>1. row' = BeginDispatch(row) BY <1>7 DEF AskOrAnswer, DecideAcceptFix, Pokracovat, Rearm
  <2> QED BY <1>0, <2>1, ArmedAsksNothing, NothingAsked
<1>8. CASE DecideUpfront
  <2>1. CASE card.left = 1
    <3>1. row' = BeginDispatch(row) BY <1>8, <2>1 DEF DecideUpfront
    <3> QED BY <1>0, <3>1, ArmedAsksNothing, NothingAsked
  <2>2. CASE card.left # 1
    <3>1. /\ row' = row /\ tasks' = tasks /\ vetted' = vetted
          /\ card' = [card EXCEPT !.left = @ - 1] /\ card.left > 0 /\ card.left \in 0..2
          /\ card.source = "auditor_upfront"
      BY <1>0, <1>8, <2>2 DEF DecideUpfront, evidence, Cards
    <3>2. card'.source = card.source /\ card'.left = 1 BY <1>0, <2>2, <3>1 DEF Cards
    <3> QED BY <3>1, <3>2 DEF CardInv, CardFits
  <2> QED BY <2>1, <2>2
<1>9. CASE DecideGuide
  <2>1. Started(row) /\ RouteFix BY <1>9 DEF DecideGuide, CanDecide, PassesGuards
  <2> QED BY <1>0, <2>1, RouteFixFits
<1>10. CASE VerdictPass
  <2>1. row' = SetStatus(row, "awaiting_manazer") BY <1>10 DEF VerdictPass
  <2> QED BY <1>0, <2>1, WrittenAsksNothing, NothingAsked DEF Statuses
<1>11. CASE VerdictFail
  <2>1. row.stage = "verifikacia" /\ HasRoom /\ Started(row) /\ vetted' = FALSE
    BY <1>11 DEF VerdictFail, TasksInv, PassesGuards, Fail
  <2>2. CASE LoopIsSpent BY <1>0, <1>11, <2>1, <2>2, SpentFits DEF VerdictFail
  <2>3. CASE ~LoopIsSpent
    <3> DEFINE r == [row EXCEPT !.stage = "programovanie", !.actor = "ai_agent"]
    <3>1. RowOK(r) /\ r.stage = "programovanie" BY <1>0, <2>1, MoveOK DEF Stages
    <3>2. \/ row' = BeginDispatch(r)
          \/ row' = Block(r, "decision_needed") /\ card' = FixConsultation(FALSE)
      BY <1>11, <2>3 DEF VerdictFail
    <3>3. tasks' = WithFix("auditor") BY <1>11, <2>3 DEF VerdictFail
    <3> HIDE DEF r
    <3>4. r \in Rows BY <3>1 DEF RowOK
    <3>5. tasks' = WithFix(IF FALSE THEN "vetted" ELSE "auditor") BY <3>3
    <3>6. CASE row' = BeginDispatch(r) BY <3>1, <3>6, ArmedAsksNothing, NothingAsked
    <3>7. CASE row' = Block(r, "decision_needed") /\ card' = FixConsultation(FALSE)
      BY <2>1, <3>1, <3>4, <3>5, <3>7, FixCardFits
    <3> QED BY <3>2, <3>6, <3>7
  <2> QED BY <2>2, <2>3
<1>12. CASE Pause
  <2>1. row' = SetStatus(row, "paused") BY <1>12 DEF Pause
  <2> QED BY <1>0, <2>1, WrittenAsksNothing, NothingAsked DEF Statuses
<1> QED BY <1>1, <1>3, <1>4, <1>5, <1>6, <1>7, <1>8, <1>9, <1>10, <1>11, <1>12 DEF Manager

LEMMA EngineFits ==
  ASSUME GateInv, TasksInv, CardInv, Engine PROVE CardFits'
<1>0. /\ GateInv' /\ row \in Rows /\ RowOK(row) /\ vetted \in BOOLEAN
      /\ turn \in DOMAIN Home => row.stage = Home[turn]
  BY EngineHolds DEF Held, GateInv, RowOK, Owned, CardInv, EvidenceOK
<1>1. CASE turn' # "idle" BY <1>0, <1>1, WorkAsksNothing, NothingAsked
<1>2. \A v \in {"awaiting_manazer", "paused"} : ~AsksDecision(SetStatus(row, v))
  BY <1>0, WrittenAsksNothing DEF Statuses
<1>3. \A reason \in {"agent_error", "parse_exhaustion", "agent_question", "framework_issue",
                     "system_error"} : ~AsksDecision(Block(row, reason))
  BY <1>0, WrittenAsksNothing DEF BlockReasons
<1>4. CASE Boundary /\ turn' = "idle" /\ turn \in DOMAIN Home
  <2>1. row' = SetStatus(row, "awaiting_manazer") \/ row' = Terminal
         \/ \E r : Chain(r, tasks) /\ r.stage = NextStage(row.stage, flow) /\ r.stage # "done"
    <3> DEFINE next == NextStage(row.stage, flow)
    <3>1. CASE next # "done" /\ Chain(BeginDispatch([row EXCEPT !.stage = next]), tasks)
      <4>1. next \in Stages \ {"done"} /\ Started(row)
        BY <1>0, <1>4, <3>1 DEF NextStage, Stages, GateInv, Owned, Started
      <4> HIDE DEF next
      <4>2. BeginDispatch([row EXCEPT !.stage = next]).stage = next BY <1>0, <4>1, ArmMovedOK
      <4> QED BY <3>1, <4>2 DEF next
    <3> QED BY <1>4, <3>1 DEF Boundary, Settle
  <2>2. ASSUME NEW r, Chain(r, tasks), r.stage \in Stages \ {"done"} PROVE FALSE
    <3>1. turn' = "tripped" \/ Enter(r.stage, tasks) BY <2>2 DEF Chain
    <3> QED BY <1>4, <2>2, <3>1, EnterHome DEF Home
  <2>3. \A r : r.stage = NextStage(row.stage, flow) => r.stage \in Stages BY DEF NextStage, Stages
  <2> QED BY <1>0, <1>2, <2>1, <2>2, <2>3, TerminalAsksNothing, NothingAsked
<1>5. CASE PripravaStops \/ NavrhStops \/ PlanStops \/ ConsultFallsBack \/ TaskStops \/ AuditorUnreadable
  <2>1. row' \in {Block(row, reason) : reason \in {"agent_error", "parse_exhaustion", "agent_question",
                    "framework_issue", "system_error"}} \cup {SetStatus(row, "awaiting_manazer")}
    BY <1>5 DEF PripravaStops, NavrhStops, PlanStops, ConsultFallsBack, TaskStops, AuditorUnreadable,
                ParseExhausted, FrameworkIssue, Rest, Settle
  <2> QED BY <1>2, <1>3, <2>1, NothingAsked
<1>6. CASE BuildRests
  <2>1. turn = "build" BY <1>6 DEF BuildRests
  <2>2. ~AsksDecision(row) BY <2>1, WorkAsksNothing
  <2>3. row' \in {row, SetStatus(row, "paused"), SetStatus(row, "awaiting_manazer"), Block(row, "agent_error")}
    BY <1>6 DEF BuildRests, Rest, Settle
  <2> QED BY <1>2, <1>3, <2>2, <2>3, NothingAsked
<1>7. CASE TaskFails
  <2>1. row' = SetStatus(row, "awaiting_manazer") BY <1>7 DEF TaskFails, Settle
  <2> QED BY <1>2, <2>1, NothingAsked
<1>8. CASE ConsultCard
  <2>1. row.stage = "navrh" BY <1>0, <1>8 DEF ConsultCard, Home, Turns
  <2>2. row' = Block(row, "decision_needed") BY <1>8 DEF ConsultCard, Settle
  <2>3. PICK n \in 1..2 : card' = [source |-> "auditor_upfront", left |-> n, vetted |-> FALSE]
    BY <1>8 DEF ConsultCard
  <2>4. card'.source = "auditor_upfront" /\ card'.left > 0 BY <2>3
  <2>5. row'.stage = "navrh" BY <1>0, <2>1, <2>2, RowWritten
  <2> QED BY <2>4, <2>5 DEF CardFits
<1>9. CASE PripravaDone \/ NavrhDesigned
  <2>1. turn \in DOMAIN Home BY <1>9 DEF PripravaDone, NavrhDesigned, Home, Turns
  <2>2. Boundary \/ row' = Block(row, "agent_error") \/ turn' = "plan"
    BY <1>9 DEF PripravaDone, NavrhDesigned, Rest, Settle, Goes
  <2> QED BY <1>1, <1>3, <1>4, <2>1, <2>2, NothingAsked
<1>10. CASE ReviewClean \/ BuildCompletes \/ SettlePass
  <2>1. turn \in DOMAIN Home /\ Boundary
    BY <1>10 DEF ReviewClean, BuildCompletes, SettlePass, Home, Turns
  <2> QED BY <1>1, <1>4, <2>1
<1>11. CASE SettleFailed
  <2>1. /\ row.stage = "verifikacia" /\ row.status = "agent_working" /\ Started(row)
        /\ HasRoom /\ vetted' = vetted
    BY <1>11 DEF SettleFailed, evidence, GateInv, Owned, Home, Turns, Started, TasksInv
  <2>2. CASE LoopIsSpent BY <1>0, <1>11, <2>1, <2>2, SpentFits DEF SettleFailed
  <2>3. CASE ~LoopIsSpent
    <3> DEFINE r == [row EXCEPT !.stage = "programovanie", !.actor = "ai_agent"]
               ts == WithFix(IF vetted THEN "vetted" ELSE "auditor")
               armed == BeginDispatch(r)
    <3>1. RowOK(r) /\ r.stage = "programovanie" BY <1>0, <2>1, MoveOK DEF Stages
    <3>2. \/ Chain(armed, ts)
          \/ row' = Block(r, "decision_needed") /\ card' = FixConsultation(vetted) /\ tasks' = ts
      BY <1>11, <2>3 DEF SettleFailed, SettleFail, Settle
    <3> HIDE DEF r
    <3>3. r \in Rows BY <3>1 DEF RowOK
    <3>4. CASE Chain(armed, ts)
      <4>1. row' = armed BY <3>4 DEF Chain
      <4> QED BY <3>1, <4>1, ArmedAsksNothing, NothingAsked
    <3>5. CASE row' = Block(r, "decision_needed") /\ card' = FixConsultation(vetted) /\ tasks' = ts
      BY <1>0, <2>1, <3>1, <3>3, <3>5, FixCardFits
    <3> QED BY <3>2, <3>4, <3>5
  <2> QED BY <2>2, <2>3
<1>12. CASE StartTurn \/ PlanWritten \/ ReviewFindsHole \/ BuildPicksTask \/ TaskDone \/ Smoke
            \/ BootVerdict \/ Acceptance \/ AuditorAnswers \/ VerdictRecorded \/ Critic
  <2>1. row' = row
    BY <1>12 DEF StartTurn, PlanWritten, ReviewFindsHole, BuildPicksTask, TaskDone, Smoke,
                 BootVerdict, Acceptance, AuditorAnswers, VerdictRecorded, Critic, Goes
  <2>2. row.status = "agent_working" \/ turn # "idle"
    BY <1>12 DEF StartTurn, PlanWritten, ReviewFindsHole, BuildPicksTask, TaskDone, Smoke,
                 BootVerdict, Acceptance, AuditorAnswers, VerdictRecorded, Critic
  <2> QED BY <2>1, <2>2, WorkAsksNothing, NothingAsked DEF AsksDecision
<1> QED BY <1>1, <1>5, <1>6, <1>7, <1>8, <1>9, <1>10, <1>11, <1>12 DEF Engine

LEMMA CardNext == GateInv /\ TasksInv /\ CardInv /\ [Next]_vars => CardInv'
<1> SUFFICES ASSUME GateInv, TasksInv, CardInv, [Next]_vars PROVE CardInv' OBVIOUS
<1>1. EvidenceOK' BY EvidenceNext DEF CardInv
<1>2. CASE UNCHANGED vars BY <1>1, <1>2, CardStays DEF CardInv, vars, evidence, cards
<1>3. CASE Crash
  <2>1. row' = Block(row, "system_error") /\ row \in Rows
    BY <1>3 DEF Crash, Rest, Settle, GateInv, RowOK
  <2>2. "system_error" \in BlockReasons BY DEF BlockReasons
  <2> QED BY <1>1, <2>1, <2>2, WrittenAsksNothing, NothingAsked DEF CardInv
<1>4. CASE Restart
  <2>1. /\ row' = SetStatus(row, "awaiting_manazer") \/ row' = row
        /\ UNCHANGED <<tasks, card, vetted>> /\ row \in Rows
    BY <1>4 DEF Restart, Rest, Settle, evidence, cards, GateInv, RowOK
  <2>2. "awaiting_manazer" \in Statuses \ {"blocked"} BY DEF Statuses
  <2> QED BY <1>1, <2>1, <2>2, WrittenAsksNothing, NothingAsked, CardStays DEF CardInv
<1>5. CASE HeadMoves BY <1>1, <1>5, CardStays DEF HeadMoves, CardInv, evidence, cards
<1> QED BY <1>1, <1>2, <1>3, <1>4, <1>5, ManagerFits, EngineFits DEF Next, CardInv

-----------------------------------------------------------------------------
(* Theorems about the plan and the cards *)

LEMMA PlanAndCardsInit == Init => TasksInv /\ CardInv
<1> USE PhaseAssumption DEF PhaseAssumption
<1>1. ASSUME Init PROVE TasksInv
  <2>1. tasks = <<>> /\ row.stage = "priprava" BY <1>1 DEF Init, NoRow
  <2>2. Planned(<<>>) BY DEF Planned
  <2> QED BY <2>1, <2>2 DEF TasksInv
<1>2. ASSUME Init PROVE CardInv
  <2>1. EvidenceOK
    <3>1. NoCard \in Cards BY DEF NoCard, Cards
    <3>2. 0 \in 0..AUDITOR_LOOP_MAX /\ 0 \in 0..(2 * AUDITOR_LOOP_MAX) BY DEF PhaseAssumption
    <3>3. card \in Cards /\ consults \in 0..AUDITOR_LOOP_MAX /\ iteration \in 0..(2 * AUDITOR_LOOP_MAX)
      BY <1>2, <3>1, <3>2 DEF Init
    <3> QED BY <1>2, <3>3 DEF Init, EvidenceOK, Judgements
  <2>2. row.status # "blocked" BY <1>2 DEF Init, NoRow
  <2> QED BY <2>1, <2>2 DEF CardInv, CardFits
<1> QED BY <1>1, <1>2

\* The plan and the fixes keep their shape, and a version under judgement always
\* has room for the fix of a FAIL, for any plan and any number of fix rounds.
THEOREM TasksStayPlanned == Spec => []TasksInv
<1>1. GateInv /\ TasksInv /\ [Next]_vars => TasksInv' BY TasksNext DEF TasksStep
<1> QED BY <1>1, PlanAndCardsInit, Phased, PTL DEF Spec

\* A decision that waits is read from its own card, and the prepared fix is offered
\* exactly when the critic vetted the fix of this round (_latest_consultation,
\* _build_fix_consultation).
THEOREM CardStaysFitting == Spec => []CardFits
<1>1. Init => CardInv BY PlanAndCardsInit
<1>2. CardInv => CardFits BY DEF CardInv
<1> QED BY <1>1, <1>2, CardNext, Phased, TasksStayPlanned, PTL DEF Spec

\* After navrh no step takes a task of the plan back from done: a FAIL, a retry, a
\* correction and a restart add work or repeat what was not finished.
THEOREM FixCostsNoFinishedWork == Spec => FixLeavesPlanAlone
<1>1. GateInv /\ TasksInv /\ [Next]_vars =>
        [row.stage # "navrh" => PlanDone(tasks) \subseteq PlanDone(tasks')]_vars
  BY TasksNext DEF TasksStep
<1> QED BY <1>1, Phased, TasksStayPlanned, PTL DEF Spec, FixLeavesPlanAlone

\* Every variable stays in its domain; the rounds, the consultations, the tasks and
\* the chained phases stay within their limits, whatever the limits are.
THEOREM PhasesTyped == Spec => []TypeOK
<1>1. Spec => []EvidenceOK
  <2>1. Init => EvidenceOK BY PlanAndCardsInit DEF CardInv
  <2> QED BY <2>1, EvidenceNext, PTL DEF Spec
<1>2. GateInv /\ TasksInv /\ EvidenceOK => TypeOK
  <2> SUFFICES ASSUME GateInv, TasksInv, EvidenceOK PROVE TypeOK OBVIOUS
  <2> USE PhaseAssumption DEF PhaseAssumption
  <2>1. auto_chain_limit = 5 + 2 * AUDITOR_LOOP_MAX BY DEF auto_chain_limit, STAGE_ORDER
  <2>2. RoundsLeft \in Nat /\ Ahead(row.stage) \in Nat /\ chain \in Nat
    BY RoundsNat DEF GateInv, Ahead
  <2>3. chain = 0 \/ chain + RoundsLeft + Ahead(row.stage) <= 2 * AUDITOR_LOOP_MAX + 2
    BY DEF GateInv, Budgeted, Flows
  <2>4. chain \in 0..auto_chain_limit BY <2>1, <2>2, <2>3
  <2>5. iteration \in 0..(2 * AUDITOR_LOOP_MAX + 1) BY DEF EvidenceOK
  <2> QED BY <2>4, <2>5 DEF TypeOK, GateInv, RowOK, TasksInv, Planned, EvidenceOK
<1> QED BY <1>1, <1>2, Phased, TasksStayPlanned, PTL

-----------------------------------------------------------------------------
(* Every task of the plan as the build stage promises it *)

Busy(ts) == {i \in DOMAIN ts : ts[i].status = "in_progress"}

\* Before the build nothing of the plan was begun; between tasks none is in
\* progress, and a dispatch at a task is at one.
LoopInv ==
  /\ row.stage \in {"priprava", "navrh"} => \A i \in DOMAIN tasks : tasks[i].status = "todo"
  /\ turn = "build" => Busy(tasks) = {}
  /\ turn = "task" => \A i, j \in Busy(tasks) : i = j

\* What a step does to each task of the plan, and to LoopInv.
Promised ==
  /\ LoopInv'
  /\ \A i \in 1..PlanSize : [B(i)!Next]_(B(i)!taskVars)

Unmoved(ts, us) == \A i \in 1..PlanSize : Standing(us, i) = Standing(ts, i)

\* A fix moves no task of the plan, neither when it comes nor when it goes.
LEMMA FixesMoveNothing ==
  ASSUME NEW ts, ts \in Seq(Tasks), NEW t \in Tasks, t.brief # "plan"
  PROVE  Unmoved(ts, Append(ts, t))
<1>1. /\ Len(ts) \in Nat /\ DOMAIN ts = 1..Len(ts)
      /\ DOMAIN Append(ts, t) = 1..(Len(ts) + 1)
      /\ Append(ts, t)[Len(ts) + 1] = t /\ \A i \in 1..Len(ts) : Append(ts, t)[i] = ts[i]
  OBVIOUS
<1> DEFINE us == Append(ts, t)
<1> HIDE DEF us
<1>2. \A i \in 1..PlanSize : Standing(us, i) = Standing(ts, i)
  <2> SUFFICES ASSUME NEW i \in 1..PlanSize PROVE Standing(us, i) = Standing(ts, i) OBVIOUS
  <2>1. DOMAIN us = 1..(Len(ts) + 1) /\ us[Len(ts) + 1] = t /\ \A j \in 1..Len(ts) : us[j] = ts[j]
    BY <1>1 DEF us
  <2>2. CASE i \in 1..Len(ts) BY <1>1, <2>1, <2>2 DEF Standing
  <2>3. CASE i = Len(ts) + 1 BY <1>1, <2>1, <2>3 DEF Standing
  <2>4. CASE i \notin 1..(Len(ts) + 1)
    <3>1. i \notin 1..Len(ts) BY <1>1, <2>4
    <3> QED BY <1>1, <2>1, <2>4, <3>1 DEF Standing
  <2>5. i \in 1..Len(ts) \/ i = Len(ts) + 1 \/ i \notin 1..(Len(ts) + 1) BY <1>1
  <2> QED BY <2>2, <2>3, <2>4, <2>5
<1> QED BY <1>2 DEF us, Unmoved

LEMMA DoneFixMovesNothing ==
  ASSUME Planned(tasks), NEW i \in DOMAIN tasks, tasks[i].brief # "plan"
  PROVE  Unmoved(tasks, Without(i)) /\ (Busy(tasks) = {i} => Busy(Without(i)) = {})
<1> DEFINE us == Without(i)
           n  == Len(tasks) - 1
<1>1. /\ tasks \in Seq(Tasks) /\ DOMAIN tasks = 1..Len(tasks) /\ Len(tasks) \in Nat
      /\ i \in 1..Len(tasks) /\ n \in Nat /\ DOMAIN us = 1..n
  BY DEF Planned, Without
<1>2. \A j \in 1..n : us[j] = tasks[IF j < i THEN j ELSE j + 1] BY DEF Without
<1>3. \A j \in 1..Len(tasks) : tasks[j].brief = "plan" => j < i BY <1>1 DEF Planned
<1> HIDE DEF us
<1>4. ASSUME NEW k \in 1..PlanSize PROVE Standing(us, k) = Standing(tasks, k)
  <2>1. CASE k < i
    <3>1. k \in 1..n /\ k \in 1..Len(tasks) BY <1>1, <2>1
    <3>2. us[k] = tasks[k] BY <1>2, <2>1, <3>1
    <3> QED BY <1>1, <3>1, <3>2 DEF Standing
  <2>2. CASE ~(k < i)
    <3>1. ~(k \in DOMAIN tasks /\ tasks[k].brief = "plan") BY <1>1, <1>3, <2>2
    <3>2. ASSUME k \in DOMAIN us PROVE us[k].brief # "plan"
      <4>1. us[k] = tasks[k + 1] /\ k + 1 \in 1..Len(tasks) /\ ~(k + 1 < i) BY <1>1, <1>2, <2>2, <3>2
      <4> QED BY <1>3, <4>1
    <3> QED BY <3>1, <3>2 DEF Standing
  <2> QED BY <2>1, <2>2
<1>5. ASSUME NEW k \in Busy(us), Busy(tasks) = {i} PROVE FALSE
  <2> DEFINE j == IF k < i THEN k ELSE k + 1
  <2>1. k \in 1..n /\ us[k].status = "in_progress" BY <1>1, <1>5 DEF Busy
  <2>2. j \in 1..Len(tasks) /\ j # i BY <1>1, <2>1
  <2>3. us[k] = tasks[j] BY <1>2, <2>1
  <2> HIDE DEF j
  <2>4. j \in Busy(tasks) \ {i} BY <1>1, <2>1, <2>2, <2>3 DEF Busy
  <2> QED BY <1>5, <2>4
<1> QED BY <1>4, <1>5 DEF us, Unmoved

\* A reset or a reclaim moves the tasks it names.
LEMMA ResetsMove ==
  ASSUME NEW ts, ts \in Seq(Tasks)
  PROVE  /\ \A i \in 1..PlanSize :
              Standing(ResetFailed(ts), i) =
                IF Standing(ts, i) = "failed" THEN "todo" ELSE Standing(ts, i)
         /\ \A i \in 1..PlanSize :
              Standing(Reclaimed(ts), i) =
                IF Standing(ts, i) = "in_progress" THEN "todo" ELSE Standing(ts, i)
         /\ Busy(ResetFailed(ts)) = Busy(ts) /\ Busy(Reclaimed(ts)) = {}
<1>1. DOMAIN ResetFailed(ts) = DOMAIN ts /\ DOMAIN Reclaimed(ts) = DOMAIN ts
  BY DEF ResetFailed, Reclaimed
<1>2. ASSUME NEW i \in DOMAIN ts
      PROVE  /\ ResetFailed(ts)[i].brief = ts[i].brief /\ Reclaimed(ts)[i].brief = ts[i].brief
             /\ ResetFailed(ts)[i].status = IF ts[i].status = "failed" THEN "todo" ELSE ts[i].status
             /\ Reclaimed(ts)[i].status = IF ts[i].status = "in_progress" THEN "todo" ELSE ts[i].status
  <2>1. ts[i] \in Tasks OBVIOUS
  <2>2. [ts[i] EXCEPT !.status = "todo"].status = "todo" /\ [ts[i] EXCEPT !.status = "todo"].brief = ts[i].brief
    BY <2>1 DEF Tasks
  <2> QED BY <2>2 DEF ResetFailed, Reclaimed
<1> HIDE DEF ResetFailed, Reclaimed
<1>3. Busy(ResetFailed(ts)) = Busy(ts) /\ Busy(Reclaimed(ts)) = {} BY <1>1, <1>2 DEF Busy
<1> QED BY <1>1, <1>2, <1>3 DEF Standing

\* Marking a task moves it alone, and not at all if it is a fix.
LEMMA MarkMoves ==
  ASSUME tasks \in Seq(Tasks), NEW k \in DOMAIN tasks, NEW s, Mark(k, s)
  PROVE  /\ \A i \in 1..PlanSize :
              Standing(tasks', i) =
                IF i = k /\ tasks[k].brief = "plan" THEN s ELSE Standing(tasks, i)
         /\ s = "in_progress" => Busy(tasks') = Busy(tasks) \cup {k}
         /\ s # "in_progress" => Busy(tasks') = Busy(tasks) \ {k}
<1>1. tasks[k] \in Tasks OBVIOUS
<1> DEFINE t == [tasks[k] EXCEPT !.status = s]
<1>2. t.status = s /\ t.brief = tasks[k].brief BY <1>1 DEF Tasks
<1>3. tasks' = [tasks EXCEPT ![k] = t] BY DEF Mark
<1> HIDE DEF t
<1>4. DOMAIN tasks' = DOMAIN tasks /\ tasks'[k] = t /\ \A i \in DOMAIN tasks \ {k} : tasks'[i] = tasks[i]
  BY <1>3
<1> HIDE DEF Mark
<1>5. \A i \in 1..PlanSize :
        Standing(tasks', i) = IF i = k /\ tasks[k].brief = "plan" THEN s ELSE Standing(tasks, i)
  BY <1>2, <1>4 DEF Standing
<1>6. /\ s = "in_progress" => Busy(tasks') = Busy(tasks) \cup {k}
      /\ s # "in_progress" => Busy(tasks') = Busy(tasks) \ {k}
  BY <1>2, <1>4 DEF Busy
<1> QED BY <1>5, <1>6

\* No dispatch is at the tasks after the step, and none of the plan moved.
LEMMA HandsBack ==
  ASSUME LoopInv, turn' \notin {"build", "task"}, ~BuildArmed', Unmoved(tasks, tasks'),
         row'.stage \in {"priprava", "navrh"} => row.stage \in {"priprava", "navrh"} /\ tasks' = tasks
  PROVE  Promised
<1>1. LoopInv' BY DEF LoopInv
<1>2. ASSUME NEW i \in 1..PlanSize PROVE B(i)!HandBack
  <2>1. Where(i)' = "rest" /\ Standing(tasks, i)' = Standing(tasks, i) BY DEF Where, Unmoved
  <2> QED BY <2>1 DEF B!HandBack
<1> QED BY <1>1, <1>2 DEF Promised, B!Next

\* The row is armed at the build stage, over a rest or under a paused round.
LEMMA Arms ==
  ASSUME LoopInv, tasks \in Seq(Tasks), turn' = turn, ~BuildArmed, BuildArmed',
         \/ tasks' \in {tasks, ResetFailed(tasks)}
         \/ turn = "idle" /\ Unmoved(tasks, tasks')
  PROVE  Promised
<1>1. LoopInv'
  <2>1. row'.stage = "programovanie" BY DEF BuildArmed
  <2>2. turn = "idle" \/ Busy(tasks') = Busy(tasks) BY ResetsMove
  <2> QED BY <2>1, <2>2 DEF LoopInv
<1>2. ASSUME NEW i \in 1..PlanSize PROVE B(i)!Arm
  <2>1. Standing(tasks', i) \in IF Standing(tasks, i) = "failed" THEN {"failed", "todo"} ELSE {Standing(tasks, i)}
    BY ResetsMove DEF Unmoved
  <2>2. Where(i)' = Where(i) BY <2>1 DEF Where
  <2>3. Standing(tasks, i)' = Standing(tasks', i) OBVIOUS
  <2> QED BY <2>1, <2>2, <2>3 DEF B!Arm
<1> QED BY <1>1, <1>2 DEF Promised, B!Next

\* Over a rest the row is armed at the build stage, or not.
LEMMA MovedAtRest ==
  ASSUME LoopInv, tasks \in Seq(Tasks), turn = "idle", turn' = turn, ~BuildArmed, Unmoved(tasks, tasks'),
         row'.stage \in {"priprava", "navrh"} => row.stage \in {"priprava", "navrh"} /\ tasks' = tasks
  PROVE  Promised
BY Arms, HandsBack

LEMMA Stays == ASSUME LoopInv, UNCHANGED <<row, tasks, turn>> PROVE Promised
<1>1. LoopInv' BY DEF LoopInv, Busy
<1>2. \A i \in 1..PlanSize : UNCHANGED B(i)!taskVars BY DEF B!taskVars, BuildArmed, Standing, Where
<1> QED BY <1>1, <1>2 DEF Promised

\* A dispatch enters the build: it takes back what is in progress, and makes the one
\* task of a fast_fix.
LEMMA EntersBuild ==
  ASSUME turn \notin {"build", "task"}, BuildArmed', NEW ts, ts \in Seq(Tasks), Unmoved(tasks, ts),
         Enter("programovanie", ts)
  PROVE  Promised
<1> DEFINE t == [status |-> "todo", brief |-> "plan"]
<1>1. turn' = "build" /\ tasks' = IF flow = "fast_fix" /\ ts = <<>> THEN <<t>> ELSE Reclaimed(ts)
  BY DEF Enter
<1>2. /\ Busy(tasks') = {}
      /\ \A i \in 1..PlanSize :
           Standing(tasks', i) \in CASE Standing(tasks, i) = "in_progress" -> {"todo"}
                                     [] Standing(tasks, i) = "absent" -> {"absent", "todo"}
                                     [] OTHER -> {Standing(tasks, i)}
  <2>1. CASE tasks' = Reclaimed(ts) BY <2>1, ResetsMove DEF Unmoved
  <2>2. CASE ts = <<>> /\ tasks' = <<t>>
    <3>1. DOMAIN <<t>> = 1..1 /\ <<t>>[1].status = "todo" OBVIOUS
    <3>2. \A i \in 1..1 : i = 1 OBVIOUS
    <3>3. Busy(tasks') = {} BY <2>2, <3>1, <3>2 DEF Busy
    <3>4. \A i \in 1..PlanSize : Standing(ts, i) = "absent" BY <2>2 DEF Standing
    <3>5. \A i \in 1..PlanSize : Standing(tasks', i) \in {"absent", "todo"}
      BY <2>2, <3>1, <3>2 DEF Standing
    <3> QED BY <3>3, <3>4, <3>5 DEF Unmoved
  <2> QED BY <1>1, <2>1, <2>2
<1>3. LoopInv' BY <1>1, <1>2 DEF LoopInv, BuildArmed
<1>4. ASSUME NEW i \in 1..PlanSize PROVE B(i)!Enter
  <2>1. Where(i) = "rest" /\ Where(i)' = "round" BY <1>1 DEF Where
  <2>2. Standing(tasks, i)' = Standing(tasks', i) OBVIOUS
  <2> QED BY <1>2, <2>1, <2>2 DEF B!Enter
<1> QED BY <1>3, <1>4 DEF Promised, B!Next

\* A phase that is chained enters its round.
LEMMA ChainPromised ==
  ASSUME NEW r, r.stage \in Stages \ {"done"}, r.status = "agent_working",
         NEW ts, ts \in Seq(Tasks), Unmoved(tasks, ts), Chain(r, ts),
         GateInv', LoopInv, turn \notin {"build", "task"} \/ r.stage # "programovanie",
         r.stage \in {"priprava", "navrh"} => row.stage \in {"priprava", "navrh"} /\ ts = tasks
  PROVE  Promised
<1>1. row' = r /\ Enter(r.stage, ts) BY DEF Chain, GateInv, NeverTrips
<1>2. CASE r.stage = "programovanie"
  <2>1. BuildArmed' BY <1>1, <1>2 DEF BuildArmed
  <2> QED BY <1>1, <1>2, <2>1, EntersBuild
<1>3. CASE r.stage # "programovanie"
  <2>1. turn' \in {r.stage, "smoke"} /\ tasks' = ts BY <1>1, <1>3 DEF Enter
  <2>2. ~BuildArmed' /\ turn' \notin {"build", "task"} BY <1>1, <1>3, <2>1 DEF BuildArmed, Stages
  <2> QED BY <1>1, <2>1, <2>2, HandsBack
<1> QED BY <1>2, <1>3

\* A settle at the boundary of a phase.
LEMMA BoundaryPromised ==
  ASSUME GateInv, GateInv', TasksInv, LoopInv, turn \in {"priprava", "review", "build", "settle"},
         row.status = "agent_working", Boundary
  PROVE  Promised
<1> DEFINE next == NextStage(row.stage, flow)
<1>0. /\ row.stage = Home[turn] /\ RowOK(row) /\ row.stage # "done" /\ Started(row) /\ row \in Rows
      /\ tasks \in Seq(Tasks) /\ Unmoved(tasks, tasks)
  BY DEF GateInv, Owned, Home, Turns, Started, RowOK, TasksInv, Planned, Unmoved
<1>1. CASE ~Continues(row.stage)
  <2>1. row' = SetStatus(row, "awaiting_manazer") /\ turn' = "idle" /\ tasks' = tasks
    BY <1>1 DEF Boundary, Settle
  <2>2. row'.status = "awaiting_manazer" /\ row'.stage = row.stage
    BY <1>0, <2>1, RowWritten DEF Statuses
  <2> QED BY <1>0, <2>1, <2>2, HandsBack DEF BuildArmed
<1>2. CASE Continues(row.stage) /\ next = "done"
  <2>1. row' = Terminal /\ turn' = "idle" /\ tasks' = tasks BY <1>2 DEF Boundary, Settle
  <2>2. row'.stage = "done" BY <1>0, <2>1, TerminalOK
  <2> QED BY <1>0, <2>1, <2>2, HandsBack DEF BuildArmed
<1>3. CASE Continues(row.stage) /\ next # "done"
  <2> DEFINE r == BeginDispatch([row EXCEPT !.stage = next])
  <2>1. Chain(r, tasks) BY <1>3 DEF Boundary
  <2>2. /\ next \in Stages \ {"done"}
        /\ next \in {"priprava", "navrh"} => row.stage = "priprava"
        /\ turn = "build" => next # "programovanie"
    BY <1>0, <1>3 DEF NextStage, Stages, RowOK, Rows, Home, Turns
  <2> HIDE DEF next
  <2>3. r.stage = next /\ r.status = "agent_working" BY <1>0, <2>2, ArmMovedOK
  <2> HIDE DEF r
  <2>4. turn \notin {"build", "task"} \/ r.stage # "programovanie" BY <2>2, <2>3
  <2> QED BY <1>0, <2>1, <2>2, <2>3, <2>4, ChainPromised
<1> QED BY <1>1, <1>2, <1>3

\* A version goes back to programovanie with one more fix, armed or not.
LEMMA FixPromised ==
  ASSUME LoopInv, TasksInv, turn = "idle", turn' = turn, ~BuildArmed,
         NEW brief \in Briefs \ {"plan"}, tasks' = WithFix(brief), row'.stage = "programovanie"
  PROVE  Promised
<1> DEFINE t == [status |-> "todo", brief |-> brief]
<1>1. t \in Tasks /\ t.brief # "plan" /\ tasks \in Seq(Tasks) BY DEF Tasks, TasksInv, Planned
<1>2. tasks' = Append(tasks, t) BY DEF WithFix
<1> HIDE DEF t
<1>3. Unmoved(tasks, tasks') BY <1>1, <1>2, FixesMoveNothing
<1> QED BY <1>1, <1>3, MovedAtRest

\* The row of a version that goes back to its build.
LEMMA BackOK ==
  ASSUME RowOK(row), Started(row)
  PROVE  LET r == [row EXCEPT !.stage = "programovanie", !.actor = "ai_agent"]
         IN  RowOK(r) /\ r.stage = "programovanie"
BY DEF RowOK, Rows, Started, Stages, Actors

LEMMA ManagerPromised ==
  ASSUME GateInv, TasksInv, LoopInv, Manager
  PROVE  Promised
<1>0. /\ RowOK(row) /\ row \in Rows /\ tasks \in Seq(Tasks) /\ Unmoved(tasks, tasks)
      /\ row.stage = "verifikacia" /\ row.status # "agent_working" => turn = "idle"
      /\ row.stage # "programovanie" => turn \notin {"build", "task"}
      /\ ~Started(row) => turn = "idle"
  BY DEF GateInv, RowOK, TasksInv, Planned, Unmoved, Owned, Home, Turns, NeverTrips, Started
<1>1. ASSUME NEW f \in Flows, Start(f) PROVE Promised
  <2>1. turn = "idle" /\ turn' = turn /\ tasks' = tasks /\ row.stage = "priprava" /\ ~BuildArmed
    BY <1>0, <1>1 DEF Start, RowOK, Started, BuildArmed
  <2> QED BY <1>0, <2>1, MovedAtRest
<1>2. CASE ApproveSpec
  <2>1. turn = "idle" /\ turn' = turn /\ tasks' = tasks /\ row.stage = "priprava" /\ ~BuildArmed
    BY <1>2, GuardIdle DEF ApproveSpec, Rearm, BuildArmed
  <2> QED BY <1>0, <2>1, MovedAtRest
<1>3. CASE Schvalit
  <2>1. turn = "idle" /\ turn' = turn /\ tasks' = tasks /\ ~BuildArmed /\ Started(row)
    BY <1>3, GuardIdle DEF Schvalit, BuildArmed
  <2>2. CASE row.stage = "verifikacia"
    <3>1. row'.stage = "done" BY <1>0, <1>3, <2>1, <2>2, TerminalOK DEF Schvalit
    <3> QED BY <1>0, <2>1, <3>1, MovedAtRest
  <2>3. CASE row.stage # "verifikacia"
    <3> DEFINE s == NextStage(row.stage, flow)
    <3>1. s \in Stages \ {"done", "priprava", "navrh"}
      BY <1>3, <2>3 DEF Schvalit, NextStage, Stages
    <3>2. row' = BeginDispatch([row EXCEPT !.stage = s]) BY <1>3, <2>3 DEF Schvalit
    <3> HIDE DEF s
    <3>3. row'.stage = s BY <1>0, <2>1, <3>1, <3>2, ArmMovedOK
    <3> QED BY <1>0, <2>1, <3>1, <3>3, MovedAtRest
  <2> QED BY <2>2, <2>3
<1>4. ASSUME RouteFix, Started(row), turn = "idle", row.status # "agent_working" PROVE Promised
  <2> DEFINE r == [row EXCEPT !.stage = "programovanie", !.actor = "ai_agent"]
  <2>0. RowOK(row) /\ Started(row) BY <1>0, <1>4
  <2>1. RowOK(r) /\ r.stage = "programovanie" BY <2>0, BackOK
  <2>2. row' = BeginDispatch(r) \/ row' = SetStatus(r, "paused") BY <1>4 DEF RouteFix
  <2> HIDE DEF r
  <2>3. row'.stage = "programovanie" BY <2>1, <2>2, RowWritten DEF RowOK, Statuses
  <2>4. tasks' = WithFix("manager") /\ turn' = turn BY <1>4 DEF RouteFix
  <2> QED BY <1>4, <2>3, <2>4, FixPromised DEF BuildArmed, Briefs
<1>5. ASSUME row' = BeginDispatch(row), row.status # "agent_working", turn' = turn,
             tasks' \in {tasks, ResetFailed(tasks)}, tasks' = tasks \/ row.stage = "programovanie"
      PROVE  Promised
  <2>1. ~BuildArmed /\ row'.stage = row.stage
    BY <1>0, <1>5, RowWritten DEF BuildArmed
  <2>2. CASE row.stage = "programovanie"
    <3>1. BuildArmed' BY <1>0, <1>5, <2>1, <2>2, RowWritten DEF BuildArmed
    <3> QED BY <1>0, <1>5, <2>1, <3>1, Arms
  <2>3. CASE row.stage # "programovanie"
    <3>1. turn' \notin {"build", "task"} /\ ~BuildArmed' BY <1>0, <1>5, <2>1, <2>3 DEF BuildArmed
    <3> QED BY <1>0, <1>5, <2>1, <2>3, <3>1, HandsBack
  <2> QED BY <2>2, <2>3
<1>6. CASE Uprav
  <2>1. Started(row) /\ row.status # "agent_working" BY <1>6 DEF Uprav, PassesGuards, AdvancingActions
  <2>2. CASE row.stage = "verifikacia" /\ RouteFix BY <1>0, <1>4, <2>1, <2>2
  <2>3. CASE ~(row.stage = "verifikacia" /\ RouteFix)
    BY <1>5, <1>6, <2>1, <2>3 DEF Uprav, Rearm
  <2> QED BY <2>2, <2>3
<1>7. CASE OveritZnovu
  <2>1. turn = "idle" /\ turn' = turn /\ tasks' = tasks /\ ~BuildArmed /\ Started(row)
    BY <1>7, GuardIdle DEF OveritZnovu, BuildArmed
  <2>2. row' = BeginDispatch([row EXCEPT !.stage = "verifikacia"]) BY <1>7 DEF OveritZnovu
  <2>3. row'.stage = "verifikacia" BY <1>0, <2>1, <2>2, ArmMovedOK DEF Stages
  <2> QED BY <1>0, <2>1, <2>3, MovedAtRest
<1>8. CASE AskOrAnswer
  <2>1. row.status # "agent_working" BY <1>8, GuardIdle DEF AskOrAnswer
  <2> QED BY <1>5, <1>8, <2>1 DEF AskOrAnswer, Rearm
<1>9. CASE DecideAcceptFix BY <1>5, <1>9 DEF DecideAcceptFix, CanDecide, Rearm
<1>10. CASE DecideUpfront
  <2>1. row.status = "blocked" /\ turn' = turn /\ tasks' = tasks BY <1>10 DEF DecideUpfront, CanDecide
  <2>2. CASE row' = BeginDispatch(row) BY <1>5, <2>1, <2>2
  <2>3. CASE row' = row BY <2>1, <2>3, Stays
  <2> QED BY <1>10, <2>2, <2>3 DEF DecideUpfront
<1>11. CASE DecideGuide
  <2>1. Started(row) /\ RouteFix /\ turn = "idle" /\ row.status # "agent_working"
    BY <1>11, GuardIdle DEF DecideGuide, CanDecide
  <2> QED BY <1>4, <2>1
<1>12. CASE VerdictPass
  <2>1. turn = "idle" /\ turn' = turn /\ tasks' = tasks /\ ~BuildArmed /\ row.stage = "verifikacia"
    BY <1>12, GuardIdle DEF VerdictPass, BuildArmed
  <2>2. row'.stage = row.stage BY <1>0, <1>12, RowWritten DEF VerdictPass, Statuses
  <2> QED BY <1>0, <2>1, <2>2, MovedAtRest
<1>13. CASE VerdictFail
  <2>1. turn = "idle" /\ ~BuildArmed /\ row.stage = "verifikacia" /\ Started(row)
    BY <1>13, GuardIdle DEF VerdictFail, BuildArmed
  <2>2. CASE LoopIsSpent
    <3>1. row' = Block(row, "decision_needed") /\ turn' = turn /\ tasks' = tasks
      BY <1>13, <2>1, <2>2 DEF VerdictFail, SettleFailExhausted, Settle
    <3>2. row'.stage = row.stage BY <1>0, <3>1, RowWritten
    <3> QED BY <1>0, <2>1, <3>1, <3>2, MovedAtRest
  <2>3. CASE ~LoopIsSpent
    <3> DEFINE r == [row EXCEPT !.stage = "programovanie", !.actor = "ai_agent"]
    <3>0. RowOK(row) /\ Started(row) BY <1>0, <2>1
    <3>1. RowOK(r) /\ r.stage = "programovanie" BY <3>0, BackOK
    <3>2. row' = BeginDispatch(r) \/ row' = Block(r, "decision_needed")
      BY <1>13, <2>3 DEF VerdictFail
    <3>3. tasks' = WithFix("auditor") /\ turn' = turn BY <1>13, <2>3 DEF VerdictFail
    <3> HIDE DEF r
    <3>4. row'.stage = "programovanie" BY <3>1, <3>2, RowWritten DEF RowOK
    <3> QED BY <2>1, <3>3, <3>4, FixPromised DEF Briefs
  <2> QED BY <2>2, <2>3
<1>14. CASE Pokracovat
  <2>1. row.status # "agent_working" BY <1>14 DEF Pokracovat, PassesGuards, AdvancingActions
  <2> QED BY <1>5, <1>14, <2>1 DEF Pokracovat, Rearm
<1>15. CASE Pause
  <2>1. BuildArmed /\ row' = SetStatus(row, "paused") /\ UNCHANGED <<tasks, turn>>
    BY <1>15 DEF Pause, PassesGuards, BuildArmed
  <2>2. row'.status = "paused" /\ row'.stage = row.stage BY <1>0, <2>1, RowWritten DEF Statuses
  <2>3. LoopInv' BY <2>1, <2>2 DEF LoopInv, Busy
  <2>4. \A i \in 1..PlanSize : B(i)!Pause
    BY <2>1, <2>2 DEF B!Pause, BuildArmed, Standing, Where
  <2> QED BY <2>3, <2>4 DEF Promised, B!Next
<1> QED BY <1>1, <1>2, <1>3, <1>6, <1>7, <1>8, <1>9, <1>10, <1>11, <1>12, <1>13, <1>14, <1>15 DEF Manager

\* The dispatch works at a task of the plan, or at a fix, which is none of its tasks.
LEMMA TaskPromised ==
  ASSUME GateInv, TasksInv, LoopInv, BuildPicksTask \/ TaskDone \/ TaskFails
  PROVE  Promised
<1>0. /\ row \in Rows /\ Planned(tasks) /\ tasks \in Seq(Tasks) /\ DOMAIN tasks = 1..Len(tasks)
      /\ turn \in {"build", "task"} => row.stage = "programovanie"
  BY DEF GateInv, RowOK, TasksInv, Planned, Owned, Home, Turns
<1>1. CASE BuildPicksTask
  <2>1. turn = "build" /\ turn' = "task" /\ row' = row /\ BuildArmed
    BY <1>0, <1>1 DEF BuildPicksTask, Goes, BuildArmed
  <2>2. PICK k \in TodoOf(tasks) : Mark(k, "in_progress") BY <1>1 DEF BuildPicksTask
  <2>3. k \in DOMAIN tasks /\ tasks[k].status = "todo" BY <2>2 DEF TodoOf
  <2>4. Busy(tasks) = {} BY <2>1 DEF LoopInv
  <2>5. /\ Busy(tasks') = {k}
        /\ \A i \in 1..PlanSize :
             Standing(tasks', i) =
               IF i = k /\ tasks[k].brief = "plan" THEN "in_progress" ELSE Standing(tasks, i)
    BY <1>0, <2>2, <2>3, <2>4, MarkMoves
  <2>6. LoopInv' BY <1>0, <2>1, <2>5 DEF LoopInv
  <2>7. ASSUME NEW i \in 1..PlanSize PROVE [B(i)!Next]_(B(i)!taskVars)
    <3>1. Standing(tasks, i) # "in_progress" BY <2>4 DEF Busy, Standing
    <3>2. Where(i) = "round" /\ BuildArmed' BY <2>1, <3>1 DEF Where, BuildArmed
    <3>3. CASE i = k /\ tasks[k].brief = "plan"
      <4>1. Standing(tasks, i) = "todo" /\ Standing(tasks', i) = "in_progress" /\ Where(i)' = "turn"
        BY <2>1, <2>3, <2>5, <3>3 DEF Standing, Where
      <4> QED BY <2>1, <3>2, <4>1 DEF B!Next, B!Pick
    <3>4. CASE ~(i = k /\ tasks[k].brief = "plan")
      <4>1. Standing(tasks', i) = Standing(tasks, i) BY <2>5, <3>4
      <4>2. Where(i)' = "round" BY <2>1, <3>1, <4>1 DEF Where
      <4> QED BY <2>1, <3>2, <4>1, <4>2 DEF B!taskVars
    <3> QED BY <3>3, <3>4
  <2> QED BY <2>6, <2>7 DEF Promised
<1>2. CASE TaskDone
  <2>1. turn = "task" /\ turn' = "build" /\ row' = row BY <1>2 DEF TaskDone, Goes
  <2>2. PICK k \in Current : IF tasks[k].brief = "plan" THEN Mark(k, "done") ELSE tasks' = Without(k)
    BY <1>2 DEF TaskDone
  <2>3. k \in DOMAIN tasks /\ tasks[k].status = "in_progress" BY <2>2 DEF Current
  <2>4. Busy(tasks) = {k}
    <3>1. k \in Busy(tasks) BY <2>3 DEF Busy
    <3> QED BY <2>1, <3>1 DEF LoopInv
  <2>5. /\ Busy(tasks') = {}
        /\ \A i \in 1..PlanSize :
             Standing(tasks', i) =
               IF i = k /\ tasks[k].brief = "plan" THEN "done" ELSE Standing(tasks, i)
    <3>1. CASE tasks[k].brief = "plan" BY <1>0, <2>2, <2>3, <2>4, <3>1, MarkMoves
    <3>2. CASE tasks[k].brief # "plan"
      BY <1>0, <2>2, <2>3, <2>4, <3>2, DoneFixMovesNothing DEF Unmoved
    <3> QED BY <3>1, <3>2
  <2>6. LoopInv' BY <1>0, <2>1, <2>5 DEF LoopInv
  <2>7. ASSUME NEW i \in 1..PlanSize PROVE [B(i)!Next]_(B(i)!taskVars)
    <3>1. Where(i)' = "round" BY <2>1 DEF Where
    <3>2. BuildArmed' = BuildArmed BY <2>1 DEF BuildArmed
    <3>3. CASE i = k /\ tasks[k].brief = "plan"
      <4>1. Standing(tasks, i) = "in_progress" /\ Standing(tasks', i) = "done" /\ Where(i) = "turn"
        BY <2>1, <2>3, <2>5, <3>3 DEF Standing, Where
      <4> QED BY <3>1, <3>2, <4>1 DEF B!Next, B!Done
    <3>4. CASE ~(i = k /\ tasks[k].brief = "plan")
      <4>1. Standing(tasks', i) = Standing(tasks, i) BY <2>5, <3>4
      <4>2. Standing(tasks, i) # "in_progress" BY <2>4, <3>4 DEF Busy, Standing
      <4>3. Where(i) = "round" BY <2>1, <4>2 DEF Where
      <4> QED BY <3>1, <3>2, <4>1, <4>3 DEF B!taskVars
    <3> QED BY <3>3, <3>4
  <2> QED BY <2>6, <2>7 DEF Promised
<1>3. CASE TaskFails
  <2>1. turn = "task" /\ turn' = "idle" /\ row' = SetStatus(row, "awaiting_manazer")
    BY <1>3 DEF TaskFails, Settle
  <2>2. row'.status = "awaiting_manazer" /\ row'.stage = "programovanie"
    BY <1>0, <2>1, RowWritten DEF Statuses
  <2>3. PICK k \in Current : Mark(k, "failed") BY <1>3 DEF TaskFails
  <2>4. k \in DOMAIN tasks /\ tasks[k].status = "in_progress" BY <2>3 DEF Current
  <2>5. \A i \in 1..PlanSize :
          Standing(tasks', i) =
            IF i = k /\ tasks[k].brief = "plan" THEN "failed" ELSE Standing(tasks, i)
    BY <1>0, <2>3, <2>4, MarkMoves
  <2>6. LoopInv' BY <2>1, <2>2 DEF LoopInv
  <2>7. ASSUME NEW i \in 1..PlanSize PROVE B(i)!Next
    <3>1. Where(i)' = "rest" /\ ~BuildArmed' BY <2>1, <2>2 DEF Where, BuildArmed
    <3>2. CASE i = k /\ tasks[k].brief = "plan"
      <4>1. Standing(tasks, i) = "in_progress" /\ Standing(tasks', i) = "failed" /\ Where(i) = "turn"
        BY <2>1, <2>4, <2>5, <3>2 DEF Standing, Where
      <4> QED BY <3>1, <4>1 DEF B!Next, B!Fail
    <3>3. CASE ~(i = k /\ tasks[k].brief = "plan")
      <4>1. Standing(tasks', i) = Standing(tasks, i) BY <2>5, <3>3
      <4> QED BY <3>1, <4>1 DEF B!Next, B!HandBack
    <3> QED BY <3>2, <3>3
  <2> QED BY <2>6, <2>7 DEF Promised
<1> QED BY <1>1, <1>2, <1>3

LEMMA EnginePromised ==
  ASSUME GateInv, GateInv', TasksInv, LoopInv, Engine
  PROVE  Promised
<1>0. /\ row \in Rows /\ RowOK(row) /\ tasks \in Seq(Tasks) /\ Unmoved(tasks, tasks)
      /\ turn \in DOMAIN Home => row.stage = Home[turn]
      /\ row.stage # "done" \/ turn = "idle"
  BY DEF GateInv, RowOK, TasksInv, Planned, Unmoved, Owned, Home, Turns, NeverTrips
<1>1. CASE StartTurn
  <2>1. turn = "idle" /\ row' = row /\ row.status = "agent_working" /\ Enter(row.stage, tasks)
    BY <1>1 DEF StartTurn
  <2>2. CASE row.stage = "programovanie"
    <3>1. BuildArmed' BY <2>1, <2>2 DEF BuildArmed
    <3> QED BY <1>0, <2>1, <2>2, <3>1, EntersBuild
  <2>3. CASE row.stage # "programovanie"
    <3>1. turn' \in {row.stage, "smoke"} /\ tasks' = tasks BY <2>1, <2>3 DEF Enter
    <3>2. turn' \notin {"build", "task"} /\ ~BuildArmed'
      BY <1>0, <2>1, <2>3, <3>1 DEF BuildArmed, Rows, Stages
    <3> QED BY <1>0, <2>1, <3>1, <3>2, HandsBack
  <2> QED BY <2>2, <2>3
<1>2. ASSUME NEW r, Rest(r), r.stage = row.stage, r.status # "agent_working" PROVE Promised
  <2>1. row' = r /\ tasks' = tasks /\ turn' = "idle" BY <1>2 DEF Rest, Settle
  <2>2. ~BuildArmed' BY <1>2, <2>1 DEF BuildArmed
  <2> QED BY <1>0, <1>2, <2>1, <2>2, HandsBack
<1>3. /\ \A reason : Block(row, reason).stage = row.stage /\ Block(row, reason).status # "agent_working"
      /\ \A v \in {"awaiting_manazer", "paused"} :
           SetStatus(row, v).stage = row.stage /\ SetStatus(row, v).status # "agent_working"
  BY <1>0, RowWritten DEF Statuses
<1>4. CASE PripravaStops \/ NavrhStops \/ PlanStops \/ ConsultFallsBack \/ BuildRests \/ TaskStops
           \/ AuditorUnreadable
  <2>1. \E r : Rest(r) /\ ((r = row /\ row.status # "agent_working") \/ r = SetStatus(row, "awaiting_manazer")
                           \/ r = SetStatus(row, "paused") \/ \E reason : r = Block(row, reason))
    BY <1>4 DEF PripravaStops, NavrhStops, PlanStops, ConsultFallsBack, BuildRests, TaskStops,
                AuditorUnreadable, ParseExhausted, FrameworkIssue
  <2>2. PICK r : Rest(r) /\ ((r = row /\ row.status # "agent_working") \/ r = SetStatus(row, "awaiting_manazer")
                           \/ r = SetStatus(row, "paused") \/ \E reason : r = Block(row, reason))
    BY <2>1
  <2>3. r.stage = row.stage /\ r.status # "agent_working" BY <1>3, <2>2
  <2> QED BY <1>2, <2>2, <2>3
<1>5. ASSUME turn \in DOMAIN Home \ {"build", "task"}, turn' \notin {"build", "task"}, UNCHANGED <<row, tasks>>
      PROVE  Promised
  <2>1. ~BuildArmed' BY <1>0, <1>5 DEF BuildArmed, Home, Turns
  <2> QED BY <1>0, <1>5, <2>1, HandsBack
<1>6. CASE PripravaDone
  <2>1. turn = "priprava" BY <1>6 DEF PripravaDone
  <2>2. row.status = "agent_working" BY <2>1 DEF GateInv, Owned, Home, Turns
  <2>3. CASE Boundary BY <2>1, <2>2, <2>3, BoundaryPromised
  <2>4. CASE Rest(Block(row, "agent_error")) BY <1>2, <1>3, <2>4
  <2> QED BY <1>6, <2>3, <2>4 DEF PripravaDone
<1>7. CASE NavrhDesigned
  <2>1. turn = "navrh" /\ turn \in DOMAIN Home BY <1>7 DEF NavrhDesigned, Home, Turns
  <2>2. CASE Goes("plan") /\ tasks' = tasks BY <1>5, <2>1, <2>2 DEF Goes
  <2>3. CASE Rest(Block(row, "agent_error")) BY <1>2, <1>3, <2>3
  <2> QED BY <1>7, <2>2, <2>3 DEF NavrhDesigned
<1>8. CASE PlanWritten
  <2>1. turn = "plan" /\ turn' = "review" /\ row' = row BY <1>8 DEF PlanWritten, Goes
  <2>2. row.stage = "navrh" BY <1>0, <2>1 DEF Home, Turns
  <2>3. PICK n \in 1..PlanSize : tasks' = [i \in 1..n |-> [status |-> "todo", brief |-> "plan"]]
    BY <1>8 DEF PlanWritten
  <2>4. \A i \in DOMAIN tasks' : tasks'[i].status = "todo" BY <2>3
  <2>5. LoopInv' BY <2>1, <2>4 DEF LoopInv
  <2>6. ASSUME NEW i \in 1..PlanSize PROVE B(i)!Plan
    <3>1. Standing(tasks, i) \in {"absent", "todo"} BY <2>2 DEF LoopInv, Standing
    <3>2. Standing(tasks', i) \in {"absent", "todo"} BY <2>4 DEF Standing
    <3>3. Where(i) = "rest" /\ Where(i)' = "rest" BY <2>1 DEF Where
    <3>4. ~BuildArmed /\ BuildArmed' = BuildArmed BY <2>1, <2>2 DEF BuildArmed
    <3>5. Standing(tasks, i)' = Standing(tasks', i) OBVIOUS
    <3> QED BY <3>1, <3>2, <3>3, <3>4, <3>5 DEF B!Plan
  <2> QED BY <2>5, <2>6 DEF Promised, B!Next
<1>9. CASE ReviewClean
  <2>1. turn = "review" /\ Boundary BY <1>9 DEF ReviewClean
  <2>2. row.status = "agent_working" BY <2>1 DEF GateInv, Owned, Home, Turns
  <2> QED BY <2>1, <2>2, BoundaryPromised
<1>10. CASE ReviewFindsHole \/ Smoke \/ BootVerdict \/ Acceptance \/ AuditorAnswers \/ VerdictRecorded \/ Critic
  <2>1. /\ turn \in {"review", "smoke", "boot_verdict", "acceptance", "audit", "verdict", "no_verdict", "critic"}
        /\ turn' \notin {"build", "task"} /\ UNCHANGED <<row, tasks>>
    BY <1>10 DEF ReviewFindsHole, Smoke, BootVerdict, Acceptance, AuditorAnswers, VerdictRecorded, Critic, Goes
  <2> QED BY <1>5, <2>1 DEF Home, Turns
<1>11. CASE ConsultCard
  <2>1. row' = Block(row, "decision_needed") /\ tasks' = tasks /\ turn' = "idle"
    BY <1>11 DEF ConsultCard, Settle
  <2>2. row'.stage = row.stage /\ ~BuildArmed' BY <1>3, <2>1 DEF BuildArmed
  <2> QED BY <1>0, <2>1, <2>2, HandsBack
<1>12. CASE BuildCompletes
  BY <1>12, BoundaryPromised DEF BuildCompletes
<1>13. CASE BuildPicksTask \/ TaskDone \/ TaskFails BY <1>13, TaskPromised
<1>14. CASE SettlePass
  <2>1. turn = "settle" /\ Boundary BY <1>14 DEF SettlePass
  <2>2. row.status = "agent_working" BY <2>1 DEF GateInv, Owned, Home, Turns
  <2> QED BY <2>1, <2>2, BoundaryPromised
<1>15. CASE SettleFailed
  <2>1. turn = "settle" /\ Started(row)
    BY <1>15 DEF SettleFailed, GateInv, Owned, Home, Turns, Started
  <2>2. CASE LoopIsSpent
    <3>1. row' = Block(row, "decision_needed") /\ tasks' = tasks /\ turn' = "idle"
      BY <1>15, <2>2 DEF SettleFailed, SettleFailExhausted, Settle
    <3>2. row'.stage = row.stage /\ ~BuildArmed' BY <1>3, <3>1 DEF BuildArmed
    <3> QED BY <1>0, <3>1, <3>2, HandsBack
  <2>3. CASE ~LoopIsSpent
    <3> DEFINE r == [row EXCEPT !.stage = "programovanie", !.actor = "ai_agent"]
               t == [status |-> "todo", brief |-> IF vetted THEN "vetted" ELSE "auditor"]
               ts == Append(tasks, t)
               armed == BeginDispatch(r)
    <3>1. RowOK(row) /\ Started(row) BY <1>0, <2>1
    <3>2. RowOK(r) /\ r.stage = "programovanie" BY <3>1, BackOK
    <3>3. Chain(armed, ts) \/ (row' = Block(r, "decision_needed") /\ tasks' = ts /\ turn' = "idle")
      BY <1>15, <2>3 DEF SettleFailed, SettleFail, Settle, WithFix
    <3>4. t \in Tasks /\ t.brief # "plan" BY DEF Tasks, Briefs
    <3> HIDE DEF r, t
    <3>5. Unmoved(tasks, ts) /\ ts \in Seq(Tasks) BY <1>0, <3>4, FixesMoveNothing
    <3>6. /\ armed.stage = "programovanie" /\ armed.status = "agent_working"
          /\ Block(r, "decision_needed").stage = "programovanie"
          /\ Block(r, "decision_needed").status # "agent_working"
      BY <3>2, RowWritten DEF RowOK
    <3> HIDE DEF ts, armed
    <3>7. CASE Chain(armed, ts) BY <2>1, <3>5, <3>6, <3>7, ChainPromised DEF Stages
    <3>8. CASE row' = Block(r, "decision_needed") /\ tasks' = ts /\ turn' = "idle"
      <4>1. ~BuildArmed' /\ row'.stage = "programovanie" BY <3>6, <3>8 DEF BuildArmed
      <4> QED BY <3>5, <3>8, <4>1, HandsBack
    <3> QED BY <3>3, <3>7, <3>8
  <2> QED BY <2>2, <2>3
<1> QED BY <1>1, <1>4, <1>6, <1>7, <1>8, <1>9, <1>10, <1>11, <1>12, <1>13, <1>14, <1>15 DEF Engine

LEMMA PromiseNext ==
  ASSUME GateInv, GateInv', TasksInv, LoopInv, [Next]_vars
  PROVE  Promised
<1>1. CASE HeadMoves \/ UNCHANGED vars BY <1>1, Stays DEF HeadMoves, vars
<1>2. CASE Crash \/ Restart
  <2>1. row \in Rows /\ Unmoved(tasks, tasks) BY DEF GateInv, RowOK, Unmoved
  <2>2. /\ row'.stage = row.stage /\ row'.status # "agent_working" /\ tasks' = tasks /\ turn' = "idle"
    BY <1>2, <2>1, RowWritten DEF Crash, Restart, Rest, Settle, Statuses
  <2> QED BY <2>1, <2>2, HandsBack DEF BuildArmed
<1> QED BY <1>1, <1>2, ManagerPromised, EnginePromised DEF Next

\* Whatever the phases, the verdicts, the fixes, the pauses and the restarts around it,
\* every task of the plan moves as the build stage promises (_run_build_round,
\* _next_todo_task): a step of the version is one of module BuildTask for each, or none.
THEOREM PlanKeepsPromise == Spec => PlanIsBuilt
<1>1. Init => LoopInv /\ \A i \in 1..PlanSize : B(i)!Init
  BY DEF Init, NoRow, LoopInv, Busy, B!Init, BuildArmed, Standing, Where
<1>2. GateInv /\ GateInv' /\ TasksInv /\ LoopInv /\ [Next]_vars =>
        /\ LoopInv'
        /\ [\A i \in 1..PlanSize : [B(i)!Next]_(B(i)!taskVars)]_vars
  BY PromiseNext DEF Promised
<1> QED BY <1>1, <1>2, Phased, TasksStayPlanned, PTL DEF Spec, PlanIsBuilt
=============================================================================
