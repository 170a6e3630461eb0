---------------------------- MODULE PipelineRow ----------------------------
(***************************************************************************)
(* The row of table pipeline_state that belongs to one version, with the   *)
(* column values, the set-listeners the ORM fires on every write of        *)
(* status, and the one helper through which every turn is armed.           *)
(***************************************************************************)

Stages       == {"priprava", "navrh", "programovanie", "verifikacia", "done"}
Actors       == {"ai_agent", "auditor"}
Statuses     == {"agent_working", "awaiting_manazer", "blocked", "paused", "done"}
BlockReasons == {"agent_question", "decision_needed", "agent_error",
                 "system_error", "parse_exhaustion", "framework_issue"}
NoReason     == "none"

\* status "absent" stands for a version that has no pipeline_state row yet.
Rows == [stage : Stages, actor : Actors, status : Statuses \cup {"absent"},
         block_reason : BlockReasons \cup {NoReason}, in_flight : BOOLEAN]

NoRow == [stage |-> "priprava", actor |-> "ai_agent", status |-> "absent",
          block_reason |-> NoReason, in_flight |-> FALSE]

\* The row a successful start inserts, before it is armed.
NewRow == [NoRow EXCEPT !.status = "agent_working"]

Started(row) == row.status # "absent"

\* STAGE_ACTOR: the agent on turn; the terminal stage has none.
StageActor ==
  [s \in Stages \ {"done"} |-> IF s = "verifikacia" THEN "auditor" ELSE "ai_agent"]

-----------------------------------------------------------------------------
(* The set-listeners on PipelineState.status *)

\* _clear_dispatch_on_settle: a status other than agent_working drops the flag.
ClearDispatchOnSettle(row, value) ==
  IF value = "agent_working" THEN row ELSE [row EXCEPT !.in_flight = FALSE]

\* _clear_block_reason_on_unblock: a status other than blocked drops the reason.
ClearBlockReasonOnUnblock(row, value) ==
  IF value = "blocked" THEN row ELSE [row EXCEPT !.block_reason = NoReason]

\* state.status = value.  The listeners do nothing when the value is unchanged.
SetStatus(row, value) ==
  IF row.status = value THEN row
  ELSE [ClearBlockReasonOnUnblock(ClearDispatchOnSettle(row, value), value)
          EXCEPT !.status = value]

\* state.status = "blocked"; state.block_reason = reason.
Block(row, reason) == [SetStatus(row, "blocked") EXCEPT !.block_reason = reason]

\* _begin_dispatch: arm the actor of the current stage; a no-op on the terminal stage.
BeginDispatch(row) ==
  IF row.stage = "done" THEN row
  ELSE SetStatus([row EXCEPT !.in_flight = TRUE, !.actor = StageActor[row.stage]],
                 "agent_working")

-----------------------------------------------------------------------------
(* The guards every Manager action passes before its own handler *)

AdvancingActions == {"approve_spec", "schvalit", "uprav", "verdict", "pokracovat"}

\* Slip: the single-flight guard is missing.
GuardsWithoutSingleFlight(row, action) ==
  /\ Started(row)
  /\ action \in AdvancingActions => row.status \in {"awaiting_manazer", "blocked", "paused"}
  /\ action = "answer" => row.status = "blocked"
  /\ action = "pause" => row.status = "agent_working" /\ row.stage = "programovanie"
  /\ row.status = "paused" => action \in {"pokracovat", "uprav"}

\* Slip: the guard of the paused status is missing.
GuardsWithoutPaused(row, action) ==
  /\ Started(row)
  /\ action \in AdvancingActions => row.status \in {"awaiting_manazer", "blocked", "paused"}
  /\ action = "answer" => row.status = "blocked"
  /\ action = "pause" => row.status = "agent_working" /\ row.stage = "programovanie"
  /\ row.in_flight => action = "pause"

\* The five status guards at the head of apply_action.
PassesGuards(row, action) ==
  /\ Started(row)
  /\ action \in AdvancingActions => row.status \in {"awaiting_manazer", "blocked", "paused"}
  /\ action = "answer" => row.status = "blocked"
  /\ action = "pause" => row.status = "agent_working" /\ row.stage = "programovanie"
  /\ row.status = "paused" => action \in {"pokracovat", "uprav"}
  /\ row.in_flight => action = "pause"

\* determine_available_actions: what the board may offer, from the row alone.
DetermineAvailableActions(row) ==
  CASE row.status = "agent_working" ->
         IF row.stage = "programovanie" THEN {"pause"} ELSE {}
    [] row.status = "done"   -> {}
    [] row.status = "paused" -> {"pokracovat", "uprav"}
    [] row.status = "blocked" /\ row.block_reason = "framework_issue" -> {"nahlasit_znova"}
    [] row.status = "blocked" /\ row.block_reason = "decision_needed" -> {"decide", "ask"}
    [] row.status = "blocked" /\ row.block_reason \notin {"framework_issue", "decision_needed"} ->
         {"ask", "uprav", "answer"}
    [] row.status = "awaiting_manazer" ->
         {"ask", "uprav"} \cup
         CASE row.stage = "priprava" ->
                {"approve_spec", "zostav_plan", "spustit_stavbu", "skontrolovat", "hotovo"}
           [] row.stage \in {"navrh", "programovanie"} -> {"schvalit"}
           [] row.stage = "verifikacia" -> {"verdict", "schvalit"}
           [] OTHER -> {}
    [] OTHER -> {}

\* _ACTIONS: the verbs apply_action knows; any other is refused as unknown.
KnownActions == {"start", "approve_spec", "schvalit", "uprav", "pokracovat", "verdict",
                 "ask", "answer", "pause", "decide", "overit_znovu", "zostav_plan",
                 "spustit_stavbu", "skontrolovat", "hotovo"}
=============================================================================
