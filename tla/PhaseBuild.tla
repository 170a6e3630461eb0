----------------------------- MODULE PhaseBuild -----------------------------
(***************************************************************************)
(* One version built in the phase automaton (mode NULL): priprava, navrh,  *)
(* programovanie, verifikacia, done for a new_version; the same without    *)
(* navrh, and without the Manager, for a fast_fix.  The Auditor judges at  *)
(* verifikacia; a FAIL is looped back to programovanie as one fix task, at *)
(* most AUDITOR_LOOP_MAX times before the Manager must steer.              *)
(*                                                                         *)
(* Grain and conventions are those of module Conversation: one action is   *)
(* one stretch between two commits, and a definition commented as a slip   *)
(* is not part of the model.  Left out: the relay channel and the          *)
(* consultation of a finished version (module Conversation has both), and  *)
(* is_regate, which only chooses the text of a task's first brief.         *)
(***************************************************************************)
EXTENDS Naturals, Sequences, PipelineRow

CONSTANTS
  PlanSize,          \* the largest task plan considered
  FixCap,            \* bound on the fix tasks that are open beside a plan of that size
  AUDITOR_LOOP_MAX,  \* fix rounds the engine may start on its own
  Commits,           \* the commits HEAD of the project checkout may point to
  Bootable,          \* those whose application boots
  NoSha,             \* HEAD could not be read
  CanRestart,        \* whether the backend process may be restarted
  CanCrash,          \* whether a turn may raise an unexpected exception
  TokenStop          \* whether programovanie_token_stop_millions is set

ASSUME PhaseAssumption ==
  /\ PlanSize \in Nat \ {0} /\ FixCap \in Nat \ {0} /\ AUDITOR_LOOP_MAX \in Nat
  /\ Bootable \subseteq Commits /\ NoSha \notin Commits
  /\ {CanRestart, CanCrash, TokenStop} \subseteq BOOLEAN

Flows == {"new_version", "fast_fix"}

\* What a task was made from: the plan, or a fix brief - the Auditor's own, the
\* one the critic vetted, the Manager's.
Briefs == {"plan", "auditor", "vetted", "manager"}
Tasks  == [status : {"todo", "in_progress", "done", "failed"}, brief : Briefs]

\* The latest of the verdicts and returns of verifikacia; "raw" is an Auditor's
\* message whose canonical verdict is not recorded yet.
Judgements == {"none", "raw", "PASS", "FAIL", "return"}

\* The latest consultation card: who asked, keys not answered yet, and whether
\* it offers the prepared fix.
Cards  == [source : {"none", "auditor_upfront", "verifikacia_fix", "verifikacia_fail"},
           left : 0..2, vetted : BOOLEAN]
NoCard == [source |-> "none", left |-> 0, vetted |-> FALSE]

Turns == {"idle", "priprava", "navrh", "plan", "review", "consult", "build", "task",
          "smoke", "boot_verdict", "acceptance", "audit", "verdict", "no_verdict", "critic", "settle",
          "tripped"}

VARIABLES
  row,         \* the pipeline_state row
  flow,        \* its flow_type
  iteration,   \* its iteration: fix rounds since the Manager last steered
  tasks,       \* the tasks of the version in plan order
  judged,      \* latest judgement of verifikacia
  sha,         \* verified_sha of that judgement, NoSha when it has none
  vetted,      \* an accept or narrow fix_critique is newer than the latest verdict
  smoke,       \* latest boot evidence
  acceptance,  \* latest acceptance evidence; a skipped run is not red
  card,        \* latest consultation
  consults,    \* consultations held, up to the cap
  turn,        \* program point of the dispatch task
  chain,       \* phases the runner has chained in this dispatch
  head         \* HEAD of the project checkout

evidence == <<judged, sha, vetted, smoke, acceptance>>
cards    == <<card, consults>>
vars     == <<row, flow, iteration, tasks, evidence, cards, turn, chain, head>>

-----------------------------------------------------------------------------
(* The order of phases and the dial *)

STAGE_ORDER          == <<"priprava", "navrh", "programovanie", "verifikacia", "done">>
FAST_FIX_STAGE_ORDER == <<"priprava", "programovanie", "verifikacia", "done">>

StageOrderFor(f) == IF f = "fast_fix" THEN FAST_FIX_STAGE_ORDER ELSE STAGE_ORDER

\* _next_stage: the phase after this one on the path of the flow.
NextStage(stage, f) ==
  CASE stage = "priprava" -> IF f = "fast_fix" THEN "programovanie" ELSE "navrh"
    [] stage = "navrh" -> "programovanie"
    [] stage = "programovanie" -> "verifikacia"
    [] OTHER -> "done"

\* The next phase of a flow is the next entry of its order, clamped at the end.
ASSUME NextStageFollowsOrder ==
  \A f \in Flows : \A i \in 1..Len(StageOrderFor(f)) :
    NextStage(StageOrderFor(f)[i], f) =
      StageOrderFor(f)[IF i = Len(StageOrderFor(f)) THEN i ELSE i + 1]

MIERA_AUTONOMIE_VALUES == {"plna", "len_na_konci", "pri_klucovych_bodoch", "po_kazdej_faze"}

\* _DIAL_STOP_BOUNDARIES and dial_stops_at.
dial_stops_at(level, boundary) ==
  boundary \in CASE level = "plna" -> {}
                 [] level = "len_na_konci" -> {"verifikacia"}
                 [] level = "pri_klucovych_bodoch" -> {"navrh", "verifikacia"}
                 [] OTHER -> {"navrh", "programovanie", "verifikacia"}

\* resolve_miera_autonomie: a fast_fix is at full autonomy whatever the layers say.
Levels(f) == IF f = "fast_fix" THEN {"plna"} ELSE MIERA_AUTONOMIE_VALUES

\* Slip: only the phases are budgeted, not the rounds of the Auditor.
ChainLimitWithoutLoop == Len(STAGE_ORDER)

\* auto_chain_limit
auto_chain_limit == Len(STAGE_ORDER) + 2 * AUDITOR_LOOP_MAX

-----------------------------------------------------------------------------
(* Queries *)

verifikacia_passed == judged = "PASS"

\* version_verified of a version without a signature.
sha_drift == verifikacia_passed /\ sha # NoSha /\ sha # head

\* _latest_runtime_floor_red
runtime_floor_red == smoke = "red" \/ (smoke = "green" /\ acceptance = "red")

Open(ts)    == \E i \in DOMAIN ts : ts[i].status \in {"failed", "in_progress"}
TodoOf(ts)  == {i \in DOMAIN ts : ts[i].status = "todo"}
plan_exists == tasks # <<>>

ResetFailed(ts) ==
  [i \in DOMAIN ts |-> IF ts[i].status = "failed" THEN [ts[i] EXCEPT !.status = "todo"] ELSE ts[i]]
Reclaimed(ts) ==
  [i \in DOMAIN ts |-> IF ts[i].status = "in_progress" THEN [ts[i] EXCEPT !.status = "todo"] ELSE ts[i]]

\* The model keeps the tasks of the plan, and the fixes until they are done: what
\* the code asks of the tasks is where one is open, and the plan always has one.
HasRoom == Len(tasks) < PlanSize + FixCap

\* Slip: the whole build is put back with the fix (the gate_g reset of v1).
WithFixOverAll(brief) ==
  Append([i \in DOMAIN tasks |-> [tasks[i] EXCEPT !.status = "todo"]],
         [status |-> "todo", brief |-> brief])

\* _ensure_verifikacia_fix_task: a fresh task behind all others.
WithFix(brief) == Append(tasks, [status |-> "todo", brief |-> brief])

\* The tasks without one of them.
Without(i) == [j \in 1..(Len(tasks) - 1) |-> tasks[IF j < i THEN j ELSE j + 1]]

-----------------------------------------------------------------------------
(* Building blocks *)

\* The dispatch enters the round of a stage.  The build round reclaims the task
\* a dead dispatch left in progress; a fast_fix gets its one task there.
Enter(stage, ts) ==
  CASE stage = "programovanie" ->
         /\ turn' = "build"
         /\ tasks' = IF flow = "fast_fix" /\ ts = <<>>
                     THEN <<[status |-> "todo", brief |-> "plan"]>> ELSE Reclaimed(ts)
    [] stage = "verifikacia" -> turn' = "smoke" /\ tasks' = ts
    [] OTHER -> turn' = stage /\ tasks' = ts

\* The dispatch ends: nothing is chained.
Settle(r) == row' = r /\ turn' = "idle" /\ chain' = 0

\* The round has armed the next phase: the runner chains it in the same task,
\* as long as the backstop allows; past it the row would stay agent_working.
Chain(r, ts) ==
  /\ row' = r
  /\ IF chain < auto_chain_limit
     THEN chain' = chain + 1 /\ Enter(r.stage, ts)
     ELSE chain' = 0 /\ turn' = "tripped" /\ tasks' = ts

\* Slip: the dial lets a new_version cross a boundary too.
ContinuesByDial(stage) ==
  \E level \in Levels(flow) :
    /\ stage \in {"priprava", "navrh", "programovanie", "verifikacia"}
    /\ ~dial_stops_at(level, stage)
    /\ stage = "priprava" => flow = "fast_fix"
    /\ stage = "verifikacia" => verifikacia_passed

\* _settle_phase_boundary goes on: only for a fast_fix, where the dial lets it,
\* and past verifikacia only over a recorded PASS.
Continues(stage) ==
  /\ flow = "fast_fix"
  /\ stage = "priprava" \/ \E level \in Levels(flow) : ~dial_stops_at(level, stage)
  /\ stage = "verifikacia" => verifikacia_passed

Terminal == SetStatus([row EXCEPT !.stage = "done", !.actor = "ai_agent"], "done")

\* A phase produced its final output: chain the next one, or rest.
Boundary ==
  LET next == NextStage(row.stage, flow) IN
  IF ~Continues(row.stage)
  THEN Settle(SetStatus(row, "awaiting_manazer")) /\ tasks' = tasks
  ELSE IF next = "done"
       THEN Settle(Terminal) /\ tasks' = tasks
       ELSE Chain(BeginDispatch([row EXCEPT !.stage = next]), tasks)

-----------------------------------------------------------------------------
(* Manager actions: apply_action for a version with mode NULL *)

\* One start per version; a fast_fix is armed by its own route with its flow.
Start(f) ==
  /\ ~Started(row)
  /\ row' = BeginDispatch(NewRow) /\ flow' = f
  /\ UNCHANGED <<iteration, tasks, evidence, cards, turn, chain, head>>

\* The Manager re-arms the round of the phase.
Rearm(r) ==
  /\ row' = BeginDispatch(r)
  /\ UNCHANGED <<flow, iteration, evidence, cards, turn, chain, head>>

ApproveSpec ==
  /\ PassesGuards(row, "approve_spec") /\ row.stage = "priprava"
  /\ Rearm([row EXCEPT !.stage = NextStage("priprava", flow)])
  /\ UNCHANGED tasks

\* Slip: the sign-off does not ask for a PASS over the code of today.
SchvalitWithoutVerdict ==
  /\ PassesGuards(row, "schvalit") /\ row.stage \in {"navrh", "programovanie", "verifikacia"}
  /\ row.stage = "navrh" => plan_exists
  /\ row.stage = "programovanie" => HasRoom
  /\ row' = IF row.stage = "verifikacia" THEN Terminal
            ELSE BeginDispatch([row EXCEPT !.stage = NextStage(row.stage, flow)])
  /\ UNCHANGED <<flow, iteration, tasks, evidence, cards, turn, chain, head>>

\* schvalit: sign the phase off.  It does not look at open tasks; that the fix
\* tasks still open have HasRoom is the bound of the model.
Schvalit ==
  /\ PassesGuards(row, "schvalit") /\ row.stage \in {"navrh", "programovanie", "verifikacia"}
  /\ row.stage = "navrh" => plan_exists
  /\ row.stage = "programovanie" => HasRoom
  /\ row.stage = "verifikacia" => verifikacia_passed /\ ~sha_drift
  /\ row' = IF row.stage = "verifikacia" THEN Terminal
            ELSE BeginDispatch([row EXCEPT !.stage = NextStage(row.stage, flow)])
  /\ UNCHANGED <<flow, iteration, tasks, evidence, cards, turn, chain, head>>

\* _route_manazer_fix_to_ai_agent: one fix task with the Manager's brief, a fresh
\* loop, and for a new_version the build paused until pokracovat.
RouteFix ==
  /\ HasRoom
  /\ judged' = "return" /\ sha' = NoSha
  /\ tasks' = WithFix("manager")
  /\ iteration' = 0
  /\ LET r == [row EXCEPT !.stage = "programovanie", !.actor = "ai_agent"] IN
     row' = IF flow = "fast_fix" THEN BeginDispatch(r) ELSE SetStatus(r, "paused")
  /\ UNCHANGED <<flow, vetted, smoke, acceptance, cards, turn, chain, head>>

\* uprav: a correction at verifikacia goes to the fixer, elsewhere the phase re-runs.
Uprav ==
  /\ PassesGuards(row, "uprav")
  /\ \/ row.stage = "verifikacia" /\ RouteFix
     \/ /\ row.stage # "verifikacia"
        /\ Rearm(row)
        /\ tasks' = IF row.stage = "programovanie" THEN ResetFailed(tasks) ELSE tasks

\* overit_znovu for the drift of a PASS.  The counter is incremented on every
\* re-check; that it stays below twice AUDITOR_LOOP_MAX is the bound of the model.
OveritZnovu ==
  /\ PassesGuards(row, "overit_znovu")
  /\ row.status \in {"done", "awaiting_manazer"} /\ sha_drift
  /\ iteration < 2 * AUDITOR_LOOP_MAX /\ HasRoom
  /\ row' = BeginDispatch([row EXCEPT !.stage = "verifikacia"])
  /\ iteration' = iteration + 1
  /\ UNCHANGED <<flow, tasks, evidence, cards, turn, chain, head>>

\* ask, which the terminal stage accepts without effect, and answer.
AskOrAnswer ==
  /\ PassesGuards(row, "ask") \/ PassesGuards(row, "answer")
  /\ row.stage # "done"
  /\ Rearm(row) /\ UNCHANGED tasks

CanDecide == PassesGuards(row, "decide")
             /\ row.status = "blocked" /\ row.block_reason = "decision_needed"
             /\ card.source # "none"

\* decide on the Auditor's upfront findings: the last key answered re-dispatches;
\* answering an answered key again changes nothing.
DecideUpfront ==
  /\ CanDecide /\ card.source = "auditor_upfront" /\ card.left > 0
  /\ card' = [card EXCEPT !.left = @ - 1]
  /\ row' = IF card.left = 1 THEN BeginDispatch(row) ELSE row
  /\ UNCHANGED <<flow, iteration, tasks, evidence, consults, turn, chain, head>>

\* decide = accept_fix: only a card that offers the vetted fix.
DecideAcceptFix ==
  /\ CanDecide /\ card.source = "verifikacia_fix" /\ card.vetted
  /\ Rearm(row) /\ UNCHANGED tasks

\* decide = guide or guide_fix.  The third option, hold, changes nothing.
DecideGuide ==
  /\ CanDecide /\ card.source \in {"verifikacia_fix", "verifikacia_fail"}
  /\ RouteFix

Pokracovat ==
  /\ PassesGuards(row, "pokracovat") /\ row.stage = "programovanie"
  /\ Rearm(row) /\ tasks' = ResetFailed(tasks)

Pause ==
  /\ PassesGuards(row, "pause")
  /\ row' = SetStatus(row, "paused")
  /\ UNCHANGED <<flow, iteration, tasks, evidence, cards, turn, chain, head>>

-----------------------------------------------------------------------------
(* _settle_verifikacia_verdict, shared by the Manager's verdict and the round *)

\* The release note is committed, best effort: HEAD moves, over the same code.
CommitReleaseNote == head' \in {c \in Commits : c \in Bootable <=> head \in Bootable}

\* A PASS is bound to the commit of its release note.
Pass ==
  /\ judged' = "PASS" /\ vetted' = FALSE
  /\ CommitReleaseNote
  /\ sha' \in {head', NoSha}

Fail == judged' = "FAIL" /\ sha' = NoSha /\ vetted' = FALSE /\ UNCHANGED head

\* The card of a FAIL: run the prepared fix, guide it or hold; the first only when
\* the critic vouches for the fix, so that one option is always recommended.
FixConsultation(offer) == [source |-> "verifikacia_fix", left |-> 1, vetted |-> offer]

\* The rounds the engine may start on its own are used up.
LoopIsSpent == iteration >= AUDITOR_LOOP_MAX

Saturated(n) == IF n >= AUDITOR_LOOP_MAX THEN n ELSE n + 1

\* The loop is spent: ask the Manager, the version stays at verifikacia.
SettleFailExhausted ==
  /\ LoopIsSpent
  /\ card' = [source |-> "verifikacia_fail", left |-> 1, vetted |-> FALSE]
  /\ consults' = Saturated(consults)
  /\ Settle(Block(row, "decision_needed")) /\ UNCHANGED <<iteration, tasks>>

\* Slip: the card of a FAIL is not recorded; the one before it stays the latest.
SettleFailWithoutCard(offer) ==
  /\ ~LoopIsSpent
  /\ iteration' = iteration + 1
  /\ LET r  == [row EXCEPT !.stage = "programovanie", !.actor = "ai_agent"]
         ts == WithFix(IF offer THEN "vetted" ELSE "auditor")
     IN  IF flow = "fast_fix"
         THEN Chain(BeginDispatch(r), ts) /\ UNCHANGED cards
         ELSE Settle(Block(r, "decision_needed")) /\ tasks' = ts /\ UNCHANGED cards

\* One fix task is made and the build re-entered: chained for a fast_fix, behind
\* a decision card for a new_version.
SettleFail(offer) ==
  /\ ~LoopIsSpent
  /\ iteration' = iteration + 1
  /\ LET r  == [row EXCEPT !.stage = "programovanie", !.actor = "ai_agent"]
         ts == WithFix(IF offer THEN "vetted" ELSE "auditor")
     IN  IF flow = "fast_fix"
         THEN Chain(BeginDispatch(r), ts) /\ UNCHANGED cards
         ELSE /\ Settle(Block(r, "decision_needed")) /\ tasks' = ts
              /\ card' = FixConsultation(offer)
              /\ consults' = Saturated(consults)

\* The Manager's verdict PASS, unless the recorded runtime floor is red.
VerdictPass ==
  /\ PassesGuards(row, "verdict") /\ row.stage = "verifikacia" /\ ~runtime_floor_red
  /\ Pass
  /\ row' = SetStatus(row, "awaiting_manazer")
  /\ UNCHANGED <<flow, iteration, tasks, smoke, acceptance, cards, turn, chain>>

\* The verdict FAIL, or a PASS the floor turns into one.  A fast_fix is armed
\* and picked up as a dispatch of its own.
VerdictFail ==
  /\ PassesGuards(row, "verdict") /\ row.stage = "verifikacia"
  /\ Fail
  /\ IF LoopIsSpent THEN SettleFailExhausted
     ELSE /\ iteration' = iteration + 1
          /\ tasks' = WithFix("auditor")
          /\ UNCHANGED <<turn, chain>>
          /\ LET r == [row EXCEPT !.stage = "programovanie", !.actor = "ai_agent"] IN
             IF flow = "fast_fix"
             THEN row' = BeginDispatch(r) /\ UNCHANGED cards
             ELSE /\ row' = Block(r, "decision_needed")
                  /\ card' = FixConsultation(FALSE)
                  /\ consults' = Saturated(consults)
  /\ UNCHANGED <<flow, smoke, acceptance>>

Manager ==
  \/ \E f \in Flows : Start(f)
  \/ ApproveSpec \/ Schvalit \/ Uprav \/ OveritZnovu \/ AskOrAnswer
  \/ DecideUpfront \/ DecideAcceptFix \/ DecideGuide \/ VerdictPass \/ VerdictFail
  \/ Pokracovat \/ Pause

-----------------------------------------------------------------------------
(* The dispatch: run_dispatch and the rounds it routes to *)

Rest(r)     == Settle(r) /\ UNCHANGED <<flow, iteration, tasks, evidence, cards, head>>
Goes(point) == turn' = point /\ UNCHANGED <<row, flow, chain>>

\* pipeline_runner._run picks an armed version up.
StartTurn ==
  /\ turn = "idle" /\ row.status = "agent_working"
  /\ chain' = 0 /\ Enter(row.stage, tasks)
  /\ UNCHANGED <<row, flow, iteration, evidence, cards, head>>

\* A fault of the framework: the technical team is told, the version waits.
FrameworkIssue == Block(row, "framework_issue")

\* No readable answer after the retries.
ParseExhausted == Block(row, "parse_exhaustion")

\* Where the deliverable of a phase is looked for: a project without a checkout
\* has it in the conversation.
DiskStatuses    == {"no_checkout", "missing", "ok"}
Persists(status) == status # "missing"

\* The one turn of priprava ends without its output: nothing committed before
\* the envelope was lost, no parseable answer, a question, a fault of the
\* framework; or work landed and is to be reviewed.
PripravaStops ==
  /\ turn = "priprava"
  /\ \E r \in {Block(row, "agent_error"), ParseExhausted, Block(row, "agent_question"),
               FrameworkIssue, SetStatus(row, "awaiting_manazer")} : Rest(r)

\* The specification is looked for, of a new_version only.
PripravaDone ==
  /\ turn = "priprava"
  /\ \E status \in DiskStatuses :
       IF flow = "fast_fix" \/ Persists(status)
       THEN Boundary /\ UNCHANGED <<flow, iteration, evidence, cards, head>>
       ELSE Rest(Block(row, "agent_error"))

\* The design turn of navrh ends without its output.
NavrhStops ==
  /\ turn = "navrh"
  /\ \E r \in {ParseExhausted, Block(row, "agent_question"),
               SetStatus(row, "awaiting_manazer")} : Rest(r)

\* The design document is on record; without it the phase is blocked.
NavrhDesigned ==
  /\ turn = "navrh"
  /\ \E status \in DiskStatuses :
       IF Persists(status) THEN Goes("plan") /\ UNCHANGED <<iteration, tasks, evidence, cards, head>>
       ELSE Rest(Block(row, "agent_error"))

\* The passes that compose the plan end without one (module PlanRound).
PlanStops ==
  /\ turn = "plan"
  /\ \E r \in {Block(row, "agent_error"), ParseExhausted, Block(row, "system_error"),
               SetStatus(row, "awaiting_manazer")} : Rest(r)

\* The plan is written all at once and replaces what there was.
PlanWritten ==
  /\ turn = "plan" /\ Goes("review")
  /\ \E n \in 1..PlanSize : tasks' = [i \in 1..n |-> [status |-> "todo", brief |-> "plan"]]
  /\ UNCHANGED <<iteration, evidence, cards, head>>

\* _run_auditor_upfront_review: a clean or unreadable review lets the boundary
\* decide; a hole is noted and turned into a consultation.
ReviewClean ==
  /\ turn = "review"
  /\ Boundary
  /\ UNCHANGED <<flow, iteration, evidence, cards, head>>

ReviewFindsHole ==
  /\ turn = "review" /\ Goes("consult")
  /\ UNCHANGED <<iteration, tasks, evidence, cards, head>>

\* _settle_for_consultation, within the cap on consultations of the version.
ConsultCard ==
  /\ turn = "consult" /\ consults < AUDITOR_LOOP_MAX
  /\ \E n \in 1..2 : card' = [source |-> "auditor_upfront", left |-> n, vetted |-> FALSE]
  /\ consults' = consults + 1
  /\ Settle(Block(row, "decision_needed"))
  /\ UNCHANGED <<flow, iteration, tasks, evidence, head>>

ConsultFallsBack == turn = "consult" /\ Rest(SetStatus(row, "awaiting_manazer"))

-----------------------------------------------------------------------------
(* _run_build_round; what happens inside a task is module BuildRound *)

BuildRests ==
  /\ turn = "build"
  /\ \/ row.status # "agent_working" /\ Rest(row)
     \/ row.status = "agent_working" /\ TokenStop /\ Rest(SetStatus(row, "paused"))
     \/ /\ row.status = "agent_working" /\ TodoOf(tasks) = {} /\ Open(tasks)
        /\ Rest(Block(row, "agent_error"))
     \/ /\ row.status = "agent_working" /\ TodoOf(tasks) # {}   \* HEAD cannot be read
        /\ Rest(SetStatus(row, "awaiting_manazer"))

BuildCompletes ==
  /\ turn = "build" /\ row.status = "agent_working" /\ TodoOf(tasks) = {} /\ ~Open(tasks)
  /\ Boundary
  /\ UNCHANGED <<flow, iteration, evidence, cards, head>>

Mark(i, status) == tasks' = [tasks EXCEPT ![i].status = status]

BuildPicksTask ==
  /\ turn = "build" /\ row.status = "agent_working" /\ Goes("task")
  /\ \E i \in TodoOf(tasks) : (\A j \in TodoOf(tasks) : i <= j) /\ Mark(i, "in_progress")
  /\ UNCHANGED <<iteration, evidence, cards, head>>

Current == {i \in DOMAIN tasks : tasks[i].status = "in_progress"}

TaskDone ==
  /\ turn = "task" /\ Goes("build")
  /\ \E i \in Current :
       IF tasks[i].brief = "plan" THEN Mark(i, "done") ELSE tasks' = Without(i)
  /\ UNCHANGED <<iteration, evidence, cards, head>>

\* Slip: the spent task is put back for the loop to pick again.
TaskRetriedForever ==
  /\ turn = "task" /\ Goes("build")
  /\ \E i \in Current : Mark(i, "todo")
  /\ UNCHANGED <<iteration, evidence, cards, head>>

\* The self-check budget is spent, over a pause of the Manager too.
TaskFails ==
  /\ turn = "task"
  /\ \E i \in Current : Mark(i, "failed")
  /\ Settle(SetStatus(row, "awaiting_manazer"))
  /\ UNCHANGED <<flow, iteration, evidence, cards, head>>

\* The agent asks, or its envelope is lost: the task stays in_progress.
TaskStops ==
  /\ turn = "task"
  /\ \E r \in {Block(row, "agent_question"), SetStatus(row, "awaiting_manazer")} : Rest(r)

-----------------------------------------------------------------------------
(* _run_verifikacia_round *)

\* The engine boots the application first.  A boot may fail for any reason.  A
\* red boot is a verdict of its own, and the Auditor is not asked.
Smoke ==
  /\ turn = "smoke"
  /\ \/ head \in Bootable /\ smoke' = "green" /\ Goes("acceptance") /\ UNCHANGED judged
     \/ smoke' = "red" /\ Goes("boot_verdict") /\ UNCHANGED judged
  /\ UNCHANGED <<iteration, tasks, sha, vetted, acceptance, cards, head>>

BootVerdict ==
  /\ turn = "boot_verdict" /\ Goes("settle")
  /\ Fail
  /\ UNCHANGED <<iteration, tasks, smoke, acceptance, cards>>

Acceptance ==
  /\ turn = "acceptance" /\ Goes("audit")
  /\ acceptance' \in {"green", "red"}
  /\ UNCHANGED <<iteration, tasks, judged, sha, vetted, smoke, cards, head>>

\* The Auditor's answer is recorded as it came, without the canonical verdict.
AuditorAnswers ==
  /\ turn = "audit"
  /\ \/ judged' = "raw" /\ sha' = NoSha /\ vetted' = FALSE /\ Goes("verdict")
     \/ Goes("no_verdict") /\ UNCHANGED <<judged, sha, vetted>>
  /\ UNCHANGED <<iteration, tasks, smoke, acceptance, cards, head>>

\* No parseable answer: blocked, and no verdict is recorded.
AuditorUnreadable == turn = "audit" /\ Rest(Block(row, "agent_error"))

\* The floor of this round; its boot was green, or no Auditor was asked.
FloorOfRound == acceptance = "red"

\* The canonical verdict: PASS only from a verdict over a floor that is not red.
VerdictRecorded ==
  /\ turn \in {"verdict", "no_verdict"}
  /\ \/ turn = "verdict" /\ ~FloorOfRound /\ Pass /\ Goes("settle")
     \/ /\ Fail
        /\ Goes(IF FloorOfRound \/ flow = "fast_fix" THEN "settle" ELSE "critic")
  /\ UNCHANGED <<iteration, tasks, smoke, acceptance, cards>>

\* What the critic may answer; a fault, a timeout and an unreadable answer are none.
FixCritiques == {"none", "reject", "narrow", "accept"}

\* The critiques that vouch for the prepared fix.
Vouches(critique) == critique \in {"accept", "narrow"}

\* _run_fix_critique fails open: no record, then no vetted fix on the card.
Critic ==
  /\ turn = "critic" /\ Goes("settle")
  /\ \E critique \in FixCritiques : vetted' = Vouches(critique)
  /\ UNCHANGED <<iteration, tasks, judged, sha, smoke, acceptance, cards, head>>

SettlePass ==
  /\ turn = "settle" /\ judged = "PASS"
  /\ Boundary
  /\ UNCHANGED <<flow, iteration, evidence, cards, head>>

SettleFailed ==
  /\ turn = "settle" /\ judged # "PASS"
  /\ IF LoopIsSpent THEN SettleFailExhausted ELSE SettleFail(vetted)
  /\ UNCHANGED <<flow, evidence, head>>

Engine ==
  \/ StartTurn \/ PripravaStops \/ PripravaDone
  \/ NavrhStops \/ NavrhDesigned \/ PlanStops \/ PlanWritten \/ ReviewClean \/ ReviewFindsHole
  \/ ConsultCard \/ ConsultFallsBack
  \/ BuildRests \/ BuildCompletes \/ BuildPicksTask \/ TaskDone \/ TaskFails \/ TaskStops
  \/ Smoke \/ BootVerdict \/ Acceptance \/ AuditorAnswers \/ AuditorUnreadable
  \/ VerdictRecorded \/ Critic \/ SettlePass \/ SettleFailed

-----------------------------------------------------------------------------
(* The environment *)

\* An exception escapes a turn: _mark_blocked.
Crash == CanCrash /\ turn # "idle" /\ Rest(Block(row, "system_error"))

\* The process restarts; recover_orphaned_builds_on_startup hands back a version
\* that was left working.
Restart ==
  /\ CanRestart /\ Started(row)
  /\ Rest(IF row.status = "agent_working" THEN SetStatus(row, "awaiting_manazer") ELSE row)

\* A commit by the agent, another version or a person.
HeadMoves ==
  /\ head' \in Commits \ {head}
  /\ UNCHANGED <<row, flow, iteration, tasks, evidence, cards, turn, chain>>

Init ==
  /\ row = NoRow /\ flow = "new_version" /\ iteration = 0 /\ tasks = <<>>
  /\ judged = "none" /\ sha = NoSha /\ vetted = FALSE
  /\ smoke = "none" /\ acceptance = "none"
  /\ card = NoCard /\ consults = 0 /\ turn = "idle" /\ chain = 0
  /\ head \in Commits

Next == Manager \/ Engine \/ Crash \/ Restart \/ HeadMoves

Spec == Init /\ [][Next]_vars

\* The event loop runs a scheduled dispatch, and every wait inside it (agent,
\* boot, acceptance run) is cut off by a timeout.
FairSpec == Spec /\ WF_vars(Engine)

-----------------------------------------------------------------------------
(* Properties *)

\* Every variable stays in its domain; the rounds of the Auditor's loop and the
\* fix tasks stay within their bounds.
TypeOK ==
  /\ row \in Rows /\ flow \in Flows /\ iteration \in 0..(2 * AUDITOR_LOOP_MAX + 1)
  /\ tasks \in Seq(Tasks) /\ Len(tasks) <= PlanSize + FixCap
  /\ judged \in Judgements /\ sha \in Commits \cup {NoSha}
  /\ vetted \in BOOLEAN
  /\ smoke \in {"none", "green", "red"}
  /\ acceptance \in {"none", "green", "red"}
  /\ card \in Cards /\ consults \in 0..AUDITOR_LOOP_MAX
  /\ turn \in Turns /\ chain \in 0..auto_chain_limit /\ head \in Commits

\* No version is finished on an agent's word: Hotovo stands on a canonical PASS
\* that no later FAIL or return outranks (no-silent-done of schvalit and of the
\* automatic sign-off).
DoneIsVerified == row.stage = "done" => judged = "PASS"

\* A new_version enters its next phase only by an act of the Manager: whatever
\* the dial, the engine never starts the next phase by itself (the mandatory
\* gates of _settle_phase_boundary); a FAIL of the Auditor leads back, never on.
Place(stage) == CHOOSE i \in 1..5 : STAGE_ORDER[i] = stage
PhaseGate ==
  [][flow = "new_version" /\ Place(row'.stage) > Place(row.stage) => Manager]_vars

\* The backstop of the runner is never reached: phases and fix rounds of one
\* dispatch stay within the budget, so no version is left working by it.
NeverTrips == turn # "tripped"

\* The card a waiting decision is read from is the one of that decision: each
\* phase has its kind, and a prepared fix is offered exactly when the critic
\* vetted the fix of this very round (_latest_consultation, _build_fix_consultation).
CardFits ==
  row.status = "blocked" /\ row.block_reason = "decision_needed" =>
    /\ card.source = CASE row.stage = "navrh" -> "auditor_upfront"
                       [] row.stage = "programovanie" -> "verifikacia_fix"
                       [] OTHER -> "verifikacia_fail"
    /\ card.left > 0
    /\ card.source = "verifikacia_fix" =>
         /\ card.vetted <=> vetted
         /\ \E i \in DOMAIN tasks : tasks[i].brief = (IF card.vetted THEN "vetted" ELSE "auditor")

\* A FAIL never costs finished work: after navrh the done tasks of the plan stay
\* done over every fix round, retry, correction and restart.
PlanDone(ts) == {i \in DOMAIN ts : ts[i].brief = "plan" /\ ts[i].status = "done"}
FixLeavesPlanAlone ==
  [][row.stage # "navrh" => PlanDone(tasks) \subseteq PlanDone(tasks')]_vars

\* Every task of the plan moves as the build stage promises, whatever the phases, the
\* verdicts and the fixes do around it: module BuildTask, with what a dispatch at
\* another task, or at a fix, is to this one.  It implies FixLeavesPlanAlone.
BuildArmed == row.status = "agent_working" /\ row.stage = "programovanie"
Standing(ts, i) == IF i \in DOMAIN ts /\ ts[i].brief = "plan" THEN ts[i].status ELSE "absent"
Where(i) ==
  IF turn = "task" /\ Standing(tasks, i) = "in_progress" THEN "turn"
  ELSE IF turn \in {"build", "task"} THEN "round" ELSE "rest"
B(i) == INSTANCE BuildTask WITH armed <- BuildArmed, task <- Standing(tasks, i), at <- Where(i)
PlanIsBuilt ==
  /\ \A i \in 1..PlanSize : B(i)!Init
  /\ [][\A i \in 1..PlanSize : [B(i)!Next]_(B(i)!taskVars)]_vars

\* Nobody signs over a red floor: when a version reaches Hotovo, the boot and
\* the acceptance run last recorded are not red (_settle_verifikacia_verdict:
\* a self-reported PASS can never cross a red floor).
HotovoOverGreenFloor ==
  [][row.stage # "done" /\ row'.stage = "done" => ~runtime_floor_red]_vars

\* Every dispatch hands the version back.
PhaseDispatchSettles ==
  row.status = "agent_working" ~> turn = "idle" /\ row.status # "agent_working"
=============================================================================
