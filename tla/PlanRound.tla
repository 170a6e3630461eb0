------------------------------ MODULE PlanRound ------------------------------
(***************************************************************************)
(* The plan of one version, composed in passes: _generate_incremental_plan *)
(* asks the agent for a skeleton of feats, then for the tasks of one feat  *)
(* after another, keeps the answers in memory, records the report with the *)
(* rules the build is to follow, and writes the rows all at once.  Modules *)
(* PhaseBuild and Conversation show a round as a turn that either writes a *)
(* plan or stops.                                                          *)
(*                                                                         *)
(* Tasks of a feat stand for the round whose pass gave them, rules for the *)
(* round that declared them.  Left out: epics and numbers, the prompts,    *)
(* what the passes cost, and the notices about lost work (BuildRound).     *)
(***************************************************************************)
EXTENDS Naturals, FiniteSets

CONSTANTS
  Feats,           \* feats a skeleton may name
  PASS_RETRIES,    \* re-invocations of a pass (PARSE_RETRIES)
  MAX_PLAN_FEATS,  \* feats of a plan composed in passes
  MaxRound         \* bound on the rounds

VARIABLES
  register,   \* "navrh", or "priprava" for the plan round of a conversation
  round,      \* plan rounds begun
  at,         \* where the present one is
  armed,      \* its dispatch has a baseline commit
  skeleton,   \* the feats it is to fill
  filled,     \* of each the round whose pass gave its tasks, 0 for none
  reasked,      \* re-invocations of the present pass
  plan,       \* the committed plan: of each feat the round of its tasks, 0 for no feat
  declared,   \* the round whose rules the build loop reads, 0 for none
  outcome     \* how the last round ended

planVars == <<register, round, at, armed, skeleton, filled, reasked, plan, declared, outcome>>

Nowhere == [f \in Feats |-> 0]
PlanOf(s, n) == [f \in Feats |-> IF f \in s THEN n ELSE 0]

PassesEnd(how) ==
  /\ at' = "rest" /\ outcome' = how
  /\ UNCHANGED <<register, round, armed, skeleton, filled, reasked>>

\* The round settles with a reason: the plan and its rules stay as they are.
Stops(how) == PassesEnd(how) /\ UNCHANGED <<plan, declared>>

-----------------------------------------------------------------------------

\* _run_conversation_plan_round, _fold_task_plan_into_navrh.
PlanRoundBegins(hasBaseline) ==
  /\ at = "rest" /\ round < MaxRound
  /\ round' = round + 1 /\ at' = "skeleton" /\ armed' = hasBaseline
  /\ skeleton' = {} /\ filled' = Nowhere /\ reasked' = 0
  /\ UNCHANGED <<register, plan, declared, outcome>>

\* The gate report is committed before the rows are written.  The build loop looks
\* for its rules among the reports of navrh.
Report(n) == declared' = IF register = "navrh" THEN n ELSE declared

\* _materialize_inline_navrh_plan: a design turn that carries its whole plan.
InlinePlan(s) ==
  /\ at = "rest" /\ round < MaxRound /\ register = "navrh" /\ s # {}
  /\ round' = round + 1 /\ at' = "write" /\ skeleton' = s /\ filled' = PlanOf(s, round')
  /\ reasked' = 0 /\ Report(round')
  /\ UNCHANGED <<register, armed, plan, outcome>>

\* Work that may lie behind a timeout, or behind a crash that does not go away, is
\* for the Manager to review; without a baseline there is nothing to compare it to.
Reviewed(kind) == armed /\ kind \in {"timeout", "crash"}

\* Slip: a pass that keeps failing leaves its feat out, and the round goes on.
SkipFeat(kind) ==
  IF at = "feats" /\ ~Reviewed(kind)
  THEN at' = "write" /\ UNCHANGED <<register, round, armed, skeleton, filled, reasked, plan, declared, outcome>>
  ELSE Stops(IF Reviewed(kind) THEN "review" ELSE "blocked")

\* _settle_plan_pass_failure
Settle(kind) == Stops(IF Reviewed(kind) THEN "review" ELSE "blocked")

\* _invoke_plan_pass: an unusable answer and a crash are re-invoked, a timeout too
\* when no lost work can be looked for.
PassFails(kind) ==
  /\ at \in {"skeleton", "feats"}
  /\ IF ~(kind = "timeout" /\ armed) /\ reasked < PASS_RETRIES
     THEN /\ reasked' = reasked + 1
          /\ UNCHANGED <<register, round, at, armed, skeleton, filled, plan, declared, outcome>>
     ELSE Settle(kind)

SkeletonAnswers(s) ==
  /\ at = "skeleton" /\ s # {}
  /\ IF Cardinality(s) > MAX_PLAN_FEATS THEN Stops("blocked")
     ELSE /\ at' = "feats" /\ skeleton' = s /\ reasked' = 0
          /\ UNCHANGED <<register, round, armed, filled, plan, declared, outcome>>

\* The tasks of the next feat; after the last one the report is recorded.
FeatAnswers ==
  /\ at = "feats" /\ reasked' = 0
  /\ \E f \in {g \in skeleton : filled[g] # round} :
       /\ filled' = [filled EXCEPT ![f] = round]
       /\ IF \A g \in skeleton : filled'[g] = round
          THEN at' = "write" /\ Report(round)
          ELSE UNCHANGED <<at, declared>>
  /\ UNCHANGED <<register, round, armed, skeleton, plan, outcome>>

\* _write_task_plan: one savepoint around the old rows' deletion and the new ones.
WriteSucceeds ==
  /\ at = "write" /\ plan' = filled /\ PassesEnd("written") /\ UNCHANGED declared

WriteFails == at = "write" /\ Stops("blocked")

\* The rows are written, and their document is not.
DocumentFails ==
  /\ at = "write" /\ plan' = filled /\ PassesEnd("undocumented") /\ UNCHANGED declared

PlanRestart == at # "rest" /\ Stops("restart")

-----------------------------------------------------------------------------

PlanInit ==
  /\ register \in {"navrh", "priprava"} /\ round = 0 /\ at = "rest" /\ armed = FALSE
  /\ skeleton = {} /\ filled = Nowhere /\ reasked = 0 /\ plan = Nowhere
  /\ declared = 0 /\ outcome = "none"

PlanNext ==
  \/ \E hasBaseline \in BOOLEAN : PlanRoundBegins(hasBaseline)
  \/ \E s \in SUBSET Feats : InlinePlan(s) \/ SkeletonAnswers(s)
  \/ \E kind \in {"unusable", "crash", "timeout"} : PassFails(kind)
  \/ FeatAnswers \/ WriteSucceeds \/ WriteFails \/ DocumentFails \/ PlanRestart

PlanSpec == PlanInit /\ [][PlanNext]_planVars

-----------------------------------------------------------------------------
(* Properties *)

PlanTypeOK ==
  /\ register \in {"navrh", "priprava"} /\ round \in 0..MaxRound
  /\ at \in {"rest", "skeleton", "feats", "write"} /\ armed \in BOOLEAN
  /\ skeleton \subseteq Feats /\ reasked \in 0..PASS_RETRIES
  /\ {filled, plan} \subseteq [Feats -> 0..MaxRound] /\ declared \in 0..MaxRound
  /\ outcome \in {"none", "review", "blocked", "restart", "written", "undocumented"}

\* The plan is never a mixture of rounds, and never part of one: every feat has the
\* tasks of the same round, a round that stops early leaves the earlier plan whole,
\* and one that succeeds has written each feat of its own skeleton, no other, and
\* in navrh the rules the build reads are the ones it declared.
PlanWhole ==
  /\ \E s \in SUBSET Feats, n \in 0..round : plan = PlanOf(s, n)
  /\ (at # "rest" \/ outcome \in {"review", "blocked", "restart"}) =>
       (round > 0 => \A f \in Feats : plan[f] < round)
  /\ at = "rest" /\ outcome = "written" =>
       plan = PlanOf(skeleton, round) /\ (register = "navrh" => declared = round)
=============================================================================
