----------------------------- MODULE BuildRound -----------------------------
(***************************************************************************)
(* One task of the plan inside _run_build_round: the attempts of its       *)
(* self-check, the invocations of the agent inside an attempt with their   *)
(* parse retries, the one retry of a crash, the baseline commit the work   *)
(* is verified against, and the audit of work whose report was lost.       *)
(* Modules PhaseBuild and Conversation show the same round one level up,   *)
(* where a task is only picked, done, failed or stopped.                   *)
(*                                                                         *)
(* The history of the checkout is a line: commit c is the c-th, head the   *)
(* latest.  Left out: the texts of the briefs, and the counters the        *)
(* metrics read (auto_fix_count, tokens, durations).                       *)
(***************************************************************************)
EXTENDS Integers, FiniteSets

CONSTANTS
  SELF_CHECK_RETRIES,  \* attempts of one task in one dispatch
  PARSE_RETRIES,       \* re-invocations after an unusable answer
  MaxHead              \* bound on the commits considered

ASSUME RoundAssumption ==
  SELF_CHECK_RETRIES \in Nat \ {0} /\ PARSE_RETRIES \in Nat /\ MaxHead \in Nat

None == -1             \* no commit: HEAD unreadable, or no baseline kept

VARIABLES
  work,      \* status of the pipeline row
  stored,    \* its dispatch_baseline_sha
  anchor,    \* the copy of it the running dispatch has read
  task,      \* status of the task
  baseline,  \* its baseline_sha
  head,      \* HEAD of the checkout
  landed,    \* the commits made by turns of this task
  diverged,  \* the history below head was rewritten
  point,     \* program point of the dispatch
  attempt,   \* attempt of the self-check
  tries,     \* parse retries used by this turn
  retried,   \* crash_retried
  calls,     \* invocations of the agent for this task in this dispatch
  notices    \* lost-work notices recorded, for each dispatch baseline

rowv  == <<work, stored>>
gitv  == <<head, landed, diverged>>
loopv == <<attempt, tries, retried, calls>>
roundVars == <<rowv, anchor, task, baseline, gitv, point, loopv, notices>>

-----------------------------------------------------------------------------
(* The Manager *)

\* _begin_dispatch: the baseline of the dispatch is captured once and kept until
\* the row settles; HEAD may be unreadable.
Armed ==
  /\ work' = "working"
  /\ stored' \in IF stored = None THEN {head, None} ELSE {stored}

\* answer, ask, uprav or pokracovat on a row that rests; while a paused build is
\* still inside a turn they arm the row under it, and no second dispatch starts.
Rearm ==
  /\ work # "working"
  /\ Armed
  /\ task' = IF task = "failed" THEN "todo" ELSE task
  /\ UNCHANGED <<anchor, baseline, gitv, point, loopv, notices>>

Pause ==
  /\ work = "working" /\ work' = "paused" /\ stored' = None
  /\ UNCHANGED <<anchor, task, baseline, gitv, point, loopv, notices>>

-----------------------------------------------------------------------------
(* The round *)

Settled(status) == work' = status /\ stored' = None /\ point' = "rest"

\* Slip: the task a dead dispatch left in progress is not taken back.
EnterRoundOverOrphan ==
  /\ point = "rest" /\ work = "working"
  /\ point' = "round" /\ anchor' = stored /\ retried' = FALSE
  /\ UNCHANGED <<rowv, task, baseline, gitv, attempt, tries, calls, notices>>

\* The round begins: the orphan of a dead dispatch is reclaimed.
EnterRound ==
  /\ point = "rest" /\ work = "working"
  /\ point' = "round" /\ anchor' = stored /\ retried' = FALSE
  /\ task' = IF task = "in_progress" THEN "todo" ELSE task
  /\ UNCHANGED <<rowv, baseline, gitv, attempt, tries, calls, notices>>

\* Slip: a pause is not looked for at the boundary.
LeaveRoundBlocked ==
  /\ point = "round" /\ work = "blocked"
  /\ point' = "rest"
  /\ UNCHANGED <<rowv, anchor, task, baseline, gitv, loopv, notices>>

\* The boundary between tasks re-reads the row.
LeaveRound ==
  /\ point = "round" /\ work # "working"
  /\ point' = "rest"
  /\ UNCHANGED <<rowv, anchor, task, baseline, gitv, loopv, notices>>

\* No task left to do, or none that can be anchored: the dispatch settles.
RoundEnds ==
  /\ point = "round" /\ work = "working"
  /\ task # "todo" \/ baseline = None
  /\ \E status \in {"awaiting", "blocked"} : Settled(status)
  /\ UNCHANGED <<anchor, task, baseline, gitv, loopv, notices>>

\* Slip: the baseline is captured again on every dispatch of the task.
PickTaskAnew ==
  /\ point = "round" /\ work = "working" /\ task = "todo"
  /\ baseline' = head
  /\ task' = "in_progress" /\ point' = "turn" /\ anchor' = stored
  /\ attempt' = 1 /\ tries' = 0 /\ calls' = 1
  /\ UNCHANGED <<rowv, gitv, retried, notices>>

\* The baseline of a task is captured at its first dispatch and kept.
PickTask ==
  /\ point = "round" /\ work = "working" /\ task = "todo"
  /\ baseline' = IF baseline = None THEN head ELSE baseline
  /\ task' = "in_progress" /\ point' = "turn" /\ anchor' = stored
  /\ attempt' = 1 /\ tries' = 0 /\ calls' = 1
  /\ UNCHANGED <<rowv, gitv, retried, notices>>

-----------------------------------------------------------------------------
(* One turn: invoke_agent_with_parse_retry around invoke_agent *)

\* verify_mechanical: the baseline still is an ancestor of HEAD, and the report
\* names commits, all of them in baseline..HEAD.
verify_mechanical(commits) ==
  /\ commits # {} /\ ~diverged
  /\ \A c \in commits : baseline < c /\ c <= head

\* An attempt failed, for whatever reason: the next one, or the end of the budget.
AttemptFails ==
  /\ UNCHANGED <<anchor, baseline, gitv, retried, notices>>
  /\ IF attempt < SELF_CHECK_RETRIES
     THEN /\ attempt' = attempt + 1 /\ tries' = 0 /\ calls' = calls + 1
          /\ UNCHANGED <<rowv, task, point>>
     ELSE /\ task' = "failed" /\ Settled("awaiting")
          /\ UNCHANGED <<attempt, tries, calls>>

\* The agent writes and commits while it works.
TurnCommits ==
  /\ point = "turn" /\ head < MaxHead
  /\ head' = head + 1 /\ landed' = landed \cup {head + 1}
  /\ UNCHANGED <<rowv, anchor, task, baseline, diverged, point, loopv, notices>>

\* A report: done if the machine agrees, a failed attempt otherwise.
TurnReports(commits) ==
  /\ point = "turn"
  /\ IF verify_mechanical(commits)
     THEN /\ task' = "done" /\ point' = "round"
          /\ UNCHANGED <<rowv, anchor, baseline, gitv, loopv, notices>>
     ELSE AttemptFails

\* The agent asks: the task stays in_progress.
TurnAsks ==
  /\ point = "turn" /\ Settled("blocked")
  /\ UNCHANGED <<anchor, task, baseline, gitv, loopv, notices>>

\* An answer without a valid status block: re-emitted while retries and time are
\* left, else a failed attempt.
TurnUnparseable ==
  /\ point = "turn"
  /\ \/ /\ tries < PARSE_RETRIES /\ tries' = tries + 1 /\ calls' = calls + 1
        /\ UNCHANGED <<rowv, anchor, task, baseline, gitv, point, attempt, retried, notices>>
     \/ AttemptFails

\* _lost_work_audit_recorded
AuditRecorded(n) == n[anchor] > 0

\* _audit_lost_work: one notice for each dispatch baseline.
Noticed(n) ==
  IF anchor = None \/ AuditRecorded(n) THEN n ELSE [n EXCEPT ![anchor] = 1]

\* Slip: the crash is retried without remembering it.
CrashRetryForgotten ==
  /\ tries' = 0 /\ calls' = calls + 1
  /\ UNCHANGED <<rowv, anchor, task, baseline, gitv, point, attempt, retried>>

\* The whole turn is run once more, once in a dispatch.
CrashRetry ==
  /\ ~retried /\ retried' = TRUE
  /\ tries' = 0 /\ calls' = calls + 1
  /\ UNCHANGED <<rowv, anchor, task, baseline, gitv, point, attempt>>

\* The envelope is lost for good: the Manager reviews, the task stays in_progress.
HandOver == Settled("awaiting") /\ UNCHANGED <<anchor, task, baseline, gitv, loopv>>

\* The agent's process dies.  The parse retry re-invokes it like any unusable
\* answer; when that is spent a crash is retried once, then handed over, or
\* counted as a failed attempt if no dispatch baseline was armed.
TurnCrashes ==
  /\ point = "turn"
  /\ \/ /\ notices' = Noticed(notices)
        /\ tries < PARSE_RETRIES /\ tries' = tries + 1 /\ calls' = calls + 1
        /\ UNCHANGED <<rowv, anchor, task, baseline, gitv, point, attempt, retried>>
     \/ anchor # None /\ notices' = Noticed(notices) /\ CrashRetry
     \/ anchor # None /\ retried /\ notices' = Noticed(notices) /\ HandOver
     \/ anchor = None /\ AttemptFails

\* The time of the turn is up: no retry, as no time remains.
TurnTimesOut ==
  /\ point = "turn"
  /\ \/ anchor # None /\ notices' = Noticed(notices) /\ HandOver
     \/ anchor = None /\ AttemptFails

Turn ==
  \/ \E commits \in SUBSET (1..MaxHead) : TurnReports(commits)
  \/ TurnAsks \/ TurnUnparseable \/ TurnCrashes \/ TurnTimesOut

RoundStep == EnterRound \/ LeaveRound \/ RoundEnds \/ PickTask \/ Turn

-----------------------------------------------------------------------------
(* The environment *)

\* The process restarts, or an exception escapes the turn.
RoundDies ==
  /\ point # "rest" \/ work = "working"
  /\ point' = "rest"
  /\ IF work = "working" THEN work' \in {"awaiting", "blocked"} /\ stored' = None
     ELSE UNCHANGED rowv
  /\ UNCHANGED <<anchor, task, baseline, gitv, loopv, notices>>

\* Somebody else commits, or rewrites the history the baseline is part of.
OthersCommit ==
  /\ head < MaxHead /\ head' = head + 1
  /\ UNCHANGED <<rowv, anchor, task, baseline, landed, diverged, point, loopv, notices>>

Rewrite ==
  /\ diverged' = TRUE /\ ~diverged
  /\ UNCHANGED <<rowv, anchor, task, baseline, head, landed, point, loopv, notices>>

RoundInit ==
  /\ work = "awaiting" /\ stored = None /\ anchor = None
  /\ task = "todo" /\ baseline = None /\ head = 0 /\ landed = {} /\ diverged = FALSE
  /\ point = "rest" /\ attempt = 1 /\ tries = 0 /\ retried = FALSE /\ calls = 0
  /\ notices = [c \in 0..MaxHead |-> 0]

RoundNext ==
  \/ Rearm \/ Pause \/ RoundStep \/ TurnCommits \/ RoundDies \/ OthersCommit \/ Rewrite

RoundSpec == RoundInit /\ [][RoundNext]_roundVars

\* Every invocation of the agent is cut off by its timeout.
RoundFairness == WF_roundVars(RoundStep)

-----------------------------------------------------------------------------
(* Properties *)

RoundTypeOK ==
  /\ work \in {"working", "awaiting", "blocked", "paused"}
  /\ {stored, anchor, baseline} \subseteq -1..MaxHead
  /\ task \in {"todo", "in_progress", "done", "failed"}
  /\ head \in 0..MaxHead /\ landed \subseteq 1..MaxHead /\ diverged \in BOOLEAN
  /\ point \in {"rest", "round", "turn"}
  /\ attempt \in 1..SELF_CHECK_RETRIES /\ tries \in 0..PARSE_RETRIES
  /\ retried \in BOOLEAN /\ calls \in Nat
  /\ notices \in [0..MaxHead -> Nat]

\* The work a dispatch can burn on one task is bounded, however attempts, parse
\* retries and crash retries interleave: each of the attempts, and the one turn
\* run again after a crash, costs 1 + PARSE_RETRIES invocations at most.
CallsBounded == calls <= (SELF_CHECK_RETRIES + 1) * (1 + PARSE_RETRIES)

\* Work that landed while its report was lost - a timeout, a crash, a restart, a
\* pause - can still be claimed by a later attempt or dispatch: it stays newer
\* than the baseline the task is verified against.
WorkStaysClaimable == \A c \in landed : baseline # None /\ baseline < c

\* A dispatch baseline is audited once, however many invocations lose their
\* envelope under it (_lost_work_audit_recorded).
OneNoticePerBaseline == \A c \in DOMAIN notices : notices[c] <= 1

\* However its attempts go, the task moves as the build stage promises: begun by a
\* dispatch that works, done or failed by the turn that works on it, done for good,
\* and taken up again after a dispatch that handed it back (_run_build_round).
T == INSTANCE BuildTask WITH armed <- work = "working", at <- point
TaskIsBuilt == T!Spec

\* The round comes to rest.
RoundSettles == point # "rest" ~> point = "rest"
=============================================================================
