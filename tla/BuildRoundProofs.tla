--------------------------- MODULE BuildRoundProofs ---------------------------
(***************************************************************************)
(* What one task can cost, what of it can be lost, and how often the       *)
(* Manager is told: for every budget of attempts and of parse retries.     *)
(* What a version that may be released stands on: for every plan, and any  *)
(* number of updates of its tasks at once. And how requirements reach a    *)
(* version: for every backlog, and any number of captures at once.         *)
(***************************************************************************)
EXTENDS BuildRound, WorkItems, Backlog, FiniteSetTheorems, TLAPS

Again == IF retried THEN 1 ELSE 0

\* Inside a turn the invocations are those of the attempts and crash retries spent,
\* and those of the turn at hand.
Spent ==
  point = "turn" =>
    calls <= (attempt - 1 + Again) * (1 + PARSE_RETRIES) + tries + 1

\* A task that is worked on is anchored, at a commit there is.
Anchored ==
  /\ baseline <= head
  /\ point = "turn" => baseline # None

RoundInv ==
  /\ RoundTypeOK
  /\ Spent /\ CallsBounded
  /\ Anchored /\ WorkStaysClaimable
  /\ OneNoticePerBaseline

-----------------------------------------------------------------------------
(* Arithmetic *)

LEMMA OneMore ==
  ASSUME NEW a \in Nat, NEW w \in Nat
  PROVE  /\ (a + 1) * w = a * w + w
         /\ a * w \in Nat
  OBVIOUS

LEMMA AtMost ==
  ASSUME NEW a \in Nat, NEW b \in Nat, a <= b, NEW w \in Nat
  PROVE  a * w <= b * w
<1>1. PICK d \in Nat : b = a + d
  <2>1. b - a \in Nat /\ b = a + (b - a) OBVIOUS
  <2> QED BY <2>1
<1>2. b * w = a * w + d * w BY <1>1
<1>3. d * w \in Nat /\ a * w \in Nat BY OneMore
<1> QED BY <1>2, <1>3

\* What a turn has spent fits the budget of the task.
LEMMA SpentFits ==
  ASSUME NEW n \in 1..SELF_CHECK_RETRIES, NEW r \in {0, 1}, NEW t \in 0..PARSE_RETRIES, NEW k \in Nat,
         k <= (n - 1 + r) * (1 + PARSE_RETRIES) + t + 1
  PROVE  k <= (SELF_CHECK_RETRIES + 1) * (1 + PARSE_RETRIES)
<1> USE RoundAssumption DEF RoundAssumption
<1> DEFINE w == 1 + PARSE_RETRIES
           m == n - 1 + r
<1>1. m \in Nat /\ w \in Nat /\ m <= SELF_CHECK_RETRIES OBVIOUS
<1>2. k <= m * w + t + 1 /\ t + 1 <= w /\ t \in Nat OBVIOUS
<1>3. m * w <= SELF_CHECK_RETRIES * w BY <1>1, AtMost, SELF_CHECK_RETRIES \in Nat
<1>4. /\ m * w \in Nat /\ SELF_CHECK_RETRIES * w \in Nat
      /\ (SELF_CHECK_RETRIES + 1) * w = SELF_CHECK_RETRIES * w + w
  BY <1>1, OneMore, SELF_CHECK_RETRIES \in Nat
<1> HIDE DEF w, m
<1>5. k <= (SELF_CHECK_RETRIES + 1) * w BY <1>1, <1>2, <1>3, <1>4
<1> QED BY <1>5 DEF w

\* One more attempt, or one more crash retry, pays for the turn it begins.
LEMMA NextTurnFits ==
  ASSUME NEW m \in Nat, NEW t \in 0..PARSE_RETRIES, NEW k \in Nat, k <= m * (1 + PARSE_RETRIES) + t + 1
  PROVE  k + 1 <= (m + 1) * (1 + PARSE_RETRIES) + 0 + 1
<1> USE RoundAssumption DEF RoundAssumption
<1> DEFINE w == 1 + PARSE_RETRIES
<1>1. (m + 1) * w = m * w + w /\ m * w \in Nat BY OneMore, w \in Nat
<1>2. k <= m * w + t + 1 /\ t + 1 <= w /\ w \in Nat OBVIOUS
<1> HIDE DEF w
<1>3. k + 1 <= (m + 1) * w + 0 + 1 BY <1>1, <1>2
<1> QED BY <1>3 DEF w

-----------------------------------------------------------------------------
(* The steps of the round *)

LEMMA RoundInitial == RoundInit => RoundInv
<1> SUFFICES ASSUME RoundInit PROVE RoundInv OBVIOUS
<1> USE RoundAssumption DEF RoundAssumption, RoundInit
<1>1. RoundTypeOK
  <2>1. {stored, anchor, baseline} \subseteq -1..MaxHead /\ head \in 0..MaxHead BY DEF None
  <2>2. attempt \in 1..SELF_CHECK_RETRIES /\ tries \in 0..PARSE_RETRIES /\ calls \in Nat OBVIOUS
  <2>3. notices \in [0..MaxHead -> Nat] OBVIOUS
  <2>4. landed \subseteq 1..MaxHead OBVIOUS
  <2>5. retried \in BOOLEAN /\ diverged \in BOOLEAN OBVIOUS
  <2> QED BY <2>1, <2>2, <2>3, <2>4, <2>5 DEF RoundTypeOK
<1>2. Spent BY DEF Spent
<1>3. CallsBounded
  <2>1. (SELF_CHECK_RETRIES + 1) * (1 + PARSE_RETRIES) \in Nat
    BY OneMore, SELF_CHECK_RETRIES + 1 \in Nat, 1 + PARSE_RETRIES \in Nat
  <2> QED BY <2>1 DEF CallsBounded
<1>4. Anchored /\ WorkStaysClaimable /\ OneNoticePerBaseline
  BY DEF Anchored, WorkStaysClaimable, OneNoticePerBaseline, None
<1> QED BY <1>1, <1>2, <1>3, <1>4 DEF RoundInv

\* The budget holds after a step that leaves the invocations alone, or keeps to
\* what a turn may spend.
LEMMA Budget ==
  ASSUME RoundInv, RoundTypeOK', Spent', UNCHANGED calls \/ point' = "turn"
  PROVE  CallsBounded'
<1> USE RoundAssumption DEF RoundAssumption
<1>1. CASE UNCHANGED calls BY <1>1 DEF RoundInv, CallsBounded
<1>2. CASE point' = "turn"
  <2>1. /\ attempt' \in 1..SELF_CHECK_RETRIES /\ Again' \in {0, 1}
        /\ tries' \in 0..PARSE_RETRIES /\ calls' \in Nat
    BY DEF RoundTypeOK, Again
  <2>2. calls' <= (attempt' - 1 + Again') * (1 + PARSE_RETRIES) + tries' + 1 BY <1>2 DEF Spent
  <2> QED BY <2>1, <2>2, SpentFits DEF CallsBounded
<1> QED BY <1>1, <1>2

LEMMA AttemptFailsKeeps ==
  ASSUME RoundInv, point = "turn", AttemptFails
  PROVE  RoundInv'
<1> USE RoundAssumption DEF RoundAssumption, RoundInv
<1>1. RoundTypeOK'
  BY DEF RoundTypeOK, AttemptFails, Settled, None, gitv, rowv
<1>2. Spent'
  <2>1. CASE attempt < SELF_CHECK_RETRIES
    <3>1. attempt' = attempt + 1 /\ tries' = 0 /\ calls' = calls + 1 /\ Again' = Again
      BY <2>1 DEF AttemptFails, Again
    <3>2. attempt - 1 + Again \in Nat /\ attempt \in Nat /\ Again \in Nat BY DEF RoundTypeOK, Again
    <3>3. calls <= (attempt - 1 + Again) * (1 + PARSE_RETRIES) + tries + 1 BY DEF Spent
    <3>4. calls + 1 <= (attempt - 1 + Again + 1) * (1 + PARSE_RETRIES) + 0 + 1
      BY <3>2, <3>3, NextTurnFits DEF RoundTypeOK
    <3>5. attempt - 1 + Again + 1 = attempt' - 1 + Again' BY <3>1, <3>2
    <3> QED BY <3>1, <3>4, <3>5 DEF Spent
  <2>2. CASE ~(attempt < SELF_CHECK_RETRIES) BY <2>2 DEF AttemptFails, Settled, Spent
  <2> QED BY <2>1, <2>2
<1>3. CallsBounded'
  <2>1. UNCHANGED calls \/ point' = "turn" BY DEF AttemptFails
  <2> QED BY <1>1, <1>2, <2>1, Budget
<1>4. Anchored' /\ WorkStaysClaimable' /\ OneNoticePerBaseline'
  BY DEF AttemptFails, Anchored, WorkStaysClaimable, OneNoticePerBaseline, gitv, RoundTypeOK
<1> QED BY <1>1, <1>2, <1>3, <1>4

\* A notice is recorded for a baseline that has none.
LEMMA NoticedOnce ==
  ASSUME RoundInv, notices' = Noticed(notices)
  PROVE  notices' \in [0..MaxHead -> Nat] /\ OneNoticePerBaseline'
<1>1. CASE anchor = None \/ AuditRecorded(notices)
  BY <1>1 DEF Noticed, RoundInv, RoundTypeOK, OneNoticePerBaseline
<1>2. CASE ~(anchor = None \/ AuditRecorded(notices))
  <2>1. notices' = [notices EXCEPT ![anchor] = 1] BY <1>2 DEF Noticed
  <2>2. notices \in [0..MaxHead -> Nat] /\ \A c \in 0..MaxHead : notices[c] <= 1
    BY DEF RoundInv, RoundTypeOK, OneNoticePerBaseline
  <2>3. notices' \in [0..MaxHead -> Nat]
    <3>1. \A c \in 0..MaxHead : [notices EXCEPT ![anchor] = 1][c] \in Nat BY <2>2
    <3>2. [notices EXCEPT ![anchor] = 1] \in [0..MaxHead -> Nat] BY <2>2, <3>1
    <3> QED BY <2>1, <3>2
  <2>4. ASSUME NEW c \in 0..MaxHead PROVE notices'[c] <= 1
    <3>1. notices'[c] = IF c = anchor THEN 1 ELSE notices[c] BY <2>1, <2>2
    <3> QED BY <2>2, <3>1
  <2> QED BY <2>3, <2>4 DEF OneNoticePerBaseline
<1> QED BY <1>1, <1>2

LEMMA ReaskedKeeps ==
  ASSUME RoundInv, point = "turn",
         tries < PARSE_RETRIES, tries' = tries + 1, calls' = calls + 1,
         UNCHANGED <<rowv, anchor, task, baseline, gitv, point, attempt, retried>>,
         notices' \in [0..MaxHead -> Nat], OneNoticePerBaseline'
  PROVE  RoundInv'
<1> USE RoundAssumption DEF RoundAssumption, RoundInv
<1>1. RoundTypeOK' BY DEF RoundTypeOK, rowv, gitv
<1>2. Spent'
  <2>1. calls <= (attempt - 1 + Again) * (1 + PARSE_RETRIES) + tries + 1 BY DEF Spent
  <2>2. attempt - 1 + Again \in Nat /\ tries \in Nat /\ calls \in Nat BY DEF RoundTypeOK, Again
  <2>3. (attempt - 1 + Again) * (1 + PARSE_RETRIES) \in Nat BY <2>2, OneMore
  <2>4. calls + 1 <= (attempt - 1 + Again) * (1 + PARSE_RETRIES) + tries + 1 + 1 BY <2>1, <2>2, <2>3
  <2>5. Again' = Again BY DEF Again
  <2>6. (attempt' - 1 + Again') * (1 + PARSE_RETRIES) = (attempt - 1 + Again) * (1 + PARSE_RETRIES) BY <2>5
  <2> QED BY <2>2, <2>3, <2>4, <2>6 DEF Spent
<1>3. CallsBounded' BY <1>1, <1>2, Budget
<1>4. Anchored' /\ WorkStaysClaimable' BY DEF Anchored, WorkStaysClaimable, gitv
<1> QED BY <1>1, <1>2, <1>3, <1>4

\* Steps that spend no invocation, move no baseline and record no notice.
LEMMA QuietKeeps ==
  ASSUME RoundInv, RoundTypeOK', UNCHANGED <<baseline, calls, notices>>,
         point' = "turn" => point = "turn" /\ UNCHANGED <<attempt, tries, retried>>,
         \/ UNCHANGED landed /\ head' \in {head, head + 1}
         \/ point = "turn" /\ head' = head + 1 /\ landed' = landed \cup {head + 1}
  PROVE  RoundInv'
<1> USE DEF RoundInv
<1>1. Spent' BY DEF Spent, Again
<1>2. CallsBounded' BY <1>1, Budget
<1>3. Anchored'
  BY DEF Anchored, RoundTypeOK
<1>4. WorkStaysClaimable'
  BY DEF Anchored, WorkStaysClaimable, RoundTypeOK
<1>5. OneNoticePerBaseline' BY DEF OneNoticePerBaseline
<1> QED BY <1>1, <1>2, <1>3, <1>4, <1>5

LEMMA TurnKeeps ==
  ASSUME RoundInv, Turn
  PROVE  RoundInv'
<1> USE RoundAssumption DEF RoundAssumption
<1>1. ASSUME NEW commits \in SUBSET (1..MaxHead), TurnReports(commits)
      PROVE  RoundInv'
  <2>1. CASE verify_mechanical(commits)
    <3>1. task' = "done" /\ point' = "round" /\ UNCHANGED <<rowv, anchor, baseline, gitv, loopv, notices>>
      BY <1>1, <2>1 DEF TurnReports
    <3>2. RoundTypeOK' BY <3>1 DEF RoundInv, RoundTypeOK, rowv, gitv, loopv
    <3> QED BY <3>1, <3>2, QuietKeeps DEF gitv, loopv, RoundInv, RoundTypeOK
  <2>2. CASE ~verify_mechanical(commits)
    BY <1>1, <2>2, AttemptFailsKeeps DEF TurnReports
  <2> QED BY <2>1, <2>2
<1>2. CASE TurnAsks
  <2>1. RoundTypeOK' BY <1>2 DEF TurnAsks, Settled, RoundInv, RoundTypeOK, gitv, loopv, None
  <2> QED BY <1>2, <2>1, QuietKeeps DEF TurnAsks, Settled, gitv, loopv, RoundInv, RoundTypeOK
<1>3. CASE TurnUnparseable
  <2>1. CASE AttemptFails BY <1>3, <2>1, AttemptFailsKeeps DEF TurnUnparseable
  <2>2. CASE ~AttemptFails
    <3>1. /\ point = "turn" /\ tries < PARSE_RETRIES /\ tries' = tries + 1 /\ calls' = calls + 1
          /\ UNCHANGED <<rowv, anchor, task, baseline, gitv, point, attempt, retried, notices>>
      BY <1>3, <2>2 DEF TurnUnparseable
    <3>2. notices' \in [0..MaxHead -> Nat] /\ OneNoticePerBaseline'
      BY <3>1 DEF RoundInv, RoundTypeOK, OneNoticePerBaseline
    <3> QED BY <3>1, <3>2, ReaskedKeeps
  <2> QED BY <2>1, <2>2
<1>4. ASSUME point = "turn", notices' = Noticed(notices), CrashRetry
      PROVE  RoundInv'
  <2>1. notices' \in [0..MaxHead -> Nat] /\ OneNoticePerBaseline' BY <1>4, NoticedOnce
  <2>2. RoundTypeOK' BY <1>4, <2>1 DEF CrashRetry, RoundInv, RoundTypeOK, rowv, gitv
  <2>3. Spent'
    <3>1. /\ Again = 0 /\ Again' = 1 /\ attempt' = attempt /\ tries' = 0 /\ calls' = calls + 1
      BY <1>4, <2>2 DEF CrashRetry, Again
    <3>2. attempt - 1 \in Nat /\ attempt \in Nat /\ tries \in 0..PARSE_RETRIES /\ calls \in Nat
      BY DEF RoundInv, RoundTypeOK
    <3>3. calls <= (attempt - 1) * (1 + PARSE_RETRIES) + tries + 1
      <4>1. calls <= (attempt - 1 + Again) * (1 + PARSE_RETRIES) + tries + 1 BY <1>4 DEF RoundInv, Spent
      <4>2. attempt - 1 + Again = attempt - 1 BY <3>1, <3>2
      <4> QED BY <4>1, <4>2
    <3>4. calls + 1 <= (attempt - 1 + 1) * (1 + PARSE_RETRIES) + 0 + 1 BY <3>2, <3>3, NextTurnFits
    <3>5. attempt - 1 + 1 = attempt' - 1 + Again' BY <3>1, <3>2
    <3> QED BY <3>1, <3>4, <3>5 DEF Spent
  <2>4. CallsBounded' BY <1>4, <2>2, <2>3, Budget DEF CrashRetry
  <2>5. Anchored' /\ WorkStaysClaimable'
    BY <1>4 DEF CrashRetry, RoundInv, Anchored, WorkStaysClaimable, gitv
  <2> QED BY <2>1, <2>2, <2>3, <2>4, <2>5 DEF RoundInv
<1>5. ASSUME notices' = Noticed(notices), HandOver
      PROVE  RoundInv'
  <2>1. notices' \in [0..MaxHead -> Nat] /\ OneNoticePerBaseline' BY <1>5, NoticedOnce
  <2>2. RoundTypeOK' BY <1>5, <2>1 DEF HandOver, Settled, RoundInv, RoundTypeOK, gitv, loopv, None
  <2>3. Spent' BY <1>5 DEF HandOver, Settled, Spent
  <2>4. CallsBounded' BY <1>5, <2>2, <2>3, Budget DEF HandOver, loopv
  <2>5. Anchored' /\ WorkStaysClaimable'
    BY <1>5 DEF HandOver, Settled, RoundInv, Anchored, WorkStaysClaimable, gitv
  <2> QED BY <2>1, <2>2, <2>3, <2>4, <2>5 DEF RoundInv
<1>6. CASE TurnCrashes
  <2>0. point = "turn" BY <1>6 DEF TurnCrashes
  <2>1. CASE /\ notices' = Noticed(notices)
             /\ tries < PARSE_RETRIES /\ tries' = tries + 1 /\ calls' = calls + 1
             /\ UNCHANGED <<rowv, anchor, task, baseline, gitv, point, attempt, retried>>
    BY <2>0, <2>1, NoticedOnce, ReaskedKeeps
  <2>2. CASE notices' = Noticed(notices) /\ CrashRetry BY <2>0, <2>2, <1>4
  <2>3. CASE notices' = Noticed(notices) /\ HandOver BY <2>3, <1>5
  <2>4. CASE AttemptFails BY <2>0, <2>4, AttemptFailsKeeps
  <2> QED BY <1>6, <2>1, <2>2, <2>3, <2>4 DEF TurnCrashes
<1>7. CASE TurnTimesOut
  BY <1>7, <1>5, AttemptFailsKeeps DEF TurnTimesOut
<1> QED BY <1>1, <1>2, <1>3, <1>6, <1>7 DEF Turn

LEMMA RoundInductive == RoundInv /\ [RoundNext]_roundVars => RoundInv'
<1> SUFFICES ASSUME RoundInv, [RoundNext]_roundVars PROVE RoundInv' OBVIOUS
<1> USE RoundAssumption DEF RoundAssumption
<1>0. RoundTypeOK BY DEF RoundInv
<1>1. CASE Rearm
  <2>1. RoundTypeOK' BY <1>0, <1>1 DEF Rearm, Armed, RoundTypeOK, gitv, loopv, None
  <2> QED BY <1>0, <1>1, <2>1, QuietKeeps DEF Rearm, gitv, loopv, RoundTypeOK
<1>2. CASE Pause
  <2>1. RoundTypeOK' BY <1>0, <1>2 DEF Pause, RoundTypeOK, gitv, loopv, None
  <2> QED BY <1>0, <1>2, <2>1, QuietKeeps DEF Pause, gitv, loopv, RoundTypeOK
<1>3. CASE EnterRound
  <2>1. RoundTypeOK' BY <1>0, <1>3 DEF EnterRound, RoundTypeOK, rowv, gitv
  <2> QED BY <1>0, <1>3, <2>1, QuietKeeps DEF EnterRound, gitv, RoundTypeOK
<1>4. CASE LeaveRound
  <2>1. RoundTypeOK' BY <1>0, <1>4 DEF LeaveRound, RoundTypeOK, rowv, gitv, loopv
  <2> QED BY <1>0, <1>4, <2>1, QuietKeeps DEF LeaveRound, gitv, loopv, RoundTypeOK
<1>5. CASE RoundEnds
  <2>1. RoundTypeOK' BY <1>0, <1>5 DEF RoundEnds, Settled, RoundTypeOK, gitv, loopv, None
  <2> QED BY <1>0, <1>5, <2>1, QuietKeeps DEF RoundEnds, Settled, gitv, loopv, RoundTypeOK
<1>6. CASE PickTask
  <2>1. /\ baseline' = IF baseline = None THEN head ELSE baseline
        /\ point' = "turn" /\ attempt' = 1 /\ tries' = 0 /\ calls' = 1
        /\ UNCHANGED <<gitv, retried, notices>>
    BY <1>6 DEF PickTask
  <2>2. RoundTypeOK' BY <1>0, <1>6 DEF PickTask, RoundTypeOK, rowv, gitv, None
  <2>3. Spent'
    <3>1. attempt' - 1 + Again' \in Nat /\ 1 + PARSE_RETRIES \in Nat BY <2>1 DEF Again
    <3>2. (attempt' - 1 + Again') * (1 + PARSE_RETRIES) \in Nat BY <3>1, OneMore
    <3> QED BY <2>1, <3>2 DEF Spent
  <2>4. CallsBounded' BY <2>1, <2>2, <2>3, Budget
  <2>5. Anchored' /\ WorkStaysClaimable'
    BY <1>0, <2>1 DEF RoundInv, Anchored, WorkStaysClaimable, RoundTypeOK, gitv, None
  <2>6. OneNoticePerBaseline' BY <2>1 DEF RoundInv, OneNoticePerBaseline
  <2> QED BY <2>2, <2>3, <2>4, <2>5, <2>6 DEF RoundInv
<1>7. CASE Turn BY <1>7, TurnKeeps
<1>8. CASE TurnCommits
  <2>1. RoundTypeOK' BY <1>0, <1>8 DEF TurnCommits, RoundTypeOK, rowv, loopv
  <2> QED BY <1>0, <1>8, <2>1, QuietKeeps DEF TurnCommits, loopv, RoundTypeOK
<1>9. CASE RoundDies
  <2>1. RoundTypeOK' BY <1>0, <1>9 DEF RoundDies, RoundTypeOK, rowv, gitv, loopv, None
  <2> QED BY <1>0, <1>9, <2>1, QuietKeeps DEF RoundDies, gitv, loopv, RoundTypeOK
<1>10. CASE OthersCommit
  <2>1. RoundTypeOK' BY <1>0, <1>10 DEF OthersCommit, RoundTypeOK, rowv, loopv
  <2> QED BY <1>0, <1>10, <2>1, QuietKeeps DEF OthersCommit, loopv, RoundTypeOK
<1>11. CASE Rewrite
  <2>1. RoundTypeOK' BY <1>0, <1>11 DEF Rewrite, RoundTypeOK, rowv, loopv
  <2> QED BY <1>0, <1>11, <2>1, QuietKeeps DEF Rewrite, loopv, RoundTypeOK
<1>12. CASE UNCHANGED roundVars
  <2>1. RoundTypeOK' BY <1>0, <1>12 DEF roundVars, RoundTypeOK, rowv, gitv, loopv
  <2> QED BY <1>0, <1>12, <2>1, QuietKeeps DEF roundVars, gitv, loopv, RoundTypeOK
<1> QED
  BY <1>1, <1>2, <1>3, <1>4, <1>5, <1>6, <1>7, <1>8, <1>9, <1>10, <1>11, <1>12
  DEF RoundNext, RoundStep

-----------------------------------------------------------------------------
(* The theorems *)

THEOREM RoundHolds == RoundSpec => []RoundInv
BY RoundInitial, RoundInductive, PTL DEF RoundSpec

\* Whatever crashes, unusable answers, pauses and restarts meet one task, a dispatch
\* invokes the agent for it only as often as its budgets say (_run_build_round,
\* invoke_agent_with_parse_retry).
THEOREM TaskIsBounded == RoundSpec => []CallsBounded
BY RoundHolds, PTL DEF RoundInv

\* The commits of a lost turn stay newer than the task's baseline, so that a later
\* attempt, of this dispatch or another, can report them (verify_mechanical).
THEOREM WorkIsNotLost == RoundSpec => []WorkStaysClaimable
BY RoundHolds, PTL DEF RoundInv

\* A dispatch baseline is audited once (_lost_work_audit_recorded).
THEOREM ToldOnce == RoundSpec => []OneNoticePerBaseline
BY RoundHolds, PTL DEF RoundInv
-----------------------------------------------------------------------------
(* The task as the build stage promises it *)

\* A turn is one at the task.
TurnWorks == point = "turn" => task = "in_progress"

\* A failed attempt is followed by another, or the task is failed.
LEMMA AttemptFailsAsPromised ==
  ASSUME point = "turn", task = "in_progress", AttemptFails
  PROVE  TurnWorks' /\ (T!Fail \/ UNCHANGED T!taskVars)
<1>1. CASE attempt < SELF_CHECK_RETRIES
  BY <1>1 DEF AttemptFails, TurnWorks, T!taskVars, rowv
<1>2. CASE ~(attempt < SELF_CHECK_RETRIES)
  BY <1>2 DEF AttemptFails, Settled, TurnWorks, T!Fail
<1> QED BY <1>1, <1>2

\* A dispatch that settles over a task hands it back.
LEMMA SettledHandsBack ==
  ASSUME NEW status \in {"awaiting", "blocked"}, Settled(status), UNCHANGED task
  PROVE  TurnWorks' /\ T!HandBack
BY DEF Settled, TurnWorks, T!HandBack

\* The steps of a turn.
LEMMA TurnAsPromised ==
  ASSUME TurnWorks, Turn
  PROVE  TurnWorks' /\ [T!Next]_(T!taskVars)
<1>1. point = "turn" /\ task = "in_progress"
  BY DEF Turn, TurnReports, TurnAsks, TurnUnparseable, TurnCrashes, TurnTimesOut, TurnWorks
<1>2. CASE AttemptFails BY <1>1, <1>2, AttemptFailsAsPromised DEF T!Next
<1>3. CASE UNCHANGED <<rowv, task, point>> BY <1>1, <1>3 DEF TurnWorks, T!taskVars, rowv
<1>4. CASE TurnAsks BY <1>4, SettledHandsBack DEF TurnAsks, T!Next
<1>5. CASE HandOver BY <1>5, SettledHandsBack DEF HandOver, T!Next
<1>6. CASE \E commits \in SUBSET (1..MaxHead) : TurnReports(commits) /\ verify_mechanical(commits)
  BY <1>1, <1>6 DEF TurnReports, TurnWorks, T!Next, T!Done, rowv
<1> QED BY <1>2, <1>3, <1>4, <1>5, <1>6 DEF Turn, TurnReports, TurnUnparseable, TurnCrashes, CrashRetry, TurnTimesOut

LEMMA RoundAsPromised ==
  ASSUME RoundTypeOK, TurnWorks, [RoundNext]_roundVars
  PROVE  TurnWorks' /\ [T!Next]_(T!taskVars)
<1>1. CASE Rearm BY <1>1 DEF Rearm, Armed, TurnWorks, T!Next, T!Arm
<1>2. CASE Pause BY <1>2 DEF Pause, TurnWorks, T!Next, T!Pause
<1>3. CASE EnterRound BY <1>3 DEF EnterRound, TurnWorks, T!Next, T!Enter, rowv, RoundTypeOK
<1>4. CASE LeaveRound BY <1>4 DEF LeaveRound, TurnWorks, T!Next, T!HandBack, rowv
<1>5. CASE RoundEnds BY <1>5, SettledHandsBack DEF RoundEnds, T!Next
<1>6. CASE PickTask BY <1>6 DEF PickTask, TurnWorks, T!Next, T!Pick, rowv
<1>7. CASE Turn BY <1>7, TurnAsPromised
<1>8. CASE RoundDies BY <1>8 DEF RoundDies, TurnWorks, T!Next, T!HandBack, rowv
<1>9. CASE TurnCommits \/ OthersCommit \/ Rewrite \/ UNCHANGED roundVars
  BY <1>9 DEF TurnCommits, OthersCommit, Rewrite, roundVars, TurnWorks, T!taskVars, rowv
<1> QED BY <1>1, <1>2, <1>3, <1>4, <1>5, <1>6, <1>7, <1>8, <1>9 DEF RoundNext, RoundStep

\* The round implements the promise of the build stage (_run_build_round): whatever the
\* budgets, the attempts and the retries inside a turn are one turn at the task, which
\* is done, failed or handed back, and every other step is one the promise knows.
THEOREM RoundKeepsPromise == RoundSpec => TaskIsBuilt
<1>1. RoundInit => TurnWorks /\ T!Init BY DEF RoundInit, TurnWorks, T!Init
<1>2. RoundTypeOK /\ TurnWorks /\ [RoundNext]_roundVars => TurnWorks' /\ [T!Next]_(T!taskVars)
  BY RoundAsPromised
<1>3. RoundSpec => []RoundTypeOK BY RoundHolds, PTL DEF RoundInv
<1> QED BY <1>1, <1>2, <1>3, PTL DEF RoundSpec, TaskIsBuilt, T!Spec

-----------------------------------------------------------------------------
(* The roll-up of work items *)

Progress == {"todo", "in_progress", "done", "failed"}
Rolled   == Progress \cup {"planned", "kept"}
Rollup   == [task : Tasks, status : Progress, feat : Progress \cup {"kept"}, epic : Rolled]

\* The statuses are those of the code, and rows have one parent each.
WorkAssumption ==
  /\ Reported \subseteq Progress
  /\ FeatOf \in [Tasks -> FeatRows] /\ EpicOf \in [FeatRows -> Epics]
  /\ Tasks \cap FeatRows = {}

WorkTyped ==
  /\ tasks \in [Tasks -> Progress \cup {"none"}]
  /\ feats \in [FeatRows -> Progress \cup {"none"}]
  /\ epics \in [Epics -> Progress \cup {"none", "planned"}]
  /\ updates \in [Updates -> Rollup \cup {NoUpdate}]

\* No row without its parent, and no update without its task.
Rooted ==
  /\ \A t \in Tasks : tasks[t] # "none" => feats[FeatOf[t]] # "none"
  /\ \A f \in FeatRows : feats[f] # "none" => epics[EpicOf[f]] # "none"
  /\ \A u \in Updates : updates[u] # NoUpdate => tasks[updates[u].task] # "none"

Over(status) == status \in {"none", "done"}

\* What an epic that is done stands on, and a feat: what is below them is done, or
\* was added since.
EpicStands(e) == epics[e] = "done" => \A f \in FeatsOf(e) : Over(feats[f]) \/ f \in unrolled
FeatStands(f) == feats[f] = "done" => \A t \in TasksOf(f) : Over(tasks[t]) \/ t \in unrolled

Works(u, e) == updates[u] # NoUpdate /\ EpicOfTask(updates[u].task) = e

\* The statuses feat and epic will have when an update commits.
FeatThen(u) == IF updates[u].feat = "kept" THEN feats[FeatOf[updates[u].task]] ELSE updates[u].feat
EpicThen(u) == IF updates[u].epic = "kept" THEN epics[EpicOfTask(updates[u].task)] ELSE updates[u].epic

\* What a roll-up that has not committed will put up still follows from what is below.
FeatWillStand(u) ==
  FeatThen(u) = "done" =>
    /\ updates[u].status = "done"
    /\ \A t \in TasksOf(FeatOf[updates[u].task]) \ {updates[u].task} : Over(tasks[t])
EpicWillStand(u) ==
  EpicThen(u) = "done" =>
    LET f    == FeatOf[updates[u].task]
        kept == updates[u].feat = "kept"
    IN /\ FeatThen(u) = "done" \/ (kept /\ f \in unrolled)
       /\ \A g \in FeatsOf(EpicOf[f]) \ {f} : Over(feats[g]) \/ (kept /\ g \in unrolled)

\* An epic whose statuses all came from roll-ups, one at a time.
Clean(e) ==
  /\ EpicStands(e) /\ \A f \in FeatsOf(e) : FeatStands(f)
  /\ \A u, v \in Updates : Works(u, e) /\ Works(v, e) => u = v
  /\ \A u \in Updates : Works(u, e) => FeatWillStand(u) /\ EpicWillStand(u)

WorkInv == WorkTyped /\ Rooted /\ \A e \in Epics \ mixed : Clean(e)

\* No rows: nothing is done.
LEMMA WorkInitial == ASSUME WorkAssumption, WorkInit PROVE WorkInv
<1>1. WorkTyped BY DEF WorkInit, WorkTyped
<1>2. Rooted BY DEF WorkInit, Rooted
<1>3. \A e \in Epics : Clean(e)
  BY DEF WorkAssumption, WorkInit, Clean, EpicStands, FeatStands, Works, FeatsOf
<1> QED BY <1>1, <1>2, <1>3 DEF WorkInv

\* A roll-up of what is not empty says done when all of it is.
LEMMA RollsUp ==
  ASSUME NEW s, s # {}, s \subseteq Progress, NEW now
  PROVE  /\ RollFeat(now, s) \in Progress /\ (RollFeat(now, s) = "done" => s = {"done"})
         /\ RollEpic(now, s) \in Progress \cup {"planned"} /\ (RollEpic(now, s) = "done" => s = {"done"})
BY DEF RollFeat, RollEpic, Progress

\* Whose epic a task's is.
LEMMA Parents ==
  ASSUME WorkAssumption
  PROVE  /\ \A t \in Tasks : FeatOf[t] \in FeatRows /\ EpicOfTask(t) \in Epics /\ t \in TasksOf(FeatOf[t])
                             /\ FeatOf[t] \in FeatsOf(EpicOfTask(t))
         /\ \A e \in Epics : \A f \in FeatsOf(e) : f \in FeatRows /\ EpicOf[f] = e
                             /\ \A t \in TasksOf(f) : t \in Tasks /\ FeatOf[t] = f /\ EpicOfTask(t) = e
BY DEF WorkAssumption, EpicOfTask, TasksOf, FeatsOf

\* An update under way has its rows.
LEMMA Rows ==
  ASSUME WorkAssumption, WorkTyped, Rooted, NEW u \in Updates, updates[u] # NoUpdate
  PROVE  /\ updates[u] \in Rollup /\ updates[u].task \in Tasks /\ tasks[updates[u].task] # "none"
         /\ feats[FeatOf[updates[u].task]] # "none" /\ epics[EpicOfTask(updates[u].task)] # "none"
BY DEF WorkAssumption, WorkTyped, Rooted, Rollup, EpicOfTask

\* An epic keeps clean when no status in it changes but to nothing, nothing is added to it
\* beside an update, and its updates under way stay as they are.
LEMMA CleanKept ==
  ASSUME WorkAssumption, WorkInv, NEW e \in Epics, Clean(e), epics'[e] = epics[e],
         \A f \in FeatsOf(e) :
           \/ feats'[f] = feats[f] /\ (f \in unrolled => f \in unrolled')
           \/ feats'[f] = "none"
           \/ f \in unrolled' /\ feats'[f] # "done",
         \A f \in FeatsOf(e) : \A t \in TasksOf(f) :
           \/ tasks'[t] = tasks[t] /\ (t \in unrolled => t \in unrolled')
           \/ tasks'[t] = "none"
           \/ t \in unrolled',
         \A u \in Updates : Works(u, e)' =>
           /\ Works(u, e) /\ updates'[u] = updates[u]
           /\ feats'[FeatOf[updates[u].task]] = feats[FeatOf[updates[u].task]]
           /\ FeatOf[updates[u].task] \in unrolled => FeatOf[updates[u].task] \in unrolled'
           /\ \A f \in FeatsOf(e) : feats'[f] \in {feats[f], "none"}
           /\ \A t \in TasksOf(FeatOf[updates[u].task]) : tasks'[t] \in {tasks[t], "none"}
  PROVE  Clean(e)'
<1>1. EpicStands(e)' BY DEF Clean, EpicStands, Over
<1>2. \A f \in FeatsOf(e) : FeatStands(f)' BY DEF Clean, FeatStands, Over
<1>3. \A u, v \in Updates : Works(u, e)' /\ Works(v, e)' => u = v BY DEF Clean
<1>4. ASSUME NEW u \in Updates, Works(u, e)' PROVE FeatWillStand(u)' /\ EpicWillStand(u)'
  <2> DEFINE r == updates[u]
             f == FeatOf[r.task]
  <2>1. Works(u, e) /\ updates'[u] = r /\ feats'[f] = feats[f] /\ (f \in unrolled => f \in unrolled')
        /\ FeatWillStand(u) /\ EpicWillStand(u)
    BY <1>4 DEF Clean
  <2>2. r \in Rollup /\ r.task \in Tasks /\ EpicOfTask(r.task) = e /\ EpicOf[f] = e
    BY <2>1, Rows DEF Works, WorkInv, EpicOfTask
  <2>3. FeatThen(u)' = FeatThen(u) /\ EpicThen(u)' = EpicThen(u) BY <2>1, <2>2 DEF FeatThen, EpicThen, EpicOfTask
  <2>4. FeatWillStand(u)' BY <1>4, <2>1, <2>3 DEF FeatWillStand, Over
  <2>5. \A g \in FeatsOf(e) : Over(feats'[g]) \/ (Over(feats[g]) => Over(feats'[g])) BY <1>4 DEF Over
  <2>6. EpicWillStand(u)'
    <3>1. SUFFICES ASSUME EpicThen(u) = "done"
                   PROVE  /\ FeatThen(u) = "done" \/ (r.feat = "kept" /\ f \in unrolled')
                          /\ \A g \in FeatsOf(e) \ {f} :
                               Over(feats'[g]) \/ (r.feat = "kept" /\ g \in unrolled')
      BY <2>1, <2>2, <2>3 DEF EpicWillStand
    <3>2. /\ FeatThen(u) = "done" \/ (r.feat = "kept" /\ f \in unrolled)
          /\ \A g \in FeatsOf(e) \ {f} : Over(feats[g]) \/ (r.feat = "kept" /\ g \in unrolled)
      BY <2>1, <2>2, <3>1 DEF EpicWillStand
    <3> QED BY <1>4, <2>1, <3>2 DEF Over
  <2> QED BY <2>4, <2>6
<1> QED BY <1>1, <1>2, <1>3, <1>4 DEF Clean

\* A roll-up is computed.  It finds no other in its epic, or the epic is mixed.
LEMMA BeginKeepsWork ==
  ASSUME WorkAssumption, WorkInv, NEW u \in Updates, NEW t \in Tasks, NEW status \in Reported,
         UpdateBegins(u, t, status)
  PROVE  WorkInv'
<1> DEFINE f    == FeatOf[t]
           e    == EpicOf[f]
           fs   == Statuses([tasks EXCEPT ![t] = status], TasksOf(f))
           feat == RollFeat(feats[f], fs)
           es   == Statuses([feats EXCEPT ![f] = feat], FeatsOf(e))
           epic == IF feat = feats[f] THEN epics[e] ELSE RollEpic(epics[e], es)
           rec  == [task |-> t, status |-> status,
                    feat |-> IF feat = feats[f] THEN "kept" ELSE feat,
                    epic |-> IF epic = epics[e] THEN "kept" ELSE epic]
<1>t. WorkTyped /\ Rooted BY DEF WorkInv
<1>1. /\ updates[u] = NoUpdate /\ tasks[t] # "none" /\ Beside(e) /\ UNCHANGED <<tasks, feats, epics, unrolled>>
      /\ updates' = [updates EXCEPT ![u] = rec]
  BY DEF UpdateBegins
<1>2. /\ status \in Progress /\ f \in FeatRows /\ e \in Epics /\ e = EpicOfTask(t) /\ t \in TasksOf(f) /\ f \in FeatsOf(e)
  BY Parents DEF WorkAssumption, EpicOfTask
<1>3. feats[f] \in Progress /\ epics[e] \in Progress \cup {"planned"}
  BY <1>t, <1>1, <1>2 DEF WorkTyped, Rooted
<1>4. status \in fs /\ fs \subseteq Progress /\ \A k \in TasksOf(f) \ {t} : tasks[k] \in fs \cup {"none"}
  BY <1>t, <1>2, Parents DEF WorkTyped, Statuses, Progress, TasksOf
<1>5. feat \in Progress /\ (feat = "done" => fs = {"done"}) BY <1>4, RollsUp
<1>6. feat \in es /\ es \subseteq Progress /\ \A g \in FeatsOf(e) \ {f} : feats[g] \in es \cup {"none"}
  BY <1>t, <1>2, <1>5 DEF WorkTyped, Statuses, Progress, FeatsOf
<1>7. epic \in Progress \cup {"planned"} /\ (epic = "done" /\ feat # feats[f] => es = {"done"})
  BY <1>3, <1>6, RollsUp
<1>8. rec \in Rollup BY <1>2, <1>5, <1>7 DEF Rollup, Rolled
<1>9. updates'[u] = rec /\ \A v \in Updates \ {u} : updates'[v] = updates[v] BY <1>t, <1>1 DEF WorkTyped
<1>10. WorkTyped' BY <1>t, <1>1, <1>8 DEF WorkTyped
<1>11. Rooted' BY <1>t, <1>1, <1>9 DEF Rooted
<1>12. mixed \subseteq mixed' BY <1>1 DEF Beside, MayBeOff
<1>13. ASSUME NEW d \in Epics \ mixed', d # e PROVE Clean(d)'
  <2>1. Clean(d) BY <1>12, <1>13 DEF WorkInv
  <2>2. \A v \in Updates : Works(v, d)' => Works(v, d) /\ updates'[v] = updates[v]
    BY <1>2, <1>9, <1>13 DEF Works
  <2> QED BY <1>1, <1>13, <2>1, <2>2, CleanKept
<1>14. ASSUME e \notin mixed' PROVE Clean(e)'
  <2>1. Clean(e) BY <1>2, <1>12, <1>14 DEF WorkInv
  <2>2. \A v \in Updates : ~Works(v, e)
    <3>1. SUFFICES ASSUME NEW v \in Updates, Works(v, e) PROVE FALSE OBVIOUS
    <3>2. updates[v].task \in Tasks /\ EpicOfTask(updates[v].task) = e /\ BeingUpdated(updates[v].task)
      BY <1>t, <3>1, Rows DEF Works, BeingUpdated
    <3> QED BY <1>1, <1>14, <3>2 DEF Beside, MayBeOff
  <2>3. \A v \in Updates : Works(v, e)' => v = u BY <1>9, <2>2 DEF Works
  <2>4. EpicStands(e)' /\ \A g \in FeatsOf(e) : FeatStands(g)' BY <1>1, <2>1 DEF Clean, EpicStands, FeatStands
  <2>r. /\ updates'[u].task = t /\ updates'[u].status = status
        /\ updates'[u].feat = IF feat = feats[f] THEN "kept" ELSE feat
        /\ updates'[u].epic = IF epic = epics[e] THEN "kept" ELSE epic
    BY <1>9
  <2>k. feat # "kept" /\ epic # "kept" BY <1>5, <1>7 DEF Progress
  <2>f. FeatThen(u)' = feat BY <1>1, <2>r, <2>k DEF FeatThen
  <2>e. EpicThen(u)' = epic BY <1>1, <1>2, <2>r, <2>k DEF EpicThen
  <2>5. FeatThen(u)' = feat /\ EpicThen(u)' = epic BY <2>f, <2>e
  <2>6. FeatWillStand(u)'
    <3>1. SUFFICES ASSUME feat = "done" PROVE status = "done" /\ \A k \in TasksOf(f) \ {t} : Over(tasks[k])
      BY <1>1, <2>r, <2>5 DEF FeatWillStand, Over
    <3>2. fs = {"done"} BY <1>5, <3>1
    <3> QED BY <1>4, <3>2 DEF Over
  <2>7. ASSUME epic = "done"
        PROVE  /\ feat = "done" \/ (feat = feats[f] /\ f \in unrolled)
               /\ \A g \in FeatsOf(e) \ {f} : Over(feats[g]) \/ (feat = feats[f] /\ g \in unrolled)
    <3>2. CASE feat = feats[f]
      <4>1. \A g \in FeatsOf(e) : Over(feats[g]) \/ g \in unrolled BY <2>1, <2>7, <3>2 DEF Clean, EpicStands
      <4> QED BY <1>2, <1>3, <3>2, <4>1 DEF Over, Progress
    <3>3. CASE feat # feats[f] BY <1>6, <1>7, <2>7, <3>3 DEF Over
    <3> QED BY <3>2, <3>3
  <2>8. EpicWillStand(u)'
    <3>1. updates'[u].feat = "kept" <=> feat = feats[f] BY <2>r, <2>k
    <3> HIDE DEF feat, epic, fs, es, rec
    <3>2. SUFFICES ASSUME epic = "done"
                   PROVE  /\ feat = "done" \/ (updates'[u].feat = "kept" /\ f \in unrolled')
                          /\ \A g \in FeatsOf(e) \ {f} :
                               Over(feats'[g]) \/ (updates'[u].feat = "kept" /\ g \in unrolled')
      BY <2>r, <2>f, <2>e DEF EpicWillStand, Over
    <3> QED BY <1>1, <2>7, <3>1, <3>2
  <2> QED BY <2>3, <2>4, <2>6, <2>8 DEF Clean
<1> QED BY <1>10, <1>11, <1>13, <1>14 DEF WorkInv

\* A roll-up is committed: what it puts up follows from what is below by now.
LEMMA CommitKeepsWork ==
  ASSUME WorkAssumption, WorkInv, NEW u \in Updates, UpdateCommits(u),
         NEW k, k = updates[u].task, NEW f, f = FeatOf[k], NEW e, e = EpicOf[f]
  PROVE  WorkInv'
<1> DEFINE r == updates[u]
<1>t. WorkTyped /\ Rooted BY DEF WorkInv
<1>1. /\ r # NoUpdate /\ tasks' = [tasks EXCEPT ![k] = r.status]
      /\ feats' = [feats EXCEPT ![f] = FeatThen(u)] /\ epics' = [epics EXCEPT ![e] = EpicThen(u)]
      /\ unrolled' = unrolled \ (TasksOf(f) \cup IF r.feat = "kept" THEN {} ELSE FeatsOf(e))
      /\ updates' = [updates EXCEPT ![u] = NoUpdate] /\ mixed' = mixed
  <2>1. k \in Tasks /\ f \in FeatRows /\ e \in Epics /\ r # NoUpdate
    BY <1>t, Rows DEF UpdateCommits, WorkAssumption
  <2> QED BY <1>t, <2>1 DEF UpdateCommits, FeatThen, EpicThen, EpicOfTask, WorkTyped
<1>2. /\ r \in Rollup /\ k \in Tasks /\ f \in FeatRows /\ e \in Epics /\ e = EpicOfTask(k)
      /\ tasks[k] # "none" /\ feats[f] # "none" /\ epics[e] # "none"
      /\ k \in TasksOf(f) /\ f \in FeatsOf(e)
  BY <1>t, <1>1, Rows, Parents DEF WorkAssumption, EpicOfTask
<1>3. /\ r.status \in Progress /\ FeatThen(u) \in Progress /\ EpicThen(u) \in Progress \cup {"planned"}
  BY <1>t, <1>2 DEF Rollup, Rolled, FeatThen, EpicThen, WorkTyped
<1>4. /\ tasks'[k] = r.status /\ \A t \in Tasks \ {k} : tasks'[t] = tasks[t]
      /\ feats'[f] = FeatThen(u) /\ \A g \in FeatRows \ {f} : feats'[g] = feats[g]
      /\ epics'[e] = EpicThen(u) /\ \A d \in Epics \ {e} : epics'[d] = epics[d]
      /\ updates'[u] = NoUpdate /\ \A v \in Updates \ {u} : updates'[v] = updates[v]
  BY <1>t, <1>1, <1>2 DEF WorkTyped
<1>5. WorkTyped' BY <1>t, <1>1, <1>3 DEF WorkTyped
<1>6. Rooted'
  <2>1. \A t \in Tasks : tasks'[t] # "none" => tasks[t] # "none" BY <1>2, <1>4
  <2>2. \A g \in FeatRows : feats'[g] # "none" <=> feats[g] # "none" BY <1>2, <1>3, <1>4 DEF Progress
  <2>3. \A d \in Epics : epics'[d] # "none" <=> epics[d] # "none" BY <1>2, <1>3, <1>4 DEF Progress
  <2>4. \A t \in Tasks : tasks[t] # "none" => tasks'[t] # "none" BY <1>3, <1>4 DEF Progress
  <2>5. \A v \in Updates : updates'[v] # NoUpdate =>
          updates'[v] = updates[v] /\ updates[v].task \in Tasks /\ tasks[updates[v].task] # "none"
    BY <1>t, <1>4, Rows
  <2> QED BY <1>t, <2>1, <2>2, <2>3, <2>4, <2>5, Parents DEF Rooted, WorkAssumption
<1>7. ASSUME NEW d \in Epics \ mixed', d # e PROVE Clean(d)'
  <2>1. Clean(d) BY <1>1, <1>7 DEF WorkInv
  <2>2. \A v \in Updates : Works(v, d)' => Works(v, d) /\ updates'[v] = updates[v] BY <1>4 DEF Works
  <2>3. \A g \in FeatsOf(d) : g # f /\ g \in FeatRows /\ g \notin FeatsOf(e) /\ g \notin TasksOf(f)
    BY <1>2, <1>7, Parents DEF FeatsOf, TasksOf, WorkAssumption
  <2>4. \A g \in FeatsOf(d) : feats'[g] = feats[g] /\ (g \in unrolled => g \in unrolled')
    BY <1>1, <1>4, <2>3
  <2>5. \A g \in FeatsOf(d) : \A t \in TasksOf(g) : tasks'[t] = tasks[t] /\ (t \in unrolled => t \in unrolled')
    <3>1. SUFFICES ASSUME NEW g \in FeatsOf(d), NEW t \in TasksOf(g)
                   PROVE  tasks'[t] = tasks[t] /\ (t \in unrolled => t \in unrolled')
      OBVIOUS
    <3>2. t \in Tasks /\ FeatOf[t] = g /\ t \notin TasksOf(f) /\ t \notin FeatsOf(e) /\ t # k
      BY <1>2, <2>3 DEF TasksOf, FeatsOf, WorkAssumption
    <3> QED BY <1>1, <1>4, <3>2
  <2>6. \A v \in Updates : Works(v, d) => FeatOf[updates[v].task] \in FeatsOf(d)
    BY <1>t, Rows, Parents DEF Works
  <2>7. epics'[d] = epics[d] BY <1>4, <1>7
  <2> QED BY <1>7, <2>1, <2>2, <2>4, <2>5, <2>6, <2>7, CleanKept
<1>8. ASSUME e \notin mixed' PROVE Clean(e)'
  <2>1. Clean(e) /\ Works(u, e) BY <1>1, <1>2, <1>8 DEF WorkInv, Works
  <2>2. \A v \in Updates : ~Works(v, e)' BY <1>4, <2>1 DEF Clean, Works
  <2>3. FeatWillStand(u) /\ EpicWillStand(u) BY <2>1 DEF Clean
  <2>4. ASSUME EpicThen(u) = "done", NEW g \in FeatsOf(e) PROVE Over(feats'[g]) \/ g \in unrolled'
    <3>1. \/ Over(feats'[g]) 
          \/ r.feat = "kept" /\ g \in unrolled
      BY <1>4, <2>3, <2>4, Parents, <1>2 DEF EpicWillStand, Over
    <3>2. g \notin TasksOf(f) BY <2>4 DEF TasksOf, FeatsOf, WorkAssumption
    <3> QED BY <1>1, <3>1, <3>2
  <2>5. EpicStands(e)' BY <1>4, <2>4 DEF EpicStands
  <2>6. FeatStands(f)'
    <3>1. SUFFICES ASSUME FeatThen(u) = "done", NEW t \in TasksOf(f) PROVE Over(tasks'[t])
      BY <1>4 DEF FeatStands
    <3>2. t \in Tasks BY DEF TasksOf
    <3> QED BY <1>4, <2>3, <3>1, <3>2 DEF FeatWillStand, Over
  <2>7. ASSUME NEW g \in FeatsOf(e), g # f PROVE FeatStands(g)'
    <3>1. g \in FeatRows /\ feats'[g] = feats[g] /\ FeatStands(g) BY <1>4, <2>1, <2>7 DEF Clean, FeatsOf
    <3>2. ASSUME NEW t \in TasksOf(g) PROVE tasks'[t] = tasks[t] /\ (t \in unrolled => t \in unrolled')
      <4>1. t \in Tasks /\ t \notin TasksOf(f) /\ t \notin FeatsOf(e) /\ t # k
        BY <1>2, <2>7 DEF TasksOf, FeatsOf, WorkAssumption
      <4> QED BY <1>1, <1>4, <4>1
    <3> QED BY <3>1, <3>2 DEF FeatStands
  <2> QED BY <2>2, <2>5, <2>6, <2>7 DEF Clean
<1> QED BY <1>5, <1>6, <1>7, <1>8 DEF WorkInv

\* Rows are added, set by hand and deleted; an update is lost.
LEMMA RowsKeepWork ==
  ASSUME WorkAssumption, WorkInv, updates' = updates,
         \/ \E t \in Tasks : CreateTask(t) \/ DeleteTask(t)
         \/ \E f \in FeatRows : CreateFeat(f) \/ DeleteFeat(f) \/ \E status \in Reported : SetFeat(f, status)
         \/ \E e \in Epics : CreateEpic(e) \/ DeleteEpic(e) \/ \E status \in Reported : SetEpic(e, status)
  PROVE  WorkInv'
<1>t. WorkTyped /\ Rooted /\ Reported \subseteq Progress BY DEF WorkInv, WorkAssumption
<1>w. \A u \in Updates, e \in Epics : Works(u, e)' <=> Works(u, e) BY DEF Works
<1>u. \A u \in Updates, e \in Epics : Works(u, e) =>
        /\ updates[u].task \in Tasks /\ EpicOfTask(updates[u].task) = e /\ BeingUpdated(updates[u].task)
        /\ FeatOf[updates[u].task] \in FeatsOf(e)
  BY <1>t, Rows, Parents DEF Works, BeingUpdated
<1>b. ASSUME NEW e \in Epics, Beside(e), e \notin mixed' PROVE \A u \in Updates : ~Works(u, e)
  BY <1>b, <1>u DEF Beside, MayBeOff
<1>1. ASSUME NEW t \in Tasks, CreateTask(t) PROVE WorkInv'
  <2> DEFINE c == EpicOfTask(t)
  <2>1. /\ tasks[t] = "none" /\ feats[FeatOf[t]] # "none" /\ tasks' = [tasks EXCEPT ![t] = "todo"]
        /\ unrolled' = unrolled \cup {t} /\ Beside(c) /\ UNCHANGED <<feats, epics, updates>>
    BY <1>1 DEF CreateTask
  <2>2. WorkTyped' BY <1>t, <2>1 DEF WorkTyped, Progress
  <2>3. tasks'[t] = "todo" /\ \A k \in Tasks \ {t} : tasks'[k] = tasks[k] BY <1>t, <2>1 DEF WorkTyped
  <2>4. Rooted'
    <3>1. \A u \in Updates : updates[u] # NoUpdate => tasks'[updates[u].task] # "none" BY <1>t, <2>3, Rows
    <3> QED BY <1>t, <2>1, <2>3, <3>1 DEF Rooted
  <2>5. ASSUME NEW e \in Epics \ mixed' PROVE Clean(e)'
    <3>1. Clean(e) BY <2>1, <2>5 DEF Beside, MayBeOff, WorkInv
    <3>2. \A f \in FeatsOf(e) : \A k \in TasksOf(f) : tasks'[k] = tasks[k] \/ k \in unrolled'
      BY <2>1, <2>3 DEF TasksOf
    <3>3. CASE e = c
      <4>1. \A u \in Updates : ~Works(u, e)' BY <1>b, <1>w, <2>1, <2>5, <3>3
      <4> QED BY <2>1, <3>1, <3>2, <4>1, CleanKept
    <3>4. CASE e # c
      <4>1. \A k \in Tasks : EpicOfTask(k) = e => tasks'[k] = tasks[k] BY <2>3, <3>4
      <4>2. \A f \in FeatsOf(e) : \A k \in TasksOf(f) : tasks'[k] = tasks[k] BY <4>1, Parents
      <4> QED BY <1>u, <1>w, <2>1, <3>1, <4>2, CleanKept
    <3> QED BY <3>3, <3>4
  <2> QED BY <2>2, <2>4, <2>5 DEF WorkInv
<1>2. ASSUME NEW t \in Tasks, DeleteTask(t) PROVE WorkInv'
  <2>1. /\ ~BeingUpdated(t) /\ tasks' = [tasks EXCEPT ![t] = "none"] /\ unrolled' = unrolled \ {t}
        /\ UNCHANGED <<feats, epics, updates, mixed>>
    BY <1>2 DEF DeleteTask
  <2>2. WorkTyped' BY <1>t, <2>1 DEF WorkTyped
  <2>3. tasks'[t] = "none" /\ \A k \in Tasks \ {t} : tasks'[k] = tasks[k] BY <1>t, <2>1 DEF WorkTyped
  <2>4. Rooted'
    <3>1. \A u \in Updates : updates[u] # NoUpdate => tasks'[updates[u].task] # "none"
      BY <1>t, <2>1, <2>3, Rows DEF BeingUpdated
    <3> QED BY <1>t, <2>1, <2>3, <3>1 DEF Rooted
  <2>5. ASSUME NEW e \in Epics \ mixed' PROVE Clean(e)'
    <3>1. Clean(e) BY <2>1, <2>5 DEF WorkInv
    <3>2. \A f \in FeatRows : f # t BY DEF WorkAssumption
    <3>3. \A f \in FeatsOf(e) : f \in unrolled => f \in unrolled' BY <2>1, <3>2 DEF FeatsOf
    <3>4. \A f \in FeatsOf(e) : \A k \in TasksOf(f) :
            (tasks'[k] = tasks[k] /\ (k \in unrolled => k \in unrolled')) \/ tasks'[k] = "none"
      BY <2>1, <2>3 DEF TasksOf
    <3>5. \A k \in Tasks : tasks'[k] \in {tasks[k], "none"} BY <2>3
    <3>6. \A f : \A k \in TasksOf(f) : tasks'[k] \in {tasks[k], "none"} BY <3>5 DEF TasksOf
    <3> QED BY <1>u, <1>w, <2>1, <3>1, <3>3, <3>4, <3>6, CleanKept
  <2> QED BY <2>2, <2>4, <2>5 DEF WorkInv
<1>3. ASSUME NEW f \in FeatRows, CreateFeat(f) PROVE WorkInv'
  <2>1. /\ feats[f] = "none" /\ epics[EpicOf[f]] # "none" /\ feats' = [feats EXCEPT ![f] = "todo"]
        /\ unrolled' = unrolled \cup {f} /\ Beside(EpicOf[f]) /\ UNCHANGED <<tasks, epics, updates>>
    BY <1>3 DEF CreateFeat
  <2>2. WorkTyped' BY <1>t, <2>1 DEF WorkTyped, Progress
  <2>3. feats'[f] = "todo" /\ \A g \in FeatRows \ {f} : feats'[g] = feats[g] BY <1>t, <2>1 DEF WorkTyped
  <2>4. Rooted'
    <3>1. \A k \in Tasks : tasks[k] # "none" => feats'[FeatOf[k]] # "none"
      BY <1>t, <2>3, Parents DEF Rooted
    <3> QED BY <1>t, <2>1, <2>3, <3>1 DEF Rooted
  <2>5. ASSUME NEW e \in Epics \ mixed' PROVE Clean(e)'
    <3>1. Clean(e) BY <2>1, <2>5 DEF Beside, MayBeOff, WorkInv
    <3>2. \A g \in FeatsOf(e) : (feats'[g] = feats[g] /\ (g \in unrolled => g \in unrolled'))
                                \/ (g \in unrolled' /\ feats'[g] # "done")
      BY <2>1, <2>3 DEF FeatsOf
    <3>3. CASE e = EpicOf[f]
      <4>1. \A u \in Updates : ~Works(u, e)' BY <1>b, <1>w, <2>1, <2>5, <3>3
      <4> QED BY <2>1, <3>1, <3>2, <4>1, CleanKept
    <3>4. CASE e # EpicOf[f]
      <4>1. \A g \in FeatsOf(e) : feats'[g] = feats[g] BY <2>3, <3>4 DEF FeatsOf
      <4> QED BY <1>u, <1>w, <2>1, <3>1, <4>1, CleanKept
    <3> QED BY <3>3, <3>4
  <2> QED BY <2>2, <2>4, <2>5 DEF WorkInv
<1>4. ASSUME NEW f \in FeatRows, DeleteFeat(f) PROVE WorkInv'
  <2>1. /\ \A t \in TasksOf(f) : ~BeingUpdated(t)
        /\ feats' = [feats EXCEPT ![f] = "none"]
        /\ tasks' = [t \in Tasks |-> IF FeatOf[t] = f THEN "none" ELSE tasks[t]]
        /\ unrolled' = unrolled \ ({f} \cup TasksOf(f)) /\ UNCHANGED <<epics, updates, mixed>>
    BY <1>4 DEF DeleteFeat
  <2>2. WorkTyped' BY <1>t, <2>1 DEF WorkTyped
  <2>3. feats'[f] = "none" /\ \A g \in FeatRows \ {f} : feats'[g] = feats[g] BY <1>t, <2>1 DEF WorkTyped
  <2>4. \A u \in Updates : updates[u] # NoUpdate =>
          FeatOf[updates[u].task] # f /\ tasks'[updates[u].task] = tasks[updates[u].task]
    BY <1>t, <2>1, Rows DEF BeingUpdated, TasksOf
  <2>5. Rooted'
    <3>1. \A u \in Updates : updates[u] # NoUpdate => tasks'[updates[u].task] # "none" BY <1>t, <2>4, Rows
    <3>2. \A k \in Tasks : tasks'[k] # "none" => feats'[FeatOf[k]] # "none"
      BY <1>t, <2>1, <2>3, Parents DEF Rooted
    <3> QED BY <1>t, <2>1, <2>3, <3>1, <3>2 DEF Rooted
  <2>6. ASSUME NEW e \in Epics \ mixed' PROVE Clean(e)'
    <3>1. Clean(e) BY <2>1, <2>6 DEF WorkInv
    <3>2. \A g \in FeatsOf(e) : (feats'[g] = feats[g] /\ (g \in unrolled => g \in unrolled')) \/ feats'[g] = "none"
      BY <2>1, <2>3 DEF FeatsOf, TasksOf, WorkAssumption
    <3>3. ASSUME NEW k \in Tasks
          PROVE  (tasks'[k] = tasks[k] /\ (k \in unrolled => k \in unrolled')) \/ tasks'[k] = "none"
      BY <2>1 DEF TasksOf, WorkAssumption
    <3>4. \A g : \A k \in TasksOf(g) :
            (tasks'[k] = tasks[k] /\ (k \in unrolled => k \in unrolled')) \/ tasks'[k] = "none"
      BY <3>3 DEF TasksOf
    <3>5. \A u \in Updates : Works(u, e) => LET g == FeatOf[updates[u].task] IN
            feats'[g] = feats[g] /\ (g \in unrolled => g \in unrolled')
      <4>1. SUFFICES ASSUME NEW u \in Updates, Works(u, e), NEW g, g = FeatOf[updates[u].task]
                     PROVE  feats'[g] = feats[g] /\ (g \in unrolled => g \in unrolled')
        OBVIOUS
      <4>2. g \in FeatRows /\ g # f /\ g \notin TasksOf(f)
        BY <1>u, <2>4, <4>1 DEF Works, FeatsOf, TasksOf, WorkAssumption
      <4> QED BY <2>1, <2>3, <4>2
    <3> QED BY <1>u, <1>w, <2>1, <3>1, <3>2, <3>4, <3>5, CleanKept
  <2> QED BY <2>2, <2>5, <2>6 DEF WorkInv
<1>5. ASSUME NEW f \in FeatRows, NEW status \in Reported, SetFeat(f, status) PROVE WorkInv'
  <2>1. /\ feats[f] # "none" /\ feats' = [feats EXCEPT ![f] = status] /\ mixed' = mixed \cup {EpicOf[f]}
        /\ UNCHANGED <<tasks, epics, updates, unrolled>>
    BY <1>5 DEF SetFeat, MayBeOff
  <2>2. WorkTyped' BY <1>t, <2>1 DEF WorkTyped
  <2>3. feats'[f] = status /\ \A g \in FeatRows \ {f} : feats'[g] = feats[g] BY <1>t, <2>1 DEF WorkTyped
  <2>4. Rooted' BY <1>t, <2>1, <2>3, Parents DEF Rooted, Progress
  <2>5. ASSUME NEW e \in Epics \ mixed' PROVE Clean(e)'
    <3>1. Clean(e) /\ e # EpicOf[f] BY <2>1, <2>5 DEF WorkInv
    <3>2. \A g \in FeatsOf(e) : feats'[g] = feats[g] BY <2>3, <3>1 DEF FeatsOf
    <3> QED BY <1>u, <1>w, <2>1, <3>1, <3>2, CleanKept
  <2> QED BY <2>2, <2>4, <2>5 DEF WorkInv
<1>6. ASSUME NEW c \in Epics, NEW status \in Reported, SetEpic(c, status) PROVE WorkInv'
  <2>1. /\ epics[c] # "none" /\ epics' = [epics EXCEPT ![c] = status] /\ mixed' = mixed \cup {c}
        /\ UNCHANGED <<tasks, feats, updates, unrolled>>
    BY <1>6 DEF SetEpic, MayBeOff
  <2>2. WorkTyped' BY <1>t, <2>1 DEF WorkTyped
  <2>3. epics'[c] = status /\ \A e \in Epics \ {c} : epics'[e] = epics[e] BY <1>t, <2>1 DEF WorkTyped
  <2>4. Rooted' BY <1>t, <2>1, <2>3, Parents DEF Rooted, Progress
  <2>5. ASSUME NEW e \in Epics \ mixed' PROVE Clean(e)'
    <3>1. Clean(e) /\ epics'[e] = epics[e] BY <2>1, <2>3, <2>5 DEF WorkInv
    <3> QED BY <1>u, <1>w, <2>1, <3>1, CleanKept
  <2> QED BY <2>2, <2>4, <2>5 DEF WorkInv
\* Nothing is below an epic that is not there.
<1>e. ASSUME NEW e \in Epics, epics'[e] # "done", \A f \in FeatsOf(e) : feats'[f] = "none",
             \A u \in Updates : ~Works(u, e)
      PROVE  Clean(e)'
  BY <1>e, <1>w DEF Clean, EpicStands, FeatStands
<1>7. ASSUME NEW c \in Epics, CreateEpic(c) PROVE WorkInv'
  <2>1. /\ epics[c] = "none" /\ epics' = [epics EXCEPT ![c] = "planned"]
        /\ UNCHANGED <<tasks, feats, updates, unrolled, mixed>>
    BY <1>7 DEF CreateEpic
  <2>2. WorkTyped' BY <1>t, <2>1 DEF WorkTyped
  <2>3. epics'[c] = "planned" /\ \A e \in Epics \ {c} : epics'[e] = epics[e] BY <1>t, <2>1 DEF WorkTyped
  <2>4. Rooted' BY <1>t, <2>1, <2>3, Parents DEF Rooted, Progress
  <2>5. ASSUME NEW e \in Epics \ mixed' PROVE Clean(e)'
    <3>1. Clean(e) BY <2>1, <2>5 DEF WorkInv
    <3>2. CASE e = c
      <4>1. \A f \in FeatsOf(e) : feats'[f] = "none" BY <1>t, <2>1, <3>2 DEF Rooted, FeatsOf
      <4>2. \A u \in Updates : ~Works(u, e) BY <1>t, <2>1, <3>2, Rows DEF Works
      <4> QED BY <1>e, <2>3, <3>2, <4>1, <4>2
    <3>3. CASE e # c
      <4>1. epics'[e] = epics[e] BY <2>3, <3>3
      <4> QED BY <1>u, <1>w, <2>1, <3>1, <4>1, CleanKept
    <3> QED BY <3>2, <3>3
  <2> QED BY <2>2, <2>4, <2>5 DEF WorkInv
<1>8. ASSUME NEW c \in Epics, DeleteEpic(c) PROVE WorkInv'
  <2>1. /\ \A t \in Tasks : EpicOfTask(t) = c => ~BeingUpdated(t)
        /\ epics' = [epics EXCEPT ![c] = "none"]
        /\ feats' = [f \in FeatRows |-> IF EpicOf[f] = c THEN "none" ELSE feats[f]]
        /\ tasks' = [t \in Tasks |-> IF EpicOfTask(t) = c THEN "none" ELSE tasks[t]]
        /\ unrolled' = unrolled \ (FeatsOf(c) \cup {t \in Tasks : EpicOfTask(t) = c})
        /\ mixed' = mixed \ {c}
    BY <1>8 DEF DeleteEpic
  <2>2. WorkTyped' BY <1>t, <2>1 DEF WorkTyped
  <2>3. epics'[c] = "none" /\ \A e \in Epics \ {c} : epics'[e] = epics[e] BY <1>t, <2>1 DEF WorkTyped
  <2>4. \A u \in Updates : ~Works(u, c) BY <1>u, <2>1
  <2>5. Rooted'
    <3>1. \A u \in Updates : updates[u] # NoUpdate => tasks'[updates[u].task] # "none"
      BY <1>t, <2>1, <2>4, Rows DEF Works
    <3>2. \A k \in Tasks : tasks'[k] # "none" => feats'[FeatOf[k]] # "none"
      BY <1>t, <2>1, Parents DEF Rooted, EpicOfTask
    <3>3. \A f \in FeatRows : feats'[f] # "none" => epics'[EpicOf[f]] # "none"
      BY <1>t, <2>1, <2>3 DEF Rooted, WorkAssumption
    <3> QED BY <3>1, <3>2, <3>3 DEF Rooted
  <2>6. ASSUME NEW e \in Epics \ mixed' PROVE Clean(e)'
    <3>1. CASE e = c BY <1>e, <2>1, <2>3, <2>4, <3>1 DEF FeatsOf
    <3>2. CASE e # c
      <4>1. Clean(e) /\ epics'[e] = epics[e] BY <2>1, <2>3, <2>6, <3>2 DEF WorkInv
      <4>2. \A f \in FeatsOf(e) : feats'[f] = feats[f] /\ (f \in unrolled => f \in unrolled')
        BY <2>1, <3>2 DEF FeatsOf, WorkAssumption
      <4>3. \A k \in Tasks : EpicOfTask(k) = e => tasks'[k] = tasks[k] /\ (k \in unrolled => k \in unrolled')
        BY <2>1, <3>2 DEF FeatsOf, WorkAssumption
      <4>4. \A f \in FeatsOf(e) : \A k \in TasksOf(f) : tasks'[k] = tasks[k] /\ (k \in unrolled => k \in unrolled')
        BY <4>3, Parents
      <4> QED BY <1>u, <1>w, <4>1, <4>2, <4>4, CleanKept
    <3> QED BY <3>1, <3>2
  <2> QED BY <2>2, <2>5, <2>6 DEF WorkInv
<1> QED BY <1>1, <1>2, <1>3, <1>4, <1>5, <1>6, <1>7, <1>8

\* Every step keeps what a done epic stands on.
LEMMA WorkStep ==
  ASSUME WorkAssumption, WorkInv, [WorkNext]_workVars
  PROVE  WorkInv'
<1>t. WorkTyped /\ Rooted BY DEF WorkInv
<1>1. ASSUME NEW u \in Updates, UpdateIsLost(u) PROVE WorkInv'
  <2>1. updates' = [updates EXCEPT ![u] = NoUpdate] /\ UNCHANGED <<tasks, feats, epics, unrolled, mixed>>
    BY <1>1 DEF UpdateIsLost
  <2>2. updates'[u] = NoUpdate /\ \A v \in Updates \ {u} : updates'[v] = updates[v] BY <1>t, <2>1 DEF WorkTyped
  <2>3. WorkTyped' BY <1>t, <2>1 DEF WorkTyped
  <2>4. Rooted' BY <1>t, <2>1, <2>2 DEF Rooted
  <2>5. ASSUME NEW e \in Epics \ mixed' PROVE Clean(e)'
    <3>1. Clean(e) BY <2>1, <2>5 DEF WorkInv
    <3>2. \A v \in Updates : Works(v, e)' => Works(v, e) /\ updates'[v] = updates[v] BY <2>2 DEF Works
    <3> QED BY <2>1, <3>1, <3>2, CleanKept
  <2> QED BY <2>3, <2>4, <2>5 DEF WorkInv
<1>2. ASSUME NEW u \in Updates, NEW t \in Tasks, NEW status \in Reported, UpdateBegins(u, t, status) PROVE WorkInv'
  BY <1>2, BeginKeepsWork
<1>3. ASSUME NEW u \in Updates, UpdateCommits(u) PROVE WorkInv'
  BY <1>3, CommitKeepsWork
<1>4. ASSUME \/ \E t \in Tasks : CreateTask(t) \/ DeleteTask(t)
             \/ \E f \in FeatRows : CreateFeat(f) \/ DeleteFeat(f) \/ \E status \in Reported : SetFeat(f, status)
             \/ \E e \in Epics : CreateEpic(e) \/ DeleteEpic(e) \/ \E status \in Reported : SetEpic(e, status)
      PROVE  WorkInv'
  <2>1. updates' = updates
    BY <1>4 DEF CreateTask, DeleteTask, CreateFeat, DeleteFeat, SetFeat, CreateEpic, DeleteEpic, SetEpic
  <2> QED BY <1>4, <2>1, RowsKeepWork
<1>5. ASSUME UNCHANGED workVars PROVE WorkInv'
  <2>1. UNCHANGED <<tasks, feats, epics, updates, unrolled, mixed>> BY <1>5 DEF workVars
  <2>2. WorkTyped' /\ Rooted' BY <1>t, <2>1 DEF WorkTyped, Rooted
  <2>3. ASSUME NEW e \in Epics \ mixed' PROVE Clean(e)'
    <3>1. Clean(e) BY <2>1, <2>3 DEF WorkInv
    <3>2. \A v \in Updates : Works(v, e)' => Works(v, e) /\ updates'[v] = updates[v] BY <2>1 DEF Works
    <3> QED BY <2>1, <3>1, <3>2, CleanKept
  <2> QED BY <2>2, <2>3 DEF WorkInv
<1> QED BY <1>1, <1>2, <1>3, <1>4, <1>5 DEF WorkNext

\* Behind an epic that is not mixed and that is done, or is not there, all is done or added.
LEMMA WorkFollows == ASSUME WorkAssumption, WorkInv PROVE ReleasableIsDone
<1>1. SUFFICES ASSUME Releasable, NEW t \in Tasks, tasks[t] # "none", EpicOfTask(t) \notin mixed,
                      {t, FeatOf[t]} \cap unrolled = {}
               PROVE  tasks[t] = "done"
  BY DEF ReleasableIsDone
<1>2. FeatOf[t] \in FeatsOf(EpicOfTask(t)) /\ t \in TasksOf(FeatOf[t]) /\ EpicOfTask(t) \in Epics /\ FeatOf[t] \in FeatRows
  BY Parents
<1>3. Clean(EpicOfTask(t)) BY <1>1, <1>2 DEF WorkInv
<1>4. feats[FeatOf[t]] # "none" /\ epics[EpicOfTask(t)] # "none"
  BY <1>1, <1>2 DEF WorkInv, Rooted, EpicOfTask
<1>5. epics[EpicOfTask(t)] = "done" BY <1>1, <1>2, <1>4 DEF Releasable
<1>6. feats[FeatOf[t]] = "done" BY <1>1, <1>2, <1>3, <1>4, <1>5 DEF Clean, EpicStands, Over
<1> QED BY <1>1, <1>2, <1>3, <1>6 DEF Clean, FeatStands, Over

\* Work items: behind a version that may be released every task is done, but for what was set
\* by hand, rolled up beside something else, or added since - for any plan.
THEOREM ReleasableStaysDone == ASSUME WorkAssumption PROVE WorkSpec => []ReleasableIsDone
<1>1. WorkInit => WorkInv BY WorkInitial
<1>2. WorkInv /\ [WorkNext]_workVars => WorkInv' BY WorkStep
<1>3. WorkInv => ReleasableIsDone BY WorkFollows
<1> QED BY <1>1, <1>2, <1>3, PTL DEF WorkSpec

-----------------------------------------------------------------------------
(* The backlog *)

\* Nil is no version and no message.
BacklogAssumption == MaxNumber \in Nat /\ Nil \notin Versions /\ Nil \notin Consults

Items       == [status : {"open", "included", "realized"}, version : Versions \cup {Nil}, consult : Consults \cup {Nil}]
CaptureRows == [at : {"number", "insert", "commit"}, consult : Consults, number : Nat, version : Versions]

BacklogTyped ==
  /\ items \in [ItemNumbers -> Items \cup {NoItem}] /\ drafts \in [Versions -> {"absent", "open", "released"}]
  /\ markers \in [Consults -> Versions \cup {Nil}] /\ captures \in [Captures -> CaptureRows \cup {NoCapture}]
  /\ doubled \subseteq Consults /\ strayed \subseteq ItemNumbers
  /\ \A c \in Captures : captures[c].at \in {"insert", "commit"} => captures[c].number \in ItemNumbers

ItemsOf(m) == {n \in ItemNumbers : Present(n) /\ items[n].consult = m}

\* A message is captured by one at a time, before it is marked, and has an item only then.
CapturedAlone(m) ==
  /\ \A c, d \in Capturing(m) : c = d
  /\ Capturing(m) # {} => markers[m] = Nil
  /\ markers[m] = Nil => ItemsOf(m) = {}
  /\ \A n, k \in ItemsOf(m) : n = k

BacklogInv == BacklogTyped /\ (\A m \in Consults \ doubled : CapturedAlone(m)) /\ IncludedIsAwaited

LEMMA BacklogInitial == ASSUME BacklogAssumption, BacklogInit PROVE BacklogInv
<1> USE DEF BacklogInit
<1>1. BacklogTyped BY DEF BacklogTyped, NoCapture
<1>2. \A m \in Consults : Capturing(m) = {} /\ ItemsOf(m) = {} BY DEF Capturing, ItemsOf, Present
<1>3. \A m \in Consults : CapturedAlone(m) BY <1>2 DEF CapturedAlone
<1>4. IncludedIsAwaited BY DEF IncludedIsAwaited, Present
<1> QED BY <1>1, <1>3, <1>4 DEF BacklogInv

\* Steps that begin no capture, unmark nothing, and give no message another item.
LEMMA CapturedAloneKept ==
  ASSUME NEW m \in Consults, CapturedAlone(m),
         Capturing(m)' \subseteq Capturing(m), ItemsOf(m)' \subseteq ItemsOf(m), markers'[m] = markers[m]
  PROVE  CapturedAlone(m)'
BY DEF CapturedAlone

\* Requirements edited by hand, and versions released: no capture, marker or message is touched.
LEMMA EditKeepsBacklog ==
  ASSUME BacklogAssumption, BacklogInv,
         \/ Create
         \/ \E n \in ItemNumbers :
              \/ DeleteItem(n)
              \/ \E status \in {"open", "included", "realized"} : SetStatus(n, status)
              \/ \E v \in Versions : Assign(n, v)
  PROVE  BacklogInv'
<1>t. BacklogTyped BY DEF BacklogInv
<1>1. UNCHANGED <<drafts, markers, captures, doubled>> BY DEF Create, DeleteItem, SetStatus, Assign
<1>2. ASSUME items' \in [ItemNumbers -> Items \cup {NoItem}], strayed' \subseteq ItemNumbers,
             \A k \in ItemNumbers : items'[k] # NoItem =>
               \/ items'[k].consult = Nil
               \/ items[k] # NoItem /\ items'[k].consult = items[k].consult,
             IncludedIsAwaited'
      PROVE  BacklogInv'
  <2>1. BacklogTyped' BY <1>t, <1>1, <1>2 DEF BacklogTyped
  <2>2. ASSUME NEW m \in Consults \ doubled' PROVE CapturedAlone(m)'
    <3>1. CapturedAlone(m) BY <1>1, <2>2 DEF BacklogInv
    <3>2. ItemsOf(m)' \subseteq ItemsOf(m) BY <1>2 DEF ItemsOf, Present, BacklogAssumption
    <3>3. Capturing(m)' = Capturing(m) BY <1>1 DEF Capturing
    <3> QED BY <1>1, <3>1, <3>2, <3>3, CapturedAloneKept
  <2> QED BY <1>2, <2>1, <2>2 DEF BacklogInv
<1>3. IncludedIsAwaited BY DEF BacklogInv
<1>4. CASE Create
  <2> DEFINE item == [status |-> "open", version |-> Nil, consult |-> Nil]
  <2>1. NextNumber \in ItemNumbers /\ items' = [items EXCEPT ![NextNumber] = item] /\ UNCHANGED strayed
    BY <1>4 DEF Create
  <2>2. item \in Items BY DEF Items
  <2> HIDE DEF NextNumber
  <2>3. items' \in [ItemNumbers -> Items \cup {NoItem}] BY <1>t, <2>1, <2>2 DEF BacklogTyped
  <2>4. \A k \in ItemNumbers : items'[k] = IF k = NextNumber THEN item ELSE items[k]
    BY <1>t, <2>1 DEF BacklogTyped
  <2>5. IncludedIsAwaited' BY <1>1, <1>3, <2>1, <2>4 DEF IncludedIsAwaited, Present
  <2> QED BY <1>t, <1>2, <2>1, <2>3, <2>4, <2>5 DEF BacklogTyped
<1>5. ASSUME NEW n \in ItemNumbers, DeleteItem(n) PROVE BacklogInv'
  <2>1. items' = [items EXCEPT ![n] = NoItem] /\ strayed' = strayed \ {n} BY <1>5 DEF DeleteItem
  <2>2. \A k \in ItemNumbers : items'[k] = IF k = n THEN NoItem ELSE items[k]
    BY <1>t, <2>1 DEF BacklogTyped
  <2>3. items' \in [ItemNumbers -> Items \cup {NoItem}] /\ strayed' \subseteq ItemNumbers
    BY <1>t, <2>1 DEF BacklogTyped
  <2>4. IncludedIsAwaited' BY <1>1, <1>3, <2>1, <2>2 DEF IncludedIsAwaited, Present
  <2> QED BY <1>2, <2>2, <2>3, <2>4
<1>6. ASSUME NEW n \in ItemNumbers, NEW status \in {"open", "included", "realized"}, SetStatus(n, status)
      PROVE  BacklogInv'
  <2>1. /\ items[n] # NoItem /\ items' = [items EXCEPT ![n].status = status]
        /\ strayed' = IF status = "included" THEN strayed \cup {n} ELSE strayed
    BY <1>6 DEF SetStatus, Present
  <2>2. items[n] \in Items BY <1>t, <2>1 DEF BacklogTyped
  <2> DEFINE item == [items[n] EXCEPT !.status = status]
  <2>3. item \in Items /\ item.status = status /\ item.version = items[n].version /\ item.consult = items[n].consult
    BY <2>2 DEF Items
  <2>4. \A k \in ItemNumbers : items'[k] = IF k = n THEN item ELSE items[k]
    BY <1>t, <2>1 DEF BacklogTyped
  <2>5. items' \in [ItemNumbers -> Items \cup {NoItem}] /\ strayed' \subseteq ItemNumbers
    BY <1>t, <2>1, <2>3 DEF BacklogTyped
  <2> HIDE DEF item
  <2>6. IncludedIsAwaited' BY <1>1, <1>3, <2>1, <2>3, <2>4 DEF IncludedIsAwaited, Present
  <2> QED BY <1>2, <2>1, <2>3, <2>4, <2>5, <2>6
<1>7. ASSUME NEW n \in ItemNumbers, NEW v \in Versions, Assign(n, v) PROVE BacklogInv'
  <2>1. /\ items[n] # NoItem /\ drafts[v] # "absent"
        /\ items' = [items EXCEPT ![n].status = "included", ![n].version = v]
        /\ strayed' = IF drafts[v] = "released" THEN strayed \cup {n} ELSE strayed \ {n}
    BY <1>7 DEF Assign, Present
  <2>2. items[n] \in Items BY <1>t, <2>1 DEF BacklogTyped
  <2> DEFINE item == [items[n] EXCEPT !.status = "included", !.version = v]
  <2>3. item \in Items /\ item.version = v /\ item.consult = items[n].consult BY <2>2 DEF Items
  <2>4. \A k \in ItemNumbers : items'[k] = IF k = n THEN item ELSE items[k]
    BY <1>t, <2>1, <2>2 DEF BacklogTyped, Items
  <2>5. items' \in [ItemNumbers -> Items \cup {NoItem}] /\ strayed' \subseteq ItemNumbers
    BY <1>t, <2>1, <2>2, <2>3 DEF BacklogTyped, Items
  <2>6. n \notin strayed' => drafts[v] = "open" /\ v # Nil
    BY <1>t, <2>1 DEF BacklogTyped, BacklogAssumption
  <2> HIDE DEF item
  <2>7. \A k \in ItemNumbers \ {n} : k \notin strayed' => k \notin strayed BY <2>1
  <2>8. IncludedIsAwaited' BY <1>1, <1>3, <2>3, <2>4, <2>6, <2>7 DEF IncludedIsAwaited, Present
  <2> QED BY <1>2, <2>1, <2>3, <2>4, <2>5, <2>8
<1> QED BY <1>4, <1>5, <1>6, <1>7

\* A version made, released or deleted: it is the included items that follow.
LEMMA DraftKeepsBacklog ==
  ASSUME BacklogAssumption, BacklogInv, NEW v \in Versions, CreateDraft(v) \/ ReleaseDraft(v) \/ DeleteDraft(v)
  PROVE  BacklogInv'
<1>t. BacklogTyped BY DEF BacklogInv
<1>a. IncludedIsAwaited BY DEF BacklogInv
<1>1. UNCHANGED captures /\ doubled \subseteq doubled' BY DEF CreateDraft, ReleaseDraft, DeleteDraft
<1>2. ASSUME items' \in [ItemNumbers -> Items \cup {NoItem}], strayed' \subseteq ItemNumbers,
             drafts' \in [Versions -> {"absent", "open", "released"}],
             markers' \in [Consults -> Versions \cup {Nil}], doubled' \subseteq Consults,
             \A m \in Consults \ doubled' : markers'[m] = markers[m],
             \A k \in ItemNumbers : items'[k] # NoItem =>
               items[k] # NoItem /\ items'[k].consult = items[k].consult,
             IncludedIsAwaited'
      PROVE  BacklogInv'
  <2>1. BacklogTyped' BY <1>t, <1>1, <1>2 DEF BacklogTyped
  <2>2. ASSUME NEW m \in Consults \ doubled' PROVE CapturedAlone(m)'
    <3>1. CapturedAlone(m) BY <1>1, <2>2 DEF BacklogInv
    <3>2. ItemsOf(m)' \subseteq ItemsOf(m) BY <1>2 DEF ItemsOf, Present
    <3>3. Capturing(m)' = Capturing(m) BY <1>1 DEF Capturing
    <3> QED BY <1>2, <3>1, <3>2, <3>3, CapturedAloneKept
  <2> QED BY <1>2, <2>1, <2>2 DEF BacklogInv
<1>3. CASE CreateDraft(v)
  <2>1. drafts' = [drafts EXCEPT ![v] = "open"] /\ UNCHANGED <<items, markers, doubled, strayed>>
    BY <1>3 DEF CreateDraft
  <2>2. \A w \in Versions : drafts'[w] = IF w = v THEN "open" ELSE drafts[w] BY <1>t, <2>1 DEF BacklogTyped
  <2>3. \A k \in ItemNumbers : Present(k) => items[k].version \in Versions \cup {Nil}
    BY <1>t DEF BacklogTyped, Present, Items
  <2>4. IncludedIsAwaited' BY <1>a, <2>1, <2>2, <2>3 DEF IncludedIsAwaited, Present
  <2> QED BY <1>t, <1>2, <2>1, <2>4 DEF BacklogTyped
<1>4. CASE ReleaseDraft(v)
  <2>1. /\ drafts' = [drafts EXCEPT ![v] = "released"] /\ items' = Realized(v)
        /\ UNCHANGED <<markers, doubled, strayed>>
    BY <1>4 DEF ReleaseDraft
  <2>2. \A w \in Versions : drafts'[w] = IF w = v THEN "released" ELSE drafts[w] BY <1>t, <2>1 DEF BacklogTyped
  <2>3. ASSUME NEW k \in ItemNumbers
        PROVE  /\ items'[k] \in Items \cup {NoItem}
               /\ items'[k] # NoItem => items[k] # NoItem /\ items'[k].consult = items[k].consult
               /\ items'[k] # NoItem /\ items'[k].status = "included" => items'[k] = items[k] /\ items[k].version # v
    <3>1. items'[k] = IF Present(k) /\ items[k].status = "included" /\ items[k].version = v
                      THEN [items[k] EXCEPT !.status = "realized"] ELSE items[k]
      BY <2>1 DEF Realized
    <3>2. items[k] \in Items \cup {NoItem} BY <1>t DEF BacklogTyped
    <3>3. CASE Present(k) /\ items[k].status = "included" /\ items[k].version = v
      <4>1. items[k] \in Items /\ items[k] # NoItem BY <3>2, <3>3 DEF Present
      <4>2. items'[k] = [items[k] EXCEPT !.status = "realized"] BY <3>1, <3>3
      <4> QED BY <4>1, <4>2 DEF Items
    <3>4. CASE ~(Present(k) /\ items[k].status = "included" /\ items[k].version = v)
      BY <3>1, <3>2, <3>4 DEF Present
    <3> QED BY <3>3, <3>4
  <2>4. items' \in [ItemNumbers -> Items \cup {NoItem}]
    <3>1. \A k \in ItemNumbers : items'[k] \in Items \cup {NoItem} BY <2>3
    <3> QED BY <2>1, <3>1 DEF Realized
  <2>5. IncludedIsAwaited'
    <3>1. \A k \in ItemNumbers : Present(k) => items[k].version \in Versions \cup {Nil}
      BY <1>t DEF BacklogTyped, Present, Items
    <3> QED BY <1>a, <2>1, <2>2, <2>3, <3>1 DEF IncludedIsAwaited, Present
  <2> QED BY <1>t, <1>2, <2>1, <2>3, <2>4, <2>5 DEF BacklogTyped
<1>5. CASE DeleteDraft(v)
  <2>1. /\ drafts' = [drafts EXCEPT ![v] = "absent"]
        /\ items' = [k \in ItemNumbers |-> IF Present(k) /\ items[k].version = v
                                           THEN [items[k] EXCEPT !.version = Nil] ELSE items[k]]
        /\ strayed' = strayed \cup {k \in ItemNumbers :
                        Present(k) /\ items[k].version = v /\ items[k].status = "included"}
        /\ doubled' = doubled \cup {m \in Consults : markers[m] = v}
        /\ markers' = [m \in Consults |-> IF markers[m] = v THEN Nil ELSE markers[m]]
    BY <1>5 DEF DeleteDraft
  <2>2. \A w \in Versions : drafts'[w] = IF w = v THEN "absent" ELSE drafts[w] BY <1>t, <2>1 DEF BacklogTyped
  <2>3. ASSUME NEW k \in ItemNumbers
        PROVE  /\ items'[k] \in Items \cup {NoItem}
               /\ items'[k] # NoItem => items[k] # NoItem /\ items'[k].consult = items[k].consult
               /\ items'[k] # NoItem /\ k \notin strayed' /\ items'[k].status = "included" =>
                    items'[k] = items[k] /\ items[k].version # v /\ k \notin strayed
    <3>1. items'[k] = IF Present(k) /\ items[k].version = v THEN [items[k] EXCEPT !.version = Nil] ELSE items[k]
      BY <2>1
    <3>2. items[k] \in Items \cup {NoItem} BY <1>t DEF BacklogTyped
    <3>3. CASE Present(k) /\ items[k].version = v
      <4>1. items[k] \in Items /\ items[k] # NoItem BY <3>2, <3>3 DEF Present
      <4>2. items'[k] = [items[k] EXCEPT !.version = Nil] BY <3>1, <3>3
      <4>3. items'[k] \in Items /\ items'[k].consult = items[k].consult /\ items'[k].status = items[k].status
        BY <4>1, <4>2 DEF Items
      <4> QED BY <2>1, <3>3, <4>1, <4>3
    <3>4. CASE ~(Present(k) /\ items[k].version = v)
      BY <2>1, <3>1, <3>2, <3>4 DEF Present
    <3> QED BY <3>3, <3>4
  <2>4. items' \in [ItemNumbers -> Items \cup {NoItem}]
    <3>1. \A k \in ItemNumbers : items'[k] \in Items \cup {NoItem} BY <2>3
    <3> QED BY <2>1, <3>1
  <2>5. IncludedIsAwaited'
    <3>1. \A k \in ItemNumbers : Present(k) => items[k].version \in Versions \cup {Nil}
      BY <1>t DEF BacklogTyped, Present, Items
    <3> QED BY <1>a, <2>2, <2>3, <3>1 DEF IncludedIsAwaited, Present
  <2>6. drafts' \in [Versions -> {"absent", "open", "released"}] /\ strayed' \subseteq ItemNumbers
        /\ markers' \in [Consults -> Versions \cup {Nil}] /\ doubled' \subseteq Consults
        /\ \A m \in Consults \ doubled' : markers'[m] = markers[m]
    BY <1>t, <2>1 DEF BacklogTyped
  <2> QED BY <1>2, <2>3, <2>4, <2>5, <2>6
<1> QED BY <1>3, <1>4, <1>5

\* A capture reads, numbers, inserts or is lost: only the captures change, and a message
\* read while another capture of it runs is doubled.
LEMMA CaptureKeepsBacklog ==
  ASSUME BacklogAssumption, BacklogInv, NEW c \in Captures,
         \/ \E m \in Consults, v \in Versions : CaptureReads(c, m, v)
         \/ CaptureNumbers(c) \/ CaptureInserts(c) \/ CaptureIsLost(c)
  PROVE  BacklogInv'
<1>t. BacklogTyped BY DEF BacklogInv
<1>1. UNCHANGED <<items, drafts, markers, strayed>>
  BY DEF CaptureReads, CaptureNumbers, CaptureInserts, CaptureIsLost
<1>2. IncludedIsAwaited' BY <1>1 DEF BacklogInv, IncludedIsAwaited, Present
<1>3. \A m \in Consults : ItemsOf(m)' = ItemsOf(m) BY <1>1 DEF ItemsOf, Present
<1>4. ASSUME NEW m \in Consults, NEW v \in Versions, CaptureReads(c, m, v) PROVE BacklogInv'
  <2> DEFINE r == [at |-> "number", consult |-> m, number |-> 0, version |-> v]
  <2>1. /\ captures[c] = NoCapture /\ markers[m] = Nil /\ captures' = [captures EXCEPT ![c] = r]
        /\ doubled' = IF Capturing(m) # {} THEN doubled \cup {m} ELSE doubled
    BY <1>4 DEF CaptureReads
  <2>2. r \in CaptureRows /\ r # NoCapture /\ r.at = "number" /\ r.consult = m BY DEF CaptureRows, NoCapture
  <2> HIDE DEF r
  <2>3. captures'[c] = r /\ \A d \in Captures \ {c} : captures'[d] = captures[d]
    BY <1>t, <2>1 DEF BacklogTyped
  <2>4. BacklogTyped' BY <1>t, <1>1, <2>1, <2>2, <2>3 DEF BacklogTyped
  <2>5. ASSUME NEW k \in Consults \ doubled' PROVE CapturedAlone(k)'
    <3>1. CapturedAlone(k) BY <2>1, <2>5 DEF BacklogInv
    <3>2. CASE k = m
      <4>1. Capturing(m) = {} BY <2>1, <2>5, <3>2
      <4>2. Capturing(m)' = {c} BY <2>2, <2>3, <4>1 DEF Capturing
      <4> QED BY <1>1, <1>3, <2>1, <3>1, <3>2, <4>2 DEF CapturedAlone
    <3>3. CASE k # m
      <4>1. Capturing(k)' \subseteq Capturing(k) BY <2>2, <2>3, <3>3 DEF Capturing
      <4> QED BY <1>1, <1>3, <3>1, <4>1, CapturedAloneKept
    <3> QED BY <3>2, <3>3
  <2> QED BY <1>2, <2>4, <2>5 DEF BacklogInv
<1>5. ASSUME CaptureNumbers(c) \/ CaptureInserts(c) \/ CaptureIsLost(c) PROVE BacklogInv'
  <2>1. PICK r : /\ captures[c] # NoCapture /\ captures' = [captures EXCEPT ![c] = r] /\ UNCHANGED doubled
                 /\ \/ r = NoCapture
                    \/ captures[c].at = "number" /\ NextNumber \in ItemNumbers
                       /\ r = [captures[c] EXCEPT !.at = "insert", !.number = NextNumber]
                    \/ captures[c].at = "insert" /\ r = [captures[c] EXCEPT !.at = "commit"]
    <3>1. CASE CaptureNumbers(c)
      <4>1. captures[c].at = "number" BY <3>1 DEF CaptureNumbers
      <4>2. captures[c] # NoCapture BY <4>1 DEF NoCapture
      <4> QED BY <3>1, <4>1, <4>2 DEF CaptureNumbers
    <3>2. CASE CaptureInserts(c)
      <4>1. captures[c].at = "insert" BY <3>2 DEF CaptureInserts
      <4>2. captures[c] # NoCapture BY <4>1 DEF NoCapture
      <4> QED BY <3>2, <4>1, <4>2 DEF CaptureInserts
    <3>3. CASE CaptureIsLost(c) BY <3>3 DEF CaptureIsLost
    <3> QED BY <1>5, <3>1, <3>2, <3>3
  <2>2. captures[c] \in CaptureRows BY <1>t, <2>1 DEF BacklogTyped
  <2>3. ItemNumbers \subseteq Nat BY DEF ItemNumbers, BacklogAssumption
  <2>4. r = NoCapture \/ (r \in CaptureRows /\ r.consult = captures[c].consult /\ r.number \in ItemNumbers)
    <3>1. CASE r = NoCapture BY <3>1
    <3>2. CASE captures[c].at = "number" /\ NextNumber \in ItemNumbers
               /\ r = [captures[c] EXCEPT !.at = "insert", !.number = NextNumber]
      <4> HIDE DEF NextNumber
      <4> QED BY <2>2, <2>3, <3>2 DEF CaptureRows
    <3>3. CASE captures[c].at = "insert" /\ r = [captures[c] EXCEPT !.at = "commit"]
      <4>1. captures[c].number \in ItemNumbers BY <1>t, <3>3 DEF BacklogTyped
      <4> QED BY <2>2, <3>3, <4>1 DEF CaptureRows
    <3> QED BY <2>1, <3>1, <3>2, <3>3
  <2>5. captures'[c] = r /\ \A d \in Captures \ {c} : captures'[d] = captures[d]
    BY <1>t, <2>1 DEF BacklogTyped
  <2>6. NoCapture.at = "idle" BY DEF NoCapture
  <2>7. BacklogTyped'
    <3>1. captures' \in [Captures -> CaptureRows \cup {NoCapture}] BY <1>t, <2>1, <2>4 DEF BacklogTyped
    <3>2. \A d \in Captures : captures'[d].at \in {"insert", "commit"} => captures'[d].number \in ItemNumbers
      BY <1>t, <2>4, <2>5, <2>6 DEF BacklogTyped
    <3> QED BY <1>t, <1>1, <2>1, <3>1, <3>2 DEF BacklogTyped
  <2>8. ASSUME NEW k \in Consults \ doubled' PROVE CapturedAlone(k)'
    <3>1. CapturedAlone(k) BY <2>1, <2>8 DEF BacklogInv
    <3>2. Capturing(k)' \subseteq Capturing(k) BY <2>1, <2>4, <2>5 DEF Capturing
    <3> QED BY <1>1, <1>3, <3>1, <3>2, CapturedAloneKept
  <2> QED BY <1>2, <2>7, <2>8 DEF BacklogInv
<1> QED BY <1>4, <1>5

\* A capture commits: its item is the first of the message, and its version is open.
LEMMA CommitKeepsBacklog == ASSUME BacklogAssumption, BacklogInv, NEW c \in Captures, CaptureCommits(c) PROVE BacklogInv'
<1>t. BacklogTyped BY DEF BacklogInv
<1> DEFINE r    == captures[c]
           item == [status |-> "included", version |-> r.version, consult |-> r.consult]
<1>1. /\ r.at = "commit" /\ items' = [items EXCEPT ![r.number] = item]
      /\ drafts' = [drafts EXCEPT ![r.version] = "open"]
      /\ markers' = [markers EXCEPT ![r.consult] = r.version]
      /\ captures' = [captures EXCEPT ![c] = NoCapture] /\ UNCHANGED <<doubled, strayed>>
  BY DEF CaptureCommits, Marked
<1>2. r # NoCapture BY <1>1 DEF NoCapture
<1>3. r \in CaptureRows /\ r.number \in ItemNumbers BY <1>t, <1>1, <1>2 DEF BacklogTyped
<1>4. r.consult \in Consults /\ r.version \in Versions BY <1>3 DEF CaptureRows
<1>5. item \in Items /\ item.version = r.version /\ item.consult = r.consult /\ item # NoItem
  BY <1>4 DEF Items, NoItem
<1> HIDE DEF item
<1>6. \A k \in ItemNumbers : items'[k] = IF k = r.number THEN item ELSE items[k] BY <1>t, <1>1 DEF BacklogTyped
<1>7. \A w \in Versions : drafts'[w] = IF w = r.version THEN "open" ELSE drafts[w] BY <1>t, <1>1 DEF BacklogTyped
<1>8. \A m \in Consults : markers'[m] = IF m = r.consult THEN r.version ELSE markers[m]
  BY <1>t, <1>1 DEF BacklogTyped
<1>9. captures'[c] = NoCapture /\ \A d \in Captures \ {c} : captures'[d] = captures[d]
  BY <1>t, <1>1 DEF BacklogTyped
<1>10. BacklogTyped'
  <2>1. items' \in [ItemNumbers -> Items \cup {NoItem}] BY <1>t, <1>1, <1>5 DEF BacklogTyped
  <2>2. drafts' \in [Versions -> {"absent", "open", "released"}] /\ markers' \in [Consults -> Versions \cup {Nil}]
        /\ captures' \in [Captures -> CaptureRows \cup {NoCapture}]
    BY <1>t, <1>1, <1>4 DEF BacklogTyped
  <2>3. \A d \in Captures : captures'[d].at \in {"insert", "commit"} => captures'[d].number \in ItemNumbers
    <3>1. captures'[c].at = "idle" BY <1>9 DEF NoCapture
    <3> QED BY <1>t, <1>9, <3>1 DEF BacklogTyped
  <2> QED BY <1>t, <1>1, <2>1, <2>2, <2>3 DEF BacklogTyped
<1>11. IncludedIsAwaited'
  <2>1. \A k \in ItemNumbers : Present(k) => items[k].version \in Versions \cup {Nil}
    BY <1>t DEF BacklogTyped, Present, Items
  <2>2. r.version # Nil BY <1>4 DEF BacklogAssumption
  <2>3. IncludedIsAwaited BY DEF BacklogInv
  <2> QED BY <1>1, <1>4, <1>5, <1>6, <1>7, <2>1, <2>2, <2>3 DEF IncludedIsAwaited, Present
<1>12. ASSUME NEW m \in Consults \ doubled' PROVE CapturedAlone(m)'
  <2>1. CapturedAlone(m) BY <1>1, <1>12 DEF BacklogInv
  <2>2. CASE m = r.consult
    <3>1. c \in Capturing(m) BY <1>2, <2>2 DEF Capturing
    <3>2. Capturing(m) = {c} BY <2>1, <3>1 DEF CapturedAlone
    <3>3. Capturing(m)' = {} BY <1>9, <3>2 DEF Capturing
    <3>4. ItemsOf(m) = {} BY <2>1, <3>1 DEF CapturedAlone
    <3>5. ItemsOf(m)' \subseteq {r.number} BY <1>6, <3>4 DEF ItemsOf, Present
    <3>6. markers'[m] # Nil BY <1>4, <1>8, <2>2 DEF BacklogAssumption
    <3> QED BY <3>3, <3>5, <3>6 DEF CapturedAlone
  <2>3. CASE m # r.consult
    <3>1. Capturing(m)' \subseteq Capturing(m) BY <1>9 DEF Capturing
    <3>2. ItemsOf(m)' \subseteq ItemsOf(m) BY <1>5, <1>6, <2>3 DEF ItemsOf, Present
    <3> QED BY <1>8, <2>1, <2>3, <3>1, <3>2, CapturedAloneKept
  <2> QED BY <2>2, <2>3
<1> QED BY <1>10, <1>11, <1>12 DEF BacklogInv

LEMMA BacklogStep == ASSUME BacklogAssumption, BacklogInv, [BacklogNext]_backlogVars PROVE BacklogInv'
<1>1. ASSUME \/ Create
             \/ \E n \in ItemNumbers :
                  \/ DeleteItem(n)
                  \/ \E status \in {"open", "included", "realized"} : SetStatus(n, status)
                  \/ \E v \in Versions : Assign(n, v)
      PROVE  BacklogInv'
  BY <1>1, EditKeepsBacklog
<1>2. ASSUME NEW v \in Versions, CreateDraft(v) \/ ReleaseDraft(v) \/ DeleteDraft(v) PROVE BacklogInv'
  BY <1>2, DraftKeepsBacklog
<1>3. ASSUME NEW c \in Captures,
             \/ \E m \in Consults, v \in Versions : CaptureReads(c, m, v)
             \/ CaptureNumbers(c) \/ CaptureInserts(c) \/ CaptureIsLost(c)
      PROVE  BacklogInv'
  BY <1>3, CaptureKeepsBacklog
<1>4. ASSUME NEW c \in Captures, CaptureCommits(c) PROVE BacklogInv' BY <1>4, CommitKeepsBacklog
<1>5. ASSUME UNCHANGED backlogVars PROVE BacklogInv'
  BY <1>5 DEF backlogVars, BacklogInv, BacklogTyped, CapturedAlone, Capturing, ItemsOf, IncludedIsAwaited, Present
<1> QED BY <1>1, <1>2, <1>3, <1>4, <1>5 DEF BacklogNext

\* Numbers that are all equal are one at most.
LEMMA BacklogFollows == ASSUME BacklogInv PROVE BacklogKept
<1>1. ASSUME NEW m \in Consults \ doubled PROVE Cardinality(ItemsOf(m)) <= 1
  <2>1. \A n, k \in ItemsOf(m) : n = k BY <1>1 DEF BacklogInv, CapturedAlone
  <2>2. CASE ItemsOf(m) = {} BY <2>2, FS_EmptySet
  <2>3. CASE ItemsOf(m) # {}
    <3>1. PICK n \in ItemsOf(m) : TRUE BY <2>3
    <3>2. ItemsOf(m) = {n} BY <2>1, <3>1
    <3>3. Cardinality({n}) = 1 BY FS_Singleton, Zenon
    <3> QED BY <3>2, <3>3
  <2> QED BY <2>2, <2>3
<1>2. CapturedOnce BY <1>1 DEF CapturedOnce, ItemsOf
<1> QED BY <1>2 DEF BacklogInv, BacklogKept

\* The backlog (change_request.capture, backlog.assign_to_version, version.release): a change
\* request becomes one requirement, and what is included waits for a release still to come,
\* the named exceptions aside - for any requirements, versions and captures under way.
THEOREM BacklogStaysKept == ASSUME BacklogAssumption PROVE BacklogSpec => []BacklogKept
<1>1. BacklogInit => BacklogInv BY BacklogInitial
<1>2. BacklogInv /\ [BacklogNext]_backlogVars => BacklogInv' BY BacklogStep
<1>3. BacklogInv => BacklogKept BY BacklogFollows
<1> QED BY <1>1, <1>2, <1>3, PTL DEF BacklogSpec
=============================================================================
