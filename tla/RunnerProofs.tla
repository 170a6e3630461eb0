----------------------------- MODULE RunnerProofs -----------------------------
(***************************************************************************)
(* What holds of module Runner for every set of versions and every bound:  *)
(* one dispatch a version, one turn in the agent's session, and one way    *)
(* only to lose a dispatch.                                                *)
(*                                                                         *)
(* FlightInv is inductive; it needs, besides SingleFlight, that a dispatch *)
(* drains a relay that is there.  WriterInv says that the turn in the      *)
(* agent holds the session row; LostInv, relative to FlightInv, that a row *)
(* armed behind a dispatch past its settle has a request to schedule it.   *)
(***************************************************************************)
EXTENDS Runner, TLAPS

-----------------------------------------------------------------------------
(* Types *)

\* The null dispatch is none.
LEMMA NoDispatchIsNone == NoDispatch \notin Dispatches
  BY DEF NoDispatch, Dispatches

\* A dispatch is one of a version.
LEMMA DispatchOfVersion == \A d \in Dispatches : d[1] \in Versions
  BY DEF Dispatches

LEMMA RowsTyped ==
  Settled \in VersionRows /\ Paused \in VersionRows /\ Armed \in VersionRows
  BY DEF Settled, Paused, Armed, VersionRows

\* Setting the row of a version keeps the rows typed.
LEMMA SetRowTyped ==
  ASSUME NEW f \in [Versions -> VersionRows], NEW v, NEW r \in VersionRows
  PROVE  [f EXCEPT ![v] = r] \in [Versions -> VersionRows]
  OBVIOUS

LEMMA ClearedRowTyped ==
  ASSUME NEW f \in [Versions -> VersionRows], NEW v \in Versions
  PROVE  [f EXCEPT ![v].in_flight = FALSE] \in [Versions -> VersionRows]
  BY DEF VersionRows

\* Invoking the agent keeps the variables it writes in their domains.
LEMMA InvokeTyped ==
  ASSUME RunnerTypeOK, NEW d \in Dispatches, Invoke(d)
  PROVE  /\ pc' \in [Dispatches -> ProgramPoints]
         /\ holder' \in Dispatches \cup {NoDispatch} /\ session' \in BOOLEAN
         /\ posted' \in [Versions -> 0..MaxPosts]
         /\ skipped' \in [Versions -> BOOLEAN] /\ frozen' \in BOOLEAN
  BY DEF RunnerTypeOK, Invoke, ProgramPoints

\* So does the end of a turn.
LEMMA AfterSettleTyped ==
  ASSUME RunnerTypeOK, NEW d \in Dispatches, AfterSettle(d), rows' \in [Versions -> VersionRows]
  PROVE  pc' \in [Dispatches -> ProgramPoints] /\ cache' \in [Dispatches -> VersionRows]
  <1>1. rows'[d[1]] \in VersionRows
    BY DispatchOfVersion
  <1> QED
    BY <1>1 DEF RunnerTypeOK, AfterSettle, ProgramPoints

\* And a commit.
LEMMA CommitTyped ==
  ASSUME RunnerTypeOK, NEW d \in Dispatches, NEW r \in VersionRows, CommitRow(d, r)
  PROVE  /\ rows' \in [Versions -> VersionRows] /\ dirty' \in [Dispatches -> BOOLEAN]
         /\ holder' \in Dispatches \cup {NoDispatch} /\ session' \in BOOLEAN
  BY DEF RunnerTypeOK, CommitRow

\* One request more, or one less, stays within the bound.
LEMMA PostedTyped ==
  ASSUME RunnerTypeOK, NEW v \in Versions
  PROVE  /\ posted[v] < MaxPosts =>
              [posted EXCEPT ![v] = @ + 1] \in [Versions -> 0..MaxPosts]
         /\ posted[v] > 0 =>
              [posted EXCEPT ![v] = @ - 1] \in [Versions -> 0..MaxPosts]
  <1>1. posted[v] \in 0..MaxPosts /\ MaxPosts \in Nat
    BY RunnerAssumption DEF RunnerTypeOK, RunnerAssumption
  <1>2. /\ posted[v] < MaxPosts => posted[v] + 1 \in 0..MaxPosts
        /\ posted[v] > 0 => posted[v] - 1 \in 0..MaxPosts
    BY <1>1
  <1>3. posted \in [Versions -> 0..MaxPosts]
    BY DEF RunnerTypeOK
  <1> QED
    BY <1>2, <1>3

LEMMA QueueTyped ==
  ASSUME RunnerTypeOK, NEW v \in Versions
  PROVE  /\ relays[v] < RelayLimit =>
              [relays EXCEPT ![v] = @ + 1] \in [Versions -> 0..RelayLimit]
         /\ relays[v] > 0 =>
              [relays EXCEPT ![v] = @ - 1] \in [Versions -> 0..RelayLimit]
  <1>1. relays[v] \in 0..RelayLimit /\ RelayLimit \in Nat
    BY RunnerAssumption DEF RunnerTypeOK, RunnerAssumption
  <1>2. /\ relays[v] < RelayLimit => relays[v] + 1 \in 0..RelayLimit
        /\ relays[v] > 0 => relays[v] - 1 \in 0..RelayLimit
    BY <1>1
  <1>3. relays \in [Versions -> 0..RelayLimit]
    BY DEF RunnerTypeOK
  <1> QED
    BY <1>2, <1>3

-----------------------------------------------------------------------------
(* The steps keep the types *)

\* A dispatch goes to drain a relay only when one is queued; a frozen process
\* may have popped it already.
RelayWaits == ~frozen => \A d \in Dispatches : pc[d] = "drain" => relays[d[1]] > 0

LEMMA FreezeTyped == RunnerTypeOK /\ Freeze => RunnerTypeOK'
  BY DEF RunnerTypeOK, Freeze

LEMMA RequestTyped ==
  ASSUME RunnerTypeOK, NEW v \in Versions, Request(v)
  PROVE  RunnerTypeOK'
  <1> DEFINE Armed1 == /\ rows' = [rows EXCEPT ![v] = Armed]
                       /\ posted' = [posted EXCEPT ![v] = @ + 1]
                       /\ posted[v] < MaxPosts
                       /\ skipped' \in [Versions -> BOOLEAN] /\ session' \in BOOLEAN
                       /\ UNCHANGED <<cache, dirty, pc, holder, relays, frozen>>
  <1>1. CASE Armed1
    <2>1. rows' \in [Versions -> VersionRows]
      BY <1>1, SetRowTyped, RowsTyped DEF RunnerTypeOK
    <2>2. posted' \in [Versions -> 0..MaxPosts]
      BY <1>1, PostedTyped
    <2> QED
      BY <1>1, <2>1, <2>2 DEF RunnerTypeOK
  <1>2. CASE PostStart(v) \/ PostAdvance(v) \/ PostAsk(v)
    <2>1. Armed1 \/ Freeze
      BY <1>2 DEF PostStart, PostAdvance, PostAsk, Arm, RunnerTypeOK
    <2> QED
      BY <1>1, <2>1, FreezeTyped
  <1>3. CASE PostPause(v)
    <2>1. rows' \in [Versions -> VersionRows]
      BY <1>3, SetRowTyped, RowsTyped DEF RunnerTypeOK, PostPause
    <2> QED
      BY <1>3, <2>1 DEF RunnerTypeOK, PostPause
  <1>4. CASE PostRelay(v)
    <2>1. relays' \in [Versions -> 0..RelayLimit]
      BY <1>4, QueueTyped DEF PostRelay
    <2> QED
      BY <1>4, <2>1 DEF RunnerTypeOK, PostRelay
  <1>5. CASE ScheduleDispatch(v)
    <2>1. posted' \in [Versions -> 0..MaxPosts]
      BY <1>5, PostedTyped DEF ScheduleDispatch
    <2>2. pc' \in [Dispatches -> ProgramPoints] /\ skipped' \in [Versions -> BOOLEAN]
      BY <1>5 DEF RunnerTypeOK, ScheduleDispatch, ProgramPoints
    <2> QED
      BY <1>5, <2>1, <2>2 DEF RunnerTypeOK, ScheduleDispatch, dbvars
  <1> QED
    BY <1>2, <1>3, <1>4, <1>5 DEF Request

LEMMA RunTyped ==
  ASSUME RunnerTypeOK, RelayWaits, ~frozen, NEW d \in Dispatches, Run(d)
  PROVE  RunnerTypeOK'
  <1> USE DispatchOfVersion, RowsTyped
  <1>0. rows[d[1]] \in VersionRows /\ cache[d] \in VersionRows
    BY DEF RunnerTypeOK
  <1>1. CASE Begin(d)
    BY <1>0, <1>1, InvokeTyped DEF RunnerTypeOK, Begin
  <1>2. CASE NothingToRun(d)
    BY <1>2, AfterSettleTyped DEF RunnerTypeOK, NothingToRun
  <1>3. CASE AgentAnswers(d)
    <2>1. (IF dirty[d] THEN cache[d] ELSE rows[d[1]]) \in VersionRows
      BY <1>0
    <2> QED
      BY <1>3, <2>1, CommitTyped DEF RunnerTypeOK, AgentAnswers, ProgramPoints
  <1>4. CASE SettleThenTell(d)
    BY <1>4, CommitTyped DEF RunnerTypeOK, SettleThenTell, ProgramPoints
  <1>5. CASE NextInvocation(d)
    BY <1>0, <1>5, InvokeTyped DEF RunnerTypeOK, NextInvocation
  <1>6. CASE LeaveBuild(d)
    BY <1>6, AfterSettleTyped DEF RunnerTypeOK, LeaveBuild
  <1>7. CASE Settle(d)
    <2>1. rows' \in [Versions -> VersionRows]
      BY <1>7, SetRowTyped DEF RunnerTypeOK, Settle
    <2> QED
      BY <1>7, <2>1, AfterSettleTyped DEF RunnerTypeOK, Settle
  <1>8. CASE AfterTelling(d)
    BY <1>8, AfterSettleTyped DEF RunnerTypeOK, AfterTelling
  <1>9. CASE Drain(d)
    <2>1. relays' \in [Versions -> 0..RelayLimit]
      BY <1>9, QueueTyped DEF Drain, RelayWaits
    <2>2. cache' \in [Dispatches -> VersionRows]
      BY <1>9 DEF RunnerTypeOK, Drain
    <2>3. CASE d[1] \in AtBuild
      <3>1. rows' \in [Versions -> VersionRows]
        BY <1>9, <2>3, SetRowTyped DEF RunnerTypeOK, Drain
      <3> QED
        BY <1>9, <2>1, <2>2, <2>3, <3>1 DEF RunnerTypeOK, Drain, ProgramPoints
    <2>4. CASE d[1] \notin AtBuild
      BY <1>9, <2>1, <2>2, <2>4, InvokeTyped DEF RunnerTypeOK, Drain
    <2> QED
      BY <2>3, <2>4
  <1>10. CASE TurnRaises(d)
    <2>1. rows' \in [Versions -> VersionRows]
      BY <1>10, SetRowTyped DEF RunnerTypeOK, TurnRaises
    <2> QED
      BY <1>10, <2>1 DEF RunnerTypeOK, TurnRaises, ProgramPoints
  <1>11. CASE AfterCrash(d)
    BY <1>0, <1>11 DEF RunnerTypeOK, AfterCrash, ProgramPoints
  <1>12. CASE Finish(d)
    <2>1. rows' \in [Versions -> VersionRows]
      BY <1>12, ClearedRowTyped DEF RunnerTypeOK, Finish
    <2> QED
      BY <1>12, <2>1 DEF RunnerTypeOK, Finish, ProgramPoints
  <1> QED
    BY <1>1, <1>2, <1>3, <1>4, <1>5, <1>6, <1>7, <1>8, <1>9, <1>10, <1>11, <1>12 DEF Run

LEMMA RestartTyped == RunnerTypeOK /\ BackendRestarts => RunnerTypeOK'
  <1> SUFFICES ASSUME RunnerTypeOK, BackendRestarts PROVE RunnerTypeOK'
    OBVIOUS
  <1>1. rows' \in [Versions -> VersionRows]
    BY RowsTyped DEF RunnerTypeOK, BackendRestarts
  <1>2. posted' \in [Versions -> 0..MaxPosts] /\ relays' \in [Versions -> 0..RelayLimit]
    BY RunnerAssumption DEF BackendRestarts, RunnerAssumption
  <1>3. cache' \in [Dispatches -> VersionRows]
    BY RowsTyped DEF BackendRestarts
  <1> QED
    BY <1>1, <1>2, <1>3 DEF RunnerTypeOK, BackendRestarts, ProgramPoints

-----------------------------------------------------------------------------
(* One dispatch a version *)

FlightInv == RunnerTypeOK /\ SingleFlight /\ RelayWaits

LEMMA InitFlight == RunnerInit => FlightInv
  <1> SUFFICES ASSUME RunnerInit PROVE FlightInv
    OBVIOUS
  <1>1. rows \in [Versions -> VersionRows]
    BY DEF RunnerInit, Settled, VersionRows
  <1>2. posted \in [Versions -> 0..MaxPosts] /\ relays \in [Versions -> 0..RelayLimit]
    BY RunnerAssumption DEF RunnerInit, RunnerAssumption
  <1>3. RunnerTypeOK
    BY <1>1, <1>2, RowsTyped DEF RunnerInit, RunnerTypeOK, ProgramPoints
  <1> QED
    BY <1>3 DEF RunnerInit, FlightInv, SingleFlight, RelayWaits

\* What a step of a dispatch does to the program points: its own moves on, the
\* others stay where they are.
LEMMA OwnPoint ==
  ASSUME RunnerTypeOK, NEW d \in Dispatches, Run(d)
  PROVE  /\ pc[d] # "none"
         /\ \E p \in ProgramPoints : pc' = [pc EXCEPT ![d] = p]
  <1>1. pc = [pc EXCEPT ![d] = pc[d]] /\ pc[d] \in ProgramPoints
    BY DEF RunnerTypeOK
  <1>2. Invoke(d) => \E p \in ProgramPoints : pc' = [pc EXCEPT ![d] = p]
    BY <1>1 DEF Invoke, ProgramPoints
  <1>3. AfterSettle(d) => \E p \in ProgramPoints : pc' = [pc EXCEPT ![d] = p]
    BY DEF AfterSettle, ProgramPoints
  <1>4. CASE Begin(d) \/ NothingToRun(d) \/ AgentAnswers(d)
    BY <1>2, <1>3, <1>4 DEF Begin, NothingToRun, AgentAnswers, ProgramPoints
  <1>5. CASE SettleThenTell(d) \/ NextInvocation(d) \/ LeaveBuild(d)
    BY <1>2, <1>3, <1>5 DEF SettleThenTell, NextInvocation, LeaveBuild, ProgramPoints
  <1>6. CASE Settle(d) \/ AfterTelling(d) \/ Drain(d)
    BY <1>2, <1>3, <1>6 DEF Settle, AfterTelling, Drain, ProgramPoints
  <1>7. CASE TurnRaises(d) \/ AfterCrash(d) \/ Finish(d)
    BY <1>7 DEF TurnRaises, AfterCrash, Finish, ProgramPoints
  <1> QED
    BY <1>4, <1>5, <1>6, <1>7 DEF Run

\* A request either leaves the program points alone, or schedules the first
\* dispatch of its version.
LEMMA RequestPoints ==
  ASSUME NEW v \in Versions, Request(v)
  PROVE  \/ pc' = pc
         \/ /\ ~ActiveDispatch(v)
            /\ \E d \in Dispatches : d[1] = v /\ pc' = [pc EXCEPT ![d] = "scheduled"]
  BY DEF Request, PostStart, PostAdvance, PostAsk, PostPause, PostRelay, Arm, Freeze,
         ScheduleDispatch

LEMMA SingleFlightStep ==
  ASSUME RunnerTypeOK, SingleFlight, [RunnerNext]_runnerVars
  PROVE  SingleFlight'
  <1>1. ASSUME NEW v \in Versions, Request(v) PROVE SingleFlight'
    <2>1. CASE pc' = pc
      BY <2>1 DEF SingleFlight
    <2>2. CASE /\ ~ActiveDispatch(v)
               /\ \E d \in Dispatches : d[1] = v /\ pc' = [pc EXCEPT ![d] = "scheduled"]
      BY <2>2 DEF SingleFlight, ActiveDispatch, RunnerTypeOK
    <2> QED
      BY <1>1, <2>1, <2>2, RequestPoints
  <1>2. ASSUME NEW d \in Dispatches, Run(d) PROVE SingleFlight'
    <2>1. pc[d] # "none" /\ \E p \in ProgramPoints : pc' = [pc EXCEPT ![d] = p]
      BY <1>2, OwnPoint
    <2> QED
      BY <2>1 DEF SingleFlight, RunnerTypeOK
  <1>3. CASE BackendRestarts
    BY <1>3 DEF SingleFlight, BackendRestarts
  <1>4. CASE UNCHANGED runnerVars
    BY <1>4 DEF SingleFlight, runnerVars
  <1> QED
    BY <1>1, <1>2, <1>3, <1>4 DEF RunnerNext

\* The queue of a version is shortened by its dispatch alone, which then leaves
\* the program point "drain", unless the process freezes.
LEMMA RelayWaitsStep ==
  ASSUME FlightInv, [RunnerNext]_runnerVars
  PROVE  RelayWaits'
  <1> USE DispatchOfVersion DEF FlightInv
  <1>1. ASSUME ~frozen, NEW v \in Versions, Request(v) PROVE RelayWaits'
    <2>1. \A w \in Versions : relays'[w] >= relays[w]
      <3>1. \A w \in Versions : relays[w] \in Nat
        BY RunnerAssumption DEF RunnerTypeOK, RunnerAssumption
      <3>2. relays' = relays \/ (v \in Versions /\ relays' = [relays EXCEPT ![v] = @ + 1])
        BY <1>1 DEF Request, PostStart, PostAdvance, PostAsk, PostPause, PostRelay, Arm,
                    Freeze, ScheduleDispatch
      <3> QED
        BY <3>1, <3>2 DEF RunnerTypeOK
    <2>2. \A d \in Dispatches : pc'[d] = "drain" => pc[d] = "drain"
      BY <1>1, RequestPoints DEF RunnerTypeOK
    <2>3. \A w \in Versions : relays[w] \in Nat /\ relays'[w] \in Nat
      BY <1>1, RequestTyped, RunnerAssumption DEF RunnerTypeOK, RunnerAssumption
    <2> QED
      BY <1>1, <2>1, <2>2, <2>3 DEF RelayWaits
  <1>2. ASSUME ~frozen, NEW d \in Dispatches, Run(d) PROVE RelayWaits'
    <2>1. CASE Drain(d) /\ ~frozen'
      <3>1. pc'[d] # "drain"
        BY <2>1 DEF Drain, Invoke, RunnerTypeOK
      <3>2. \A e \in Dispatches : e # d /\ pc'[e] = "drain" => pc[e] = "drain" /\ e[1] # d[1]
        BY <1>2, <2>1, OwnPoint DEF SingleFlight, RunnerTypeOK
      <3>3. \A e \in Dispatches : e[1] # d[1] => relays'[e[1]] = relays[e[1]]
        BY <2>1 DEF Drain, RunnerTypeOK
      <3> QED
        BY <1>2, <3>1, <3>2, <3>3 DEF RelayWaits
    <2>2. CASE ~Drain(d) /\ ~frozen'
      <3>1. relays' = relays
        BY <1>2, <2>2 DEF Run, Begin, NothingToRun, AgentAnswers, SettleThenTell, NextInvocation,
             LeaveBuild, Settle, AfterTelling, TurnRaises, AfterCrash, Finish
      <3>2. pc'[d] = "drain" => relays[d[1]] > 0
        <4>1. AfterSettle(d) => (pc'[d] = "drain" => relays[d[1]] > 0)
          BY DEF AfterSettle, RunnerTypeOK
        <4>2. Invoke(d) /\ ~frozen' => pc'[d] # "drain"
          BY DEF Invoke, RunnerTypeOK
        <4>3. CASE Begin(d) \/ NothingToRun(d) \/ AgentAnswers(d)
          BY <2>2, <4>1, <4>2, <4>3 DEF Begin, NothingToRun, AgentAnswers, RunnerTypeOK
        <4>4. CASE SettleThenTell(d) \/ NextInvocation(d) \/ LeaveBuild(d)
          BY <2>2, <4>1, <4>2, <4>4 DEF SettleThenTell, NextInvocation, LeaveBuild, RunnerTypeOK
        <4>5. CASE Settle(d) \/ AfterTelling(d) \/ TurnRaises(d) \/ AfterCrash(d) \/ Finish(d)
          BY <4>1, <4>5 DEF Settle, AfterTelling, TurnRaises, AfterCrash, Finish, RunnerTypeOK
        <4> QED
          BY <1>2, <2>2, <4>3, <4>4, <4>5 DEF Run
      <3>3. \A e \in Dispatches : e # d => pc'[e] = pc[e]
        BY <1>2, OwnPoint DEF RunnerTypeOK
      <3> QED
        BY <1>2, <3>1, <3>2, <3>3 DEF RelayWaits
    <2> QED
      BY <2>1, <2>2 DEF RelayWaits
  <1>3. CASE BackendRestarts
    BY <1>3 DEF RelayWaits, BackendRestarts
  <1>4. CASE UNCHANGED runnerVars
    BY <1>4 DEF RelayWaits, runnerVars
  <1> QED
    BY <1>1, <1>2, <1>3, <1>4 DEF RunnerNext

LEMMA FlightStep == FlightInv /\ [RunnerNext]_runnerVars => FlightInv'
  <1> SUFFICES ASSUME FlightInv, [RunnerNext]_runnerVars PROVE FlightInv'
    OBVIOUS
  <1>1. RunnerTypeOK'
    <2>1. CASE UNCHANGED runnerVars
      BY <2>1 DEF FlightInv, RunnerTypeOK, runnerVars
    <2> QED
      BY <2>1, RequestTyped, RunTyped, RestartTyped DEF FlightInv, RunnerNext
  <1> QED
    BY <1>1, SingleFlightStep, RelayWaitsStep DEF FlightInv

\* Every reachable state is typed, has one dispatch a version at most, and never
\* pops an empty relay queue.
THEOREM Flown == RunnerSpec => []FlightInv
  BY InitFlight, FlightStep, PTL DEF RunnerSpec

THEOREM RunnerTyped == RunnerSpec => []RunnerTypeOK
  <1>1. FlightInv => RunnerTypeOK
    BY DEF FlightInv
  <1> QED
    BY <1>1, Flown, PTL

\* The check of schedule_dispatch keeps every version to one dispatch, the tail
\* included, whatever pauses, corrections, exceptions and restarts occur.
THEOREM OneDispatch == RunnerSpec => []SingleFlight
  <1>1. FlightInv => SingleFlight
    BY DEF FlightInv
  <1> QED
    BY <1>1, Flown, PTL

-----------------------------------------------------------------------------
(* One turn in the agent's session *)

\* The dispatch that awaits the agent is the one whose transaction wrote the
\* session row: the lock of the row is what keeps a second turn out.
WriterInv == \A d \in Dispatches : pc[d] = "claude" => holder = d

LEMMA WriterStep ==
  ASSUME RunnerTypeOK, WriterInv, [RunnerNext]_runnerVars
  PROVE  WriterInv'
  <1>1. ASSUME NEW v \in Versions, Request(v) PROVE WriterInv'
    <2>1. holder' = holder
      BY <1>1 DEF Request, PostStart, PostAdvance, PostAsk, PostPause, PostRelay, Arm,
                  Freeze, ScheduleDispatch, dbvars
    <2> QED
      BY <1>1, <2>1, RequestPoints DEF WriterInv, RunnerTypeOK
  <1>2. ASSUME NEW d \in Dispatches, Run(d) PROVE WriterInv'
    <2>1. CASE holder' = holder /\ (pc'[d] = "claude" => pc[d] = "claude")
      BY <1>2, <2>1, OwnPoint DEF WriterInv, RunnerTypeOK
    <2>2. CASE Invoke(d)
      BY <2>2, NoDispatchIsNone DEF WriterInv, Invoke, RunnerTypeOK
    <2>3. CASE \E r : CommitRow(d, r) /\ pc'[d] # "claude"
      BY <1>2, <2>3, OwnPoint DEF WriterInv, CommitRow, RunnerTypeOK
    <2>4. CASE TurnRaises(d)
      BY <2>4 DEF WriterInv, TurnRaises, RunnerTypeOK
    <2>5. AfterSettle(d) => (pc'[d] = "claude" => pc[d] = "claude")
      BY DEF AfterSettle, RunnerTypeOK
    <2>6. CASE AgentAnswers(d)
      BY <2>3, <2>6 DEF AgentAnswers, RunnerTypeOK
    <2>7. CASE SettleThenTell(d)
      BY <2>3, <2>7 DEF SettleThenTell, RunnerTypeOK
    <2>8. CASE Begin(d) \/ NextInvocation(d)
      BY <2>2, <2>8 DEF Begin, NextInvocation
    <2>9. CASE Drain(d)
      BY <2>1, <2>2, <2>9 DEF Drain, RunnerTypeOK
    <2>10. CASE NothingToRun(d) \/ LeaveBuild(d) \/ Settle(d) \/ AfterTelling(d)
      BY <2>1, <2>5, <2>10 DEF NothingToRun, LeaveBuild, Settle, AfterTelling
    <2>11. CASE AfterCrash(d) \/ Finish(d)
      BY <2>1, <2>11 DEF AfterCrash, Finish, RunnerTypeOK
    <2> QED
      BY <1>2, <2>4, <2>6, <2>7, <2>8, <2>9, <2>10, <2>11 DEF Run
  <1>3. CASE BackendRestarts
    BY <1>3 DEF WriterInv, BackendRestarts
  <1>4. CASE UNCHANGED runnerVars
    BY <1>4 DEF WriterInv, runnerVars
  <1> QED
    BY <1>1, <1>2, <1>3, <1>4 DEF RunnerNext

\* No two turns of a project ever run in the agent's session at once.
THEOREM SessionHasOneWriter == RunnerSpec => []OneWriter
  <1>1. RunnerInit => WriterInv
    BY DEF RunnerInit, WriterInv
  <1>2. FlightInv /\ WriterInv /\ [RunnerNext]_runnerVars => WriterInv'
    BY WriterStep DEF FlightInv
  <1>3. WriterInv => OneWriter
    BY DEF WriterInv, OneWriter
  <1> QED
    BY <1>1, <1>2, <1>3, Flown, PTL DEF RunnerSpec

-----------------------------------------------------------------------------
(* How a dispatch can be lost *)

Doomed == {"toldSettled", "crashed", "tail"}

\* A dispatch past its settle will not look at a row armed behind it: the
\* request that armed it has still to be scheduled, or was skipped.
LostInv ==
  /\ LostOnlyBySkip
  /\ \A d \in Dispatches :
       pc[d] \in Doomed /\ rows[d[1]].status = "working" =>
         posted[d[1]] > 0 \/ skipped[d[1]]

LEMMA LostByRequest ==
  ASSUME FlightInv, LostInv, NEW v \in Versions, Request(v)
  PROVE  LostInv'
  <1> USE DispatchOfVersion
  <1>0. \A w \in Versions : posted[w] \in Nat
    BY RunnerAssumption DEF FlightInv, RunnerTypeOK, RunnerAssumption
  <1>1. CASE pc' = pc /\ skipped' = skipped /\ posted' = posted
             /\ \A w \in Versions : rows'[w].status = "working" => rows[w].status = "working"
    BY <1>1 DEF LostInv, LostOnlyBySkip, ActiveDispatch
  <1>2. CASE /\ rows' = [rows EXCEPT ![v] = Armed] /\ pc' = pc
             /\ posted' = [posted EXCEPT ![v] = @ + 1]
             /\ \A w \in Versions : w # v => skipped'[w] = skipped[w]
    <2>1. posted'[v] > 0
      BY <1>0, <1>2 DEF FlightInv, RunnerTypeOK
    <2>2. \A w \in Versions : w # v => rows'[w] = rows[w] /\ posted'[w] = posted[w]
      BY <1>2 DEF FlightInv, RunnerTypeOK
    <2> QED
      BY <1>2, <2>1, <2>2 DEF LostInv, LostOnlyBySkip, ActiveDispatch
  <1>3. CASE PostStart(v) \/ PostAdvance(v) \/ PostAsk(v)
    BY <1>1, <1>2, <1>3 DEF PostStart, PostAdvance, PostAsk, Arm, Freeze, FlightInv, RunnerTypeOK
  <1>4. CASE PostPause(v) \/ PostRelay(v)
    BY <1>1, <1>4 DEF PostPause, PostRelay, Paused, FlightInv, RunnerTypeOK
  <1>5. CASE ScheduleDispatch(v) /\ ActiveDispatch(v)
    <2>1. pc' = pc /\ rows' = rows /\ skipped'[v]
      BY <1>5 DEF ScheduleDispatch, dbvars, FlightInv, RunnerTypeOK
    <2>2. \A w \in Versions : w # v => posted'[w] = posted[w] /\ skipped'[w] = skipped[w]
      BY <1>5 DEF ScheduleDispatch, FlightInv, RunnerTypeOK
    <2> QED
      BY <2>1, <2>2 DEF LostInv, LostOnlyBySkip, ActiveDispatch
  <1>6. CASE ScheduleDispatch(v) /\ ~ActiveDispatch(v)
    <2>1. PICK d \in Dispatches : d[1] = v /\ pc' = [pc EXCEPT ![d] = "scheduled"]
      BY <1>6 DEF ScheduleDispatch
    <2>2. rows' = rows
      BY <1>6 DEF ScheduleDispatch, dbvars
    <2>3. \A w \in Versions : w # v => posted'[w] = posted[w] /\ skipped'[w] = skipped[w]
      BY <1>6 DEF ScheduleDispatch, FlightInv, RunnerTypeOK
    <2>4. pc'[d] = "scheduled" /\ \A e \in Dispatches : e # d => pc'[e] = pc[e]
      BY <2>1 DEF FlightInv, RunnerTypeOK
    <2>5. \A e \in Dispatches : e[1] = v => pc'[e] \notin Doomed
      BY <1>6, <2>4 DEF ActiveDispatch, Doomed
    <2> QED
      BY <2>1, <2>2, <2>3, <2>4, <2>5 DEF LostInv, LostOnlyBySkip, ActiveDispatch, Doomed
  <1> QED
    BY <1>3, <1>4, <1>5, <1>6 DEF Request

\* A dispatch keeps LostInv when it leaves the requests alone and stays alive,
\* and settles the row, or keeps out of Doomed, or was there.
LEMMA LostByDispatch ==
  ASSUME FlightInv, LostInv, NEW d \in Dispatches, Run(d)
  PROVE  LostInv'
  <1> USE DispatchOfVersion DEF FlightInv
  <1>1. posted' = posted /\ skipped' = skipped
    BY DEF Run, Begin, NothingToRun, AgentAnswers, SettleThenTell, NextInvocation, LeaveBuild,
           Settle, AfterTelling, Drain, TurnRaises, AfterCrash, Finish, Invoke
  <1>2. \A w \in Versions : w # d[1] => rows'[w] = rows[w]
    BY DEF Run, Begin, NothingToRun, AgentAnswers, SettleThenTell, NextInvocation, LeaveBuild,
           Settle, AfterTelling, Drain, TurnRaises, AfterCrash, Finish, CommitRow, RunnerTypeOK
  <1>3. pc[d] # "none" /\ \A e \in Dispatches : e # d => pc'[e] = pc[e]
    BY OwnPoint DEF RunnerTypeOK
  <1>4. \A e \in Dispatches : e[1] = d[1] /\ e # d => pc'[e] = "none"
    BY <1>3 DEF SingleFlight
  <1>5. SUFFICES ASSUME rows'[d[1]].status = "working", pc'[d] \in Doomed \cup {"none"}
                 PROVE  posted[d[1]] > 0 \/ skipped[d[1]]
    BY <1>1, <1>2, <1>3, <1>4, <1>5 DEF LostInv, LostOnlyBySkip, ActiveDispatch, Doomed
  <1>6. SUFFICES pc[d] \in Doomed /\ rows[d[1]].status = "working"
    BY <1>6 DEF LostInv
  <1>7. AfterSettle(d) => pc'[d] \in {"drain", "tail"}
    BY DEF AfterSettle, RunnerTypeOK
  <1>8. Invoke(d) => pc'[d] \in {"claude", pc[d]}
    BY DEF Invoke, RunnerTypeOK
  <1>9. ~(Begin(d) \/ NextInvocation(d) \/ AgentAnswers(d) \/ Drain(d))
    BY <1>5, <1>8 DEF Begin, NextInvocation, AgentAnswers, Drain, Doomed, RunnerTypeOK
  <1>10. ~(SettleThenTell(d) \/ Settle(d) \/ TurnRaises(d))
    BY <1>5 DEF SettleThenTell, Settle, TurnRaises, CommitRow, Settled, RunnerTypeOK
  <1>11. ~(NothingToRun(d) \/ LeaveBuild(d))
    BY <1>5 DEF NothingToRun, LeaveBuild
  <1>12. CASE AfterTelling(d) \/ AfterCrash(d)
    BY <1>5, <1>12 DEF AfterTelling, AfterCrash, Doomed
  <1>13. CASE Finish(d)
    <2>1. rows'[d[1]].status = rows[d[1]].status
      BY <1>13 DEF Finish, RunnerTypeOK, VersionRows
    <2> QED
      BY <1>5, <1>13, <2>1 DEF Finish, Doomed
  <1> QED
    BY <1>9, <1>10, <1>11, <1>12, <1>13 DEF Run

LEMMA LostStep == FlightInv /\ LostInv /\ [RunnerNext]_runnerVars => LostInv'
  <1> SUFFICES ASSUME FlightInv, LostInv, [RunnerNext]_runnerVars PROVE LostInv'
    OBVIOUS
  <1>1. CASE BackendRestarts
    <2>1. \A v \in Versions : rows'[v].status # "working"
      BY <1>1 DEF BackendRestarts, Settled
    <2> QED
      BY <2>1, DispatchOfVersion DEF LostInv, LostOnlyBySkip
  <1>2. CASE UNCHANGED runnerVars
    BY <1>2 DEF LostInv, LostOnlyBySkip, ActiveDispatch, runnerVars
  <1> QED
    BY <1>1, <1>2, LostByRequest, LostByDispatch DEF RunnerNext

\* A version is left working with no one to settle it only when schedule_dispatch
\* skipped its request: exceptions, drains, pauses and flag clearing never do it.
THEOREM OneWayToLoseADispatch == RunnerSpec => []LostOnlyBySkip
  <1>1. RunnerInit => LostInv
    BY DEF RunnerInit, LostInv, LostOnlyBySkip, Settled, Doomed
  <1>2. LostInv => LostOnlyBySkip
    BY DEF LostInv
  <1> QED
    BY <1>1, <1>2, LostStep, Flown, PTL DEF RunnerSpec
=============================================================================
