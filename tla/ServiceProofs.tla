---------------------------- MODULE ServiceProofs ----------------------------
(***************************************************************************)
(* Five services around the engine, and the migration that fills its       *)
(* database, for every number of retries, feats, rounds, documents,        *)
(* concurrent requests, terminals, customers and projects: which processes *)
(* an agent's invocation may leave behind, that a plan is of one round,    *)
(* that the index of the knowledge base follows the disk, that a terminal  *)
(* has one process, that a customer's secret is its own, and that a        *)
(* project is copied as it was at one moment. They share no state.         *)
(***************************************************************************)
EXTENDS AgentCall, PlanRound, Knowledge, AgentTerminal, Customers, Migration, TLAPS

-----------------------------------------------------------------------------
(* Agent invocations *)

\* The processes of a place: those of the CLI, or those of the container.
InPlace ==
  /\ call.at = "claude" => alive \subseteq {"claude", "helper"}
  /\ call.at = "sidecar" => alive \subseteq {"client", "container"}

\* A delay is followed by one more attempt, and there is one.
MayRetry == call.at = "backoff" => call.attempt < Attempts

CallInv == CallTypeOK /\ InPlace /\ MayRetry /\ NoStray

LEMMA CallInitial ==
  ASSUME Attempts \in Nat \ {0}, CallInit
  PROVE  CallInv
<1>1. 1 \in 1..Attempts OBVIOUS
<1>2. CallTypeOK BY <1>1 DEF CallInit, CallTypeOK, Call, Places, Results
<1> QED BY <1>2 DEF CallInit, CallInv, InPlace, MayRetry, NoStray

\* A step to another place, with the processes of that place.
LEMMA PlaceKept ==
  ASSUME CallInv, NEW place \in Places, call' = At(place), alive' = alive \/ alive' = {},
         place \in {"claude", "sidecar"} => alive' = {},
         place = "backoff" => call.attempt < Attempts,
         result' \in Results,
         CallTypeOK => strays' \subseteq [process : Processes, cause : Causes],
         \A s \in strays' : Explained(s),
         place \notin {"claude", "sidecar"} => alive' = {}
  PROVE  CallInv'
<1>1. call'.at = place /\ call'.attempt = call.attempt /\ call' \in Call
  BY DEF CallInv, CallTypeOK, Call, At
<1>2. CallTypeOK' BY <1>1 DEF CallInv, CallTypeOK
<1> QED BY <1>1, <1>2 DEF CallInv, InPlace, MayRetry, NoStray

\* What an answer that is at its end, or a timeout, leaves behind.
LEMMA OverLeaves ==
  ASSUME CallInv, NEW ps \in SUBSET alive, Over(ps),
         \A p \in ps : (p = "helper" /\ "claude" \notin alive) \/ (p = "container" /\ "client" \notin alive)
  PROVE  /\ alive' = {}
         /\ strays' \subseteq [process : Processes, cause : Causes]
         /\ \A s \in strays' : Explained(s)
<1>1. \A p \in ps : /\ p \in {"helper", "container"}
                    /\ Cause(p) \in {"leader exited", "client exited"}
  BY DEF Cause
<1>2. strays' = strays \cup UNION {Left({p}, Cause(p)) : p \in ps} BY DEF Over
<1>3. \A s \in strays' \ strays : \E p \in ps : s = [process |-> p, cause |-> Cause(p)]
  BY <1>2 DEF Left
<1>4. \A s \in strays' \ strays :
        /\ s \in [process : Processes, cause : Causes]
        /\ Explained(s)
  <2>1. SUFFICES ASSUME NEW s \in strays' \ strays
                 PROVE  /\ s \in [process : Processes, cause : Causes]
                        /\ Explained(s)
    OBVIOUS
  <2>2. PICK p \in ps : s = [process |-> p, cause |-> Cause(p)] BY <1>3
  <2>3. s.process = p /\ s.cause = Cause(p) BY <2>2
  <2>4. p \in Processes /\ Cause(p) \in Causes BY <1>1 DEF Processes, Causes
  <2> QED BY <1>1, <2>2, <2>3, <2>4 DEF Explained
<1> QED BY <1>4 DEF Over, CallInv, CallTypeOK, NoStray

\* A container that outlives its attempt for a reason of its own.
LEMMA ContainerLeft ==
  ASSUME CallInv, NEW cause \in {"rm failed", "restart"},
         \A s \in strays' \ strays : s = [process |-> "container", cause |-> cause]
  PROVE  /\ strays' \subseteq [process : Processes, cause : Causes]
         /\ \A s \in strays' : Explained(s)
<1>1. SUFFICES ASSUME NEW s \in strays'
               PROVE  /\ s \in [process : Processes, cause : Causes]
                      /\ Explained(s)
  OBVIOUS
<1>2. CASE s \in strays BY <1>2 DEF CallInv, CallTypeOK, NoStray
<1>3. CASE s \notin strays
  <2>1. s = [process |-> "container", cause |-> cause] BY <1>3
  <2>2. s.process = "container" /\ s.cause = cause BY <2>1
  <2>3. "container" \in Processes /\ cause \in Causes BY DEF Processes, Causes
  <2> QED BY <2>1, <2>2, <2>3 DEF Explained
<1> QED BY <1>2, <1>3

\* Every step of a call keeps the invariant.
LEMMA CallStep ==
  ASSUME Attempts \in Nat \ {0}, CallInv, [CallNext]_callVars
  PROVE  CallInv'
<1> USE DEF CallInv, CallTypeOK
<1>1. ASSUME NEW consult \in BOOLEAN, BeginCall(consult) PROVE CallInv'
  <2>1. 1 \in 1..Attempts OBVIOUS
  <2>2. call' \in Call BY <1>1, <2>1 DEF BeginCall, Call, Places
  <2> QED BY <1>1, <2>2 DEF BeginCall, InPlace, MayRetry, NoStray
<1>2. CASE LaunchFails BY <1>2, PlaceKept DEF LaunchFails, NoStray, Places
<1>3. CASE Launch
  BY <1>3 DEF Launch, Call, Places, At, InPlace, MayRetry, NoStray, Processes
<1>4. CASE LaunchSidecar
  BY <1>4 DEF LaunchSidecar, Call, Places, At, InPlace, MayRetry, NoStray, Processes
<1>5. CASE Degrade BY <1>5 DEF Degrade, Call, InPlace, MayRetry, NoStray
<1>6. CASE ClaudeAnswers
  <2>1. /\ alive' = {}
        /\ strays' \subseteq [process : Processes, cause : Causes]
        /\ \A s \in strays' : Explained(s)
    BY <1>6, OverLeaves DEF ClaudeAnswers, InPlace
  <2>2. CASE result = "transient" /\ call.attempt < Attempts
    <3>1. call' = At("backoff") BY <1>6, <2>2 DEF ClaudeAnswers, Raised
    <3> QED BY <1>6, <2>1, <2>2, <3>1, PlaceKept DEF ClaudeAnswers, Places
  <2>3. CASE ~(result = "transient" /\ call.attempt < Attempts)
    <3>1. call' = At("rest") BY <1>6, <2>3 DEF ClaudeAnswers, Raised
    <3> QED BY <1>6, <2>1, <3>1, PlaceKept DEF ClaudeAnswers, Places
  <2> QED BY <2>2, <2>3
<1>7. CASE SidecarAnswers
  <2>1. /\ alive' = {}
        /\ strays' \subseteq [process : Processes, cause : Causes]
        /\ \A s \in strays' : Explained(s)
    BY <1>7, OverLeaves DEF SidecarAnswers, InPlace
  <2>2. CASE result = "unavailable"
    <3>1. call' = [call EXCEPT !.at = "launch", !.sandbox = FALSE] BY <1>7, <2>2 DEF SidecarAnswers
    <3> QED BY <1>7, <2>1, <3>1 DEF SidecarAnswers, Call, Places, InPlace, MayRetry, NoStray
  <2>3. CASE result = "transient" /\ call.attempt < Attempts
    <3>1. call' = At("backoff") BY <1>7, <2>3 DEF SidecarAnswers, Raised
    <3> QED BY <1>7, <2>1, <2>3, <3>1, PlaceKept DEF SidecarAnswers, Places
  <2>4. CASE result # "unavailable" /\ ~(result = "transient" /\ call.attempt < Attempts)
    <3>1. call' = At("rest") BY <1>7, <2>4 DEF SidecarAnswers, Raised
    <3> QED BY <1>7, <2>1, <3>1, PlaceKept DEF SidecarAnswers, Places
  <2> QED BY <2>2, <2>3, <2>4
<1>8. CASE ClaudeTimesOut
  <2>1. /\ KillTree \in SUBSET alive
        /\ \A p \in KillTree : p = "helper" /\ "claude" \notin alive
    BY <1>8 DEF ClaudeTimesOut, KillTree, InPlace
  <2>2. /\ alive' = {}
        /\ strays' \subseteq [process : Processes, cause : Causes]
        /\ \A s \in strays' : Explained(s)
    BY <1>8, <2>1, OverLeaves DEF ClaudeTimesOut
  <2> QED BY <1>8, <2>2, PlaceKept DEF ClaudeTimesOut, Places
<1>9. CASE ClaudeBreaks
  <2>1. alive' = {} /\ strays' = strays \cup Left(alive, "no timeout") BY <1>9 DEF ClaudeBreaks
  <2>2. alive \subseteq {"claude", "helper"} BY <1>9 DEF ClaudeBreaks, InPlace
  <2>3. ASSUME NEW s \in strays'
        PROVE  s \in [process : Processes, cause : Causes] /\ Explained(s)
    <3>1. CASE s \in strays BY <3>1 DEF NoStray
    <3>2. CASE s \notin strays
      <4>1. PICK p \in alive : s = [process |-> p, cause |-> "no timeout"] BY <2>1, <2>3, <3>2 DEF Left
      <4>2. s.process = p /\ s.cause = "no timeout" BY <4>1
      <4>3. p \in Processes /\ "no timeout" \in Causes /\ p # "client" BY <2>2 DEF Processes, Causes
      <4> QED BY <4>1, <4>2, <4>3 DEF Explained
    <3> QED BY <3>1, <3>2
  <2> QED BY <1>9, <2>1, <2>3, PlaceKept DEF ClaudeBreaks, Places
<1>10. CASE SidecarTimesOut
  <2>1. alive' = {} BY <1>10 DEF SidecarTimesOut, Over
  <2>2. \A s \in strays' \ strays :
          s = [process |-> "container", cause |-> "rm failed"]
    BY <1>10 DEF SidecarTimesOut, Over, Left
  <2>3. /\ strays' \subseteq [process : Processes, cause : Causes]
        /\ \A s \in strays' : Explained(s)
    BY <2>2, ContainerLeft
  <2> QED BY <1>10, <2>1, <2>3, PlaceKept DEF SidecarTimesOut, Places
<1>11. CASE Retry
  <2>1. call.attempt + 1 \in 1..Attempts BY <1>11 DEF Retry, MayRetry, Call
  <2>2. call' \in Call /\ call'.at = "launch" BY <1>11, <2>1 DEF Retry, Call, Places
  <2> QED BY <1>11, <2>2 DEF Retry, InPlace, MayRetry, NoStray
<1>12. CASE EngineRestarts
  <2>1. \A s \in strays' \ strays : s = [process |-> "container", cause |-> "restart"]
    BY <1>12 DEF EngineRestarts, Left
  <2>2. /\ strays' \subseteq [process : Processes, cause : Causes]
        /\ \A s \in strays' : Explained(s)
    BY <2>1, ContainerLeft
  <2> QED BY <1>12, <2>2, PlaceKept DEF EngineRestarts, Places
<1>13. CASE \/ HelperStarts \/ HelperExits \/ ClaudeExits
            \/ ContainerStarts \/ ContainerExits \/ ClientExits
  <2>1. UNCHANGED <<call, strays>> /\ result' \in Results
    BY <1>13 DEF HelperStarts, HelperExits, ClaudeExits, ContainerStarts, ContainerExits, ClientExits,
       Exits, Results
  <2>2. alive' \subseteq Processes
    BY <1>13 DEF HelperStarts, HelperExits, ClaudeExits, ContainerStarts, ContainerExits, ClientExits,
       Exits, Processes
  <2>3. call.at \in {"claude", "sidecar"}
    BY <1>13 DEF HelperStarts, HelperExits, ClaudeExits, ContainerStarts, ContainerExits, ClientExits, NoStray
  <2>4. InPlace'
    BY <1>13, <2>1 DEF HelperStarts, HelperExits, ClaudeExits, ContainerStarts, ContainerExits, ClientExits,
       Exits, InPlace
  <2> QED BY <2>1, <2>2, <2>3, <2>4 DEF MayRetry, NoStray
<1>14. CASE StrayExits BY <1>14 DEF StrayExits, InPlace, MayRetry, NoStray
<1>15. CASE UNCHANGED callVars BY <1>15 DEF callVars, InPlace, MayRetry, NoStray
<1> QED
  BY <1>1, <1>2, <1>3, <1>4, <1>5, <1>6, <1>7, <1>8, <1>9, <1>10, <1>11, <1>12, <1>13, <1>14, <1>15 DEF CallNext

\* No process outlives its attempt without a reason for it, and the CLI only a wait
\* that its timeout did not end, however often the call is tried again.
THEOREM StraysAreExplained == ASSUME Attempts \in Nat \ {0} PROVE CallSpec => []NoStray
<1>1. CallInit => CallInv BY CallInitial
<1>2. CallInv /\ [CallNext]_callVars => CallInv' BY CallStep
<1>3. CallInv => NoStray BY DEF CallInv
<1> QED BY <1>1, <1>2, <1>3, PTL DEF CallSpec

-----------------------------------------------------------------------------
(* Plan rounds *)

\* What is in memory is of the present round, and what is committed of an earlier
\* one until it is written.
Composing ==
  /\ at # "rest" => round > 0 /\ \A f \in Feats : plan[f] < round
  /\ at \in {"skeleton", "feats"} =>
       \A f \in Feats : filled[f] = 0 \/ (filled[f] = round /\ f \in skeleton)
  /\ at = "skeleton" => filled = Nowhere
  /\ at = "write" => filled = PlanOf(skeleton, round) /\ (register = "navrh" => declared = round)

PlanTyped ==
  /\ round \in Nat /\ skeleton \subseteq Feats
  /\ at \in {"rest", "skeleton", "feats", "write"}
  /\ filled \in [Feats -> Nat] /\ plan \in [Feats -> Nat]

PlanInv == PlanTyped /\ Composing /\ PlanWhole

LEMMA PlanInitial == PlanInit => PlanInv
<1> SUFFICES ASSUME PlanInit PROVE PlanInv OBVIOUS
<1>1. PlanTyped BY DEF PlanInit, PlanTyped, Nowhere
<1>2. Composing BY DEF PlanInit, Composing
<1>3. PlanWhole
  <2>1. plan = PlanOf({}, 0) BY DEF PlanInit, PlanOf, Nowhere
  <2>2. 0 \in 0..round BY DEF PlanInit
  <2> QED BY <2>1, <2>2 DEF PlanInit, PlanWhole
<1> QED BY <1>1, <1>2, <1>3 DEF PlanInv

\* A plan that is not written is as whole as it was.
LEMMA PlanStays ==
  ASSUME PlanInv, UNCHANGED plan, round' \in Nat, round <= round'
  PROVE  \E s \in SUBSET Feats, n \in 0..round' : plan' = PlanOf(s, n)
<1>1. PICK s \in SUBSET Feats, n \in 0..round : plan = PlanOf(s, n) BY DEF PlanInv, PlanWhole
<1>2. n \in 0..round' BY DEF PlanInv, PlanTyped
<1> QED BY <1>1, <1>2

\* No feat of the committed plan is of a round to come.
LEMMA PlanIsPast == PlanInv => \A f \in Feats : plan[f] <= round
<1> SUFFICES ASSUME PlanInv, NEW f \in Feats PROVE plan[f] <= round OBVIOUS
<1>1. PICK s \in SUBSET Feats, n \in 0..round : plan = PlanOf(s, n) BY DEF PlanInv, PlanWhole
<1>2. plan[f] = IF f \in s THEN n ELSE 0 BY <1>1 DEF PlanOf
<1> QED BY <1>2 DEF PlanInv, PlanTyped

\* A round that stops leaves the earlier plan.
LEMMA StopKeeps ==
  ASSUME PlanInv, NEW how \in {"review", "blocked", "restart"}, at # "rest", Stops(how)
  PROVE  PlanInv'
<1> USE DEF Stops, PassesEnd
<1>1. PlanTyped' BY DEF PlanInv, PlanTyped
<1>2. Composing' BY DEF Composing
<1>3. PlanWhole'
  <2>1. \E s \in SUBSET Feats, n \in 0..round' : plan' = PlanOf(s, n)
    BY PlanStays DEF PlanInv, PlanTyped
  <2>2. \A f \in Feats : plan'[f] < round' BY DEF PlanInv, Composing
  <2>3. outcome' # "written" OBVIOUS
  <2> QED BY <2>1, <2>2, <2>3 DEF PlanWhole
<1> QED BY <1>1, <1>2, <1>3 DEF PlanInv

\* The plan in memory becomes the plan.
LEMMA WriteKeeps ==
  ASSUME PlanInv, NEW how \in {"written", "undocumented"}, at = "write",
         plan' = filled, PassesEnd(how), UNCHANGED declared
  PROVE  PlanInv'
<1> USE DEF PassesEnd
<1>1. PlanTyped' BY DEF PlanInv, PlanTyped
<1>2. Composing' BY DEF Composing
<1>3. PlanWhole'
  <2>1. plan' = PlanOf(skeleton', round') BY DEF PlanInv, Composing, PlanOf
  <2>2. round' \in 0..round' /\ skeleton' \in SUBSET Feats BY DEF PlanInv, PlanTyped
  <2>3. register' = "navrh" => declared' = round' BY DEF PlanInv, Composing
  <2> QED BY <2>1, <2>2, <2>3 DEF PlanWhole
<1> QED BY <1>1, <1>2, <1>3 DEF PlanInv

\* A step inside a round, or into one, leaves the committed plan behind the round.
LEMMA ComposeKeeps ==
  ASSUME PlanInv, UNCHANGED plan, round' \in Nat, round <= round', round' > 0, at' # "rest",
         \A f \in Feats : plan[f] < round',
         PlanTyped', Composing'
  PROVE  PlanInv'
<1>1. \E s \in SUBSET Feats, n \in 0..round' : plan' = PlanOf(s, n) BY PlanStays
<1> QED BY <1>1 DEF PlanInv, PlanWhole

LEMMA PlanStep == PlanInv /\ [PlanNext]_planVars => PlanInv'
<1> SUFFICES ASSUME PlanInv, [PlanNext]_planVars PROVE PlanInv' OBVIOUS
<1>1. ASSUME NEW hasBaseline \in BOOLEAN, PlanRoundBegins(hasBaseline) PROVE PlanInv'
  <2> USE <1>1 DEF PlanRoundBegins
  <2>1. PlanTyped' BY DEF PlanInv, PlanTyped, Nowhere
  <2>2. \A f \in Feats : plan[f] < round' BY PlanIsPast DEF PlanInv, PlanTyped
  <2>3. Composing' BY <2>2 DEF PlanInv, PlanTyped, Composing, Nowhere
  <2> QED BY <2>1, <2>2, <2>3, ComposeKeeps DEF PlanInv, PlanTyped
<1>2. ASSUME NEW s \in SUBSET Feats, InlinePlan(s) PROVE PlanInv'
  <2> USE <1>2 DEF InlinePlan
  <2>1. PlanTyped' BY DEF PlanInv, PlanTyped, PlanOf
  <2>2. \A f \in Feats : plan[f] < round' BY PlanIsPast DEF PlanInv, PlanTyped
  <2>3. Composing' BY <2>2 DEF PlanInv, PlanTyped, Composing, Report, PlanOf
  <2> QED BY <2>1, <2>2, <2>3, ComposeKeeps DEF PlanInv, PlanTyped
<1>3. ASSUME NEW s \in SUBSET Feats, SkeletonAnswers(s) PROVE PlanInv'
  <2>1. CASE Stops("blocked") BY <1>3, <2>1, StopKeeps DEF SkeletonAnswers
  <2>2. CASE ~(Cardinality(s) > MAX_PLAN_FEATS)
    <3> USE <1>3, <2>2 DEF SkeletonAnswers
    <3>1. PlanTyped' BY DEF PlanInv, PlanTyped
    <3>2. Composing' BY DEF PlanInv, Composing, Nowhere
    <3> QED BY <3>1, <3>2, ComposeKeeps DEF PlanInv, PlanTyped, Composing
  <2> QED BY <1>3, <2>1, <2>2 DEF SkeletonAnswers
<1>4. ASSUME NEW kind \in {"unusable", "crash", "timeout"}, PassFails(kind) PROVE PlanInv'
  <2>1. CASE Settle(kind) BY <1>4, <2>1, StopKeeps DEF PassFails, Settle
  <2>2. CASE UNCHANGED <<register, round, at, armed, skeleton, filled, plan, declared, outcome>>
    <3>1. PlanTyped' BY <2>2 DEF PlanInv, PlanTyped
    <3>2. Composing' BY <2>2 DEF PlanInv, Composing
    <3> QED BY <1>4, <2>2, <3>1, <3>2, ComposeKeeps DEF PassFails, PlanInv, PlanTyped, Composing
  <2> QED BY <1>4, <2>1, <2>2 DEF PassFails
<1>5. CASE FeatAnswers
  <2> USE <1>5 DEF FeatAnswers
  <2>1. PICK f \in {g \in skeleton : filled[g] # round} :
          /\ filled' = [filled EXCEPT ![f] = round]
          /\ IF \A g \in skeleton : filled'[g] = round
             THEN at' = "write" /\ Report(round)
             ELSE UNCHANGED <<at, declared>>
    OBVIOUS
  <2>2. PlanTyped' BY <2>1 DEF PlanInv, PlanTyped
  <2>3. \A g \in Feats : filled'[g] = 0 \/ (filled'[g] = round' /\ g \in skeleton')
    BY <2>1 DEF PlanInv, PlanTyped, Composing
  <2>4. at' = "write" => filled' = PlanOf(skeleton', round') /\ (register' = "navrh" => declared' = round')
    <3>1. HAVE at' = "write"
    <3>2. (\A g \in skeleton : filled'[g] = round) /\ Report(round) BY <2>1, <3>1
    <3>3. \A g \in Feats : filled'[g] = IF g \in skeleton THEN round ELSE 0 BY <2>3, <3>2
    <3>4. filled' = PlanOf(skeleton, round) BY <2>2, <3>3 DEF PlanTyped, PlanOf
    <3> QED BY <3>2, <3>4 DEF Report, PlanOf
  <2>5. Composing' BY <2>1, <2>3, <2>4 DEF PlanInv, Composing
  <2>6. at' # "rest" BY <2>1
  <2> QED BY <2>2, <2>5, <2>6, ComposeKeeps DEF PlanInv, PlanTyped, Composing
<1>6. CASE WriteSucceeds BY <1>6, WriteKeeps DEF WriteSucceeds
<1>7. CASE WriteFails BY <1>7, StopKeeps DEF WriteFails
<1>8. CASE DocumentFails BY <1>8, WriteKeeps DEF DocumentFails
<1>9. CASE PlanRestart BY <1>9, StopKeeps DEF PlanRestart
<1>10. CASE UNCHANGED planVars
  BY <1>10 DEF planVars, PlanInv, PlanTyped, Composing, PlanWhole
<1> QED BY <1>1, <1>2, <1>3, <1>4, <1>5, <1>6, <1>7, <1>8, <1>9, <1>10 DEF PlanNext

\* A plan is whole and of one round, whatever the passes answer, and for any number
\* of feats, retries and rounds.
THEOREM PlanIsOfOneRound == PlanSpec => []PlanWhole
<1>1. PlanInit => PlanInv BY PlanInitial
<1>2. PlanInv /\ [PlanNext]_planVars => PlanInv' BY PlanStep
<1>3. PlanInv => PlanWhole BY DEF PlanInv
<1> QED BY <1>1, <1>2, <1>3, PTL DEF PlanSpec

-----------------------------------------------------------------------------
(* The knowledge base *)

\* A request that met no other one is alone at its documents.
AloneIsAlone ==
  \A r, q \in Requests :
    req[r] # NoRequest /\ req[r].alone /\ q # r => req[r].docs \cap req[q].docs = {}

\* What an undisturbed request of each kind has reached when it waits.
Undisturbed(r) ==
  \A d \in req[r].docs :
    /\ req[r].kind \in {"save", "script"} => disk[d] = req[r].text
    /\ Is(r, {"save", "script"}, "embed") => index[d] = {}
    /\ req[r].kind = "delete" => index[d] = {}
    /\ req[r].kind = "project" => disk[d] = NoText
    /\ Is(r, {"project"}, "remove") => \A t \in index[d] : <<d, t>> \in req[r].found

Reached == \A r \in Requests : req[r] # NoRequest /\ req[r].alone /\ req[r].good => Undisturbed(r)

ReqTyped ==
  /\ disk \in [Documents -> Texts \cup {NoText}] /\ index \in [Documents -> SUBSET Texts]
  /\ req \in [Requests -> Record \cup {NoRequest}] /\ stale \subseteq Documents
  /\ \A r \in Requests : req[r].kind \in {"save", "script"} => req[r].text \in Texts /\ req[r].good
  /\ \A r \in Requests : req[r].kind = "project" =>
       req[r].docs = ProjectsOwn /\ req[r].found \subseteq ProjectsOwn \X Texts

KnowledgeInv == ReqTyped /\ AloneIsAlone /\ Reached /\ IndexIsDisk

LEMMA KnowledgeInitial ==
  ASSUME ProjectsOwn \subseteq Documents, NoText \notin Texts, KnowledgeInit
  PROVE  KnowledgeInv
<1> USE DEF KnowledgeInit
<1>1. ReqTyped BY DEF ReqTyped, NoRequest
<1>2. AloneIsAlone /\ Reached BY DEF AloneIsAlone, Reached
<1>3. IndexIsDisk BY DEF IndexIsDisk
<1> QED BY <1>1, <1>2, <1>3 DEF KnowledgeInv

\* A document is settled when no request is at it and none has left it stale.
LEMMA EndKeeps ==
  ASSUME KnowledgeInv, NEW r \in Requests, req[r] # NoRequest, NEW good \in BOOLEAN, End(r, good),
         disk' \in [Documents -> Texts \cup {NoText}], index' \in [Documents -> SUBSET Texts],
         \A d \in Documents \ req[r].docs : disk'[d] = disk[d] /\ index'[d] = index[d],
         good /\ req[r].alone => \A d \in req[r].docs : index'[d] = {disk'[d]} \ {NoText}
  PROVE  KnowledgeInv'
<1> USE DEF End
<1>1. ReqTyped'
  <2>1. req[r].docs \subseteq Documents BY DEF KnowledgeInv, ReqTyped, Record
  <2> QED BY <2>1 DEF KnowledgeInv, ReqTyped, NoRequest
<1>2. \A q \in Requests : req'[q] = IF q = r THEN NoRequest ELSE req[q] BY DEF KnowledgeInv, ReqTyped
<1>3. AloneIsAlone' BY <1>2 DEF KnowledgeInv, AloneIsAlone, NoRequest
<1>4. Reached'
  <2> SUFFICES ASSUME NEW q \in Requests, req'[q] # NoRequest, req'[q].alone, req'[q].good
               PROVE  Undisturbed(q)'
    BY DEF Reached
  <2>1. q # r /\ req'[q] = req[q] BY <1>2
  <2>2. Undisturbed(q) BY <2>1 DEF KnowledgeInv, Reached
  <2>3. req[q].docs \cap req[r].docs = {} BY <2>1 DEF KnowledgeInv, AloneIsAlone
  <2>4. req[q].docs \subseteq Documents BY DEF KnowledgeInv, ReqTyped, Record, NoRequest
  <2>5. \A d \in req[q].docs : disk'[d] = disk[d] /\ index'[d] = index[d] BY <2>3, <2>4
  <2> QED BY <2>1, <2>2, <2>5 DEF Undisturbed, Is
<1>5. IndexIsDisk'
  <2> SUFFICES ASSUME NEW d \in Documents \ stale', \A q \in Requests : d \notin req'[q].docs
               PROVE  index'[d] = {disk'[d]} \ {NoText}
    BY DEF IndexIsDisk
  <2>1. CASE d \in req[r].docs BY <2>1
  <2>2. CASE d \notin req[r].docs
    <3>1. d \notin stale BY <2>2
    <3>2. \A q \in Requests : d \notin req[q].docs BY <1>2, <2>2
    <3> QED BY <2>2, <3>1, <3>2 DEF KnowledgeInv, IndexIsDisk
  <2> QED BY <2>1, <2>2
<1> QED BY <1>1, <1>3, <1>4, <1>5 DEF KnowledgeInv

\* A request that begins changes its own documents only, and is the end of the
\* others' being alone there.
LEMMA BeginKeeps ==
  ASSUME KnowledgeInv, NEW r \in Requests, NEW docs \in SUBSET Documents,
         NEW kind \in {"save", "delete", "script", "project"},
         NEW where \in {"drop", "unlink", "scroll"},
         NEW text \in Texts \cup {NoText}, NEW good \in BOOLEAN,
         Arrive(r, kind, where, docs, text, good), UNCHANGED stale,
         kind \in {"save", "script"} => text \in Texts /\ good,
         kind = "project" => docs = ProjectsOwn,
         disk' \in [Documents -> Texts \cup {NoText}], index' \in [Documents -> SUBSET Texts],
         \A d \in Documents \ docs : disk'[d] = disk[d] /\ index'[d] = index[d],
         good => Undisturbed(r)'
  PROVE  KnowledgeInv'
<1> DEFINE new == [kind |-> kind, at |-> where, docs |-> docs, text |-> text, found |-> {},
                   good |-> good, alone |-> \A q \in Requests : req[q].docs \cap docs = {}]
<1>1. req'[r] = new
  <2>1. ({q \in Requests : req[q].docs \cap docs # {}} = {}) = (\A q \in Requests : req[q].docs \cap docs = {})
    OBVIOUS
  <2> QED BY <2>1 DEF Arrive
<1>2. new \in Record BY DEF Record
<1>3. \A q \in Requests \ {r} :
        req'[q] = IF req[q].docs \cap docs # {} THEN [req[q] EXCEPT !.alone = FALSE] ELSE req[q]
  BY DEF Arrive
<1>4. \A q \in Requests : req[q].docs \cap docs # {} => req[q] \in Record
  BY DEF KnowledgeInv, ReqTyped, NoRequest
<1>5. \A q \in Requests \ {r} :
        /\ req'[q].kind = req[q].kind /\ req'[q].docs = req[q].docs
        /\ req'[q] # NoRequest /\ req'[q].alone => req'[q] = req[q] /\ req[q].docs \cap docs = {}
        /\ req'[q] \in Record \cup {NoRequest}
        /\ req'[q].kind \in {"save", "script"} => req'[q].text = req[q].text /\ req'[q].good = req[q].good
        /\ req'[q].kind = "project" => req'[q].found = req[q].found
  <2> TAKE q \in Requests \ {r}
  <2>1. CASE req[q].docs \cap docs = {} BY <1>3, <2>1 DEF KnowledgeInv, ReqTyped
  <2>2. CASE req[q].docs \cap docs # {}
    <3>1. req'[q] = [req[q] EXCEPT !.alone = FALSE] /\ req[q] \in Record BY <1>3, <1>4, <2>2
    <3> QED BY <3>1 DEF Record
  <2> QED BY <2>1, <2>2
<1> HIDE DEF new
<1>6. /\ req'[r].kind = kind /\ req'[r].docs = docs /\ req'[r].text = text /\ req'[r].good = good
      /\ req'[r].found = {}
      /\ req'[r].alone = (\A q \in Requests : req[q].docs \cap docs = {})
  BY <1>1 DEF new
<1>7. ReqTyped'
  <2>1. req' \in [Requests -> Record \cup {NoRequest}]
    <3>1. \A q \in Requests : req'[q] \in Record \cup {NoRequest} BY <1>1, <1>2, <1>5
    <3>2. req' = [q \in Requests |-> req'[q]] BY DEF Arrive
    <3> QED BY <3>1, <3>2
  <2>2. \A q \in Requests : req'[q].kind \in {"save", "script"} => req'[q].text \in Texts /\ req'[q].good
    BY <1>5, <1>6 DEF KnowledgeInv, ReqTyped
  <2>3. \A q \in Requests : req'[q].kind = "project" =>
          req'[q].docs = ProjectsOwn /\ req'[q].found \subseteq ProjectsOwn \X Texts
    BY <1>5, <1>6 DEF KnowledgeInv, ReqTyped
  <2> QED BY <2>1, <2>2, <2>3 DEF KnowledgeInv, ReqTyped
<1>8. AloneIsAlone'
  <2> SUFFICES ASSUME NEW q \in Requests, NEW p \in Requests, req'[q] # NoRequest, req'[q].alone, p # q
               PROVE  req'[q].docs \cap req'[p].docs = {}
    BY DEF AloneIsAlone
  <2>1. CASE q = r BY <1>5, <1>6, <2>1
  <2>2. CASE q # r /\ p = r BY <1>5, <1>6, <2>2
  <2>3. CASE q # r /\ p # r BY <1>5, <2>3 DEF KnowledgeInv, AloneIsAlone
  <2> QED BY <2>1, <2>2, <2>3
<1>9. Reached'
  <2> SUFFICES ASSUME NEW q \in Requests, req'[q] # NoRequest, req'[q].alone, req'[q].good
               PROVE  Undisturbed(q)'
    BY DEF Reached
  <2>1. CASE q = r BY <1>6, <2>1
  <2>2. CASE q # r
    <3>1. req'[q] = req[q] /\ req[q].docs \cap docs = {} BY <1>5, <2>2
    <3>2. Undisturbed(q) BY <3>1 DEF KnowledgeInv, Reached
    <3>3. req[q].docs \subseteq Documents BY DEF KnowledgeInv, ReqTyped, Record, NoRequest
    <3>4. \A d \in req[q].docs : disk'[d] = disk[d] /\ index'[d] = index[d] BY <3>1, <3>3
    <3> QED BY <3>1, <3>2, <3>4 DEF Undisturbed, Is
  <2> QED BY <2>1, <2>2
<1>10. IndexIsDisk'
  <2> SUFFICES ASSUME NEW d \in Documents \ stale', \A q \in Requests : d \notin req'[q].docs
               PROVE  index'[d] = {disk'[d]} \ {NoText}
    BY DEF IndexIsDisk
  <2>1. d \notin docs BY <1>6
  <2>2. \A q \in Requests : d \notin req[q].docs BY <1>5 DEF Arrive, NoRequest
  <2> QED BY <2>1, <2>2 DEF KnowledgeInv, IndexIsDisk
<1> QED BY <1>7, <1>8, <1>9, <1>10 DEF KnowledgeInv

\* A request that goes on keeps its documents, and changes them only.
LEMMA MoveKeeps ==
  ASSUME KnowledgeInv, NEW r \in Requests, NEW new \in Record, req' = [req EXCEPT ![r] = new],
         new.kind = req[r].kind, new.docs = req[r].docs, new.text = req[r].text,
         new.kind = "project" => new.found \subseteq ProjectsOwn \X Texts,
         new.alone = req[r].alone, new.good = req[r].good, req[r] # NoRequest,
         UNCHANGED <<disk, stale>>, index' \in [Documents -> SUBSET Texts],
         \A d \in Documents \ req[r].docs : index'[d] = index[d],
         req[r].alone /\ req[r].good => Undisturbed(r)'
  PROVE  KnowledgeInv'
<1>1. \A q \in Requests : /\ req'[q].docs = req[q].docs
                          /\ q # r => req'[q] = req[q]
  BY DEF KnowledgeInv, ReqTyped
<1>2. req'[r] = new BY DEF KnowledgeInv, ReqTyped
<1>3. ReqTyped' BY <1>2 DEF KnowledgeInv, ReqTyped
<1>4. AloneIsAlone' BY <1>1, <1>2 DEF KnowledgeInv, AloneIsAlone
<1>5. Reached'
  <2> SUFFICES ASSUME NEW q \in Requests, req'[q] # NoRequest, req'[q].alone, req'[q].good
               PROVE  Undisturbed(q)'
    BY DEF Reached
  <2>1. CASE q = r BY <1>2, <2>1
  <2>2. CASE q # r
    <3>1. req'[q] = req[q] BY <1>1, <2>2
    <3>2. Undisturbed(q) /\ req[q].docs \cap req[r].docs = {}
      BY <2>2, <3>1 DEF KnowledgeInv, Reached, AloneIsAlone
    <3>3. req[q].docs \subseteq Documents BY DEF KnowledgeInv, ReqTyped, Record, NoRequest
    <3>4. \A d \in req[q].docs : index'[d] = index[d] BY <3>2, <3>3
    <3> QED BY <3>1, <3>2, <3>4 DEF Undisturbed, Is
  <2> QED BY <2>1, <2>2
<1>6. IndexIsDisk' BY <1>1 DEF KnowledgeInv, IndexIsDisk
<1> QED BY <1>3, <1>4, <1>5, <1>6 DEF KnowledgeInv

\* A record that is no record of a request has no kind of one.
LEMMA Busy ==
  ASSUME KnowledgeInv, NEW r \in Requests, req[r].kind \in {"save", "delete", "script", "project"}
  PROVE  req[r] # NoRequest /\ req[r] \in Record /\ req[r].docs \subseteq Documents
BY DEF KnowledgeInv, ReqTyped, NoRequest, Record

LEMMA KnowledgeStep ==
  ASSUME ProjectsOwn \subseteq Documents, NoText \notin Texts, KnowledgeInv, [KnowledgeNext]_knowledgeVars
  PROVE  KnowledgeInv'
<1> USE DEF Is
<1>t. ReqTyped BY DEF KnowledgeInv
<1>1. ASSUME NEW r \in Requests, DropOld(r) PROVE KnowledgeInv'
  <2> USE <1>1 DEF DropOld
  <2> DEFINE new == [req[r] EXCEPT !.at = "embed"]
  <2>1. req[r] # NoRequest /\ req[r] \in Record /\ req[r].docs \subseteq Documents BY Busy
  <2>2. /\ new \in Record /\ new.kind = req[r].kind /\ new.docs = req[r].docs /\ new.text = req[r].text
        /\ new.alone = req[r].alone /\ new.good = req[r].good /\ new.at = "embed"
    BY <2>1 DEF Record
  <2> HIDE DEF new
  <2>3. req' = [req EXCEPT ![r] = new] BY <1>t DEF new, ReqTyped
  <2>4. index' \in [Documents -> SUBSET Texts] /\ \A d \in Documents \ req[r].docs : index'[d] = index[d]
    BY <1>t DEF ReqTyped
  <2>5. req'[r] = new BY <1>t, <2>3 DEF ReqTyped
  <2>6. req[r].alone /\ req[r].good => Undisturbed(r)'
    <3>1. HAVE req[r].alone /\ req[r].good
    <3>2. Undisturbed(r) BY <2>1, <3>1 DEF KnowledgeInv, Reached
    <3>3. \A d \in req[r].docs : index'[d] = {} BY <2>1
    <3> QED BY <2>2, <2>5, <3>2, <3>3 DEF Undisturbed
  <2> QED BY <2>1, <2>2, <2>3, <2>4, <2>6, MoveKeeps
<1>2. ASSUME NEW r \in Requests, Upsert(r) PROVE KnowledgeInv'
  <2> USE <1>2 DEF Upsert
  <2>1. req[r] # NoRequest /\ req[r] \in Record /\ req[r].docs \subseteq Documents BY Busy
  <2>2. req[r].text \in Texts BY <1>t DEF ReqTyped
  <2>3. index' \in [Documents -> SUBSET Texts] /\ disk' \in [Documents -> Texts \cup {NoText}]
    BY <1>t, <2>2 DEF ReqTyped
  <2>4. \A d \in Documents \ req[r].docs : disk'[d] = disk[d] /\ index'[d] = index[d] BY <1>t DEF ReqTyped
  <2>5. req[r].alone => \A d \in req[r].docs : index'[d] = {disk'[d]} \ {NoText}
    <3> SUFFICES ASSUME req[r].alone, NEW d \in req[r].docs PROVE index'[d] = {disk'[d]} \ {NoText}
      OBVIOUS
    <3>1. req[r].good BY <1>t DEF ReqTyped
    <3>2. disk[d] = req[r].text /\ index[d] = {} BY <2>1, <3>1 DEF KnowledgeInv, Reached, Undisturbed
    <3> QED BY <2>1, <2>2, <3>2
  <2> QED BY <2>1, <2>3, <2>4, <2>5, EndKeeps
<1>3. ASSUME NEW r \in Requests, SaveFails(r) \/ ProjectFails(r) PROVE KnowledgeInv'
  <2> USE <1>3 DEF SaveFails, ProjectFails
  <2>1. req[r] # NoRequest BY Busy
  <2> QED BY <1>t, <2>1, EndKeeps DEF ReqTyped
<1>4. ASSUME NEW r \in Requests, Unlink(r) PROVE KnowledgeInv'
  <2> USE <1>4 DEF Unlink
  <2>1. req[r] # NoRequest /\ req[r] \in Record /\ req[r].docs \subseteq Documents BY Busy
  <2>2. index' \in [Documents -> SUBSET Texts] /\ disk' \in [Documents -> Texts \cup {NoText}] BY <1>t DEF ReqTyped
  <2>3. \A d \in Documents \ req[r].docs : disk'[d] = disk[d] /\ index'[d] = index[d] BY <1>t DEF ReqTyped
  <2>4. req[r].good /\ req[r].alone => \A d \in req[r].docs : index'[d] = {disk'[d]} \ {NoText}
    BY <2>1 DEF KnowledgeInv, Reached, Undisturbed
  <2>5. req[r].good \in BOOLEAN BY <2>1 DEF Record
  <2> QED BY <2>1, <2>2, <2>3, <2>4, <2>5, EndKeeps
<1>5. ASSUME NEW r \in Requests, Scroll(r) PROVE KnowledgeInv'
  <2> USE <1>5 DEF Scroll
  <2> DEFINE found == {c \in Chunks : c[1] \in ProjectsOwn /\ c[2] \in index[c[1]]}
             new == [req[r] EXCEPT !.at = "remove", !.found = found]
  <2>1. req[r] # NoRequest /\ req[r] \in Record /\ req[r].docs \subseteq Documents BY Busy
  <2>2. found \in SUBSET Chunks /\ found \subseteq ProjectsOwn \X Texts BY DEF Chunks
  <2>3. \A d \in ProjectsOwn, t \in Texts : t \in index[d] => <<d, t>> \in found BY DEF Chunks
  <2> HIDE DEF found
  <2>4. /\ new \in Record /\ new.kind = req[r].kind /\ new.docs = req[r].docs /\ new.text = req[r].text
        /\ new.alone = req[r].alone /\ new.good = req[r].good /\ new.at = "remove" /\ new.found = found
    BY <2>1, <2>2 DEF Record
  <2>5. req' = [req EXCEPT ![r] = new]
    <3>1. req' = [req EXCEPT ![r].at = "remove", ![r].found = found] BY DEF found
    <3> QED BY <1>t, <3>1 DEF ReqTyped
  <2> HIDE DEF new
  <2>6. req'[r] = new BY <1>t, <2>5 DEF ReqTyped
  <2>7. req[r].alone /\ req[r].good => Undisturbed(r)'
    <3>1. HAVE req[r].alone /\ req[r].good
    <3>2. Undisturbed(r) BY <2>1, <3>1 DEF KnowledgeInv, Reached
    <3>3. req[r].docs = ProjectsOwn BY <1>t DEF ReqTyped
    <3>4. \A d \in req[r].docs : \A t \in index'[d] : <<d, t>> \in found BY <1>t, <2>3, <3>3 DEF ReqTyped
    <3> QED BY <2>4, <2>6, <3>2, <3>4 DEF Undisturbed
  <2>8. index' \in [Documents -> SUBSET Texts] BY <1>t DEF ReqTyped
  <2> QED BY <2>1, <2>2, <2>4, <2>5, <2>7, <2>8, MoveKeeps
<1>6. ASSUME NEW r \in Requests, Remove(r) PROVE KnowledgeInv'
  <2> USE <1>6 DEF Remove
  <2>1. req[r] # NoRequest /\ req[r] \in Record /\ req[r].docs \subseteq Documents BY Busy
  <2>2. req[r].docs = ProjectsOwn BY <1>t DEF ReqTyped
  <2>3. req[r].found \subseteq ProjectsOwn \X Texts BY <1>t DEF ReqTyped
  <2>4. index' \in [Documents -> SUBSET Texts] /\ disk' \in [Documents -> Texts \cup {NoText}] BY <1>t DEF ReqTyped
  <2>5. \A d \in Documents \ req[r].docs : disk'[d] = disk[d] /\ index'[d] = index[d]
    BY <1>t, <2>2, <2>3 DEF ReqTyped
  <2>6. req[r].good /\ req[r].alone => \A d \in req[r].docs : index'[d] = {disk'[d]} \ {NoText}
    BY <2>1 DEF KnowledgeInv, Reached, Undisturbed
  <2>7. req[r].good \in BOOLEAN BY <2>1 DEF Record
  <2> QED BY <2>1, <2>4, <2>5, <2>6, <2>7, EndKeeps
<1>7. ASSUME NEW r \in Requests, NEW d \in Documents, NEW t \in Texts, Save(r, d, t) PROVE KnowledgeInv'
  <2> USE <1>7 DEF Save
  <2>1. /\ disk' \in [Documents -> Texts \cup {NoText}] /\ index' \in [Documents -> SUBSET Texts]
        /\ disk'[d] = t
        /\ \A e \in Documents \ {d} : disk'[e] = disk[e] /\ index'[e] = index[e]
    BY <1>t DEF ReqTyped
  <2>2. /\ req'[r].kind = "save" /\ req'[r].at = "drop" /\ req'[r].docs = {d} /\ req'[r].text = t
    BY DEF Arrive
  <2>3. Undisturbed(r)' BY <2>1, <2>2 DEF Undisturbed
  <2>4. Arrive(r, "save", "drop", {d}, t, TRUE) /\ UNCHANGED stale /\ {d} \in SUBSET Documents OBVIOUS
  <2> HIDE <1>7 DEF Save
  <2> QED BY <2>1, <2>3, <2>4, BeginKeeps
<1>8. ASSUME NEW r \in Requests, NEW d \in Documents, ScriptReads(r, d) PROVE KnowledgeInv'
  <2> USE <1>8 DEF ScriptReads
  <2>1. disk[d] \in Texts BY <1>t DEF ReqTyped
  <2>2. /\ req'[r].kind = "script" /\ req'[r].at = "drop" /\ req'[r].docs = {d} /\ req'[r].text = disk[d]
    BY DEF Arrive
  <2>3. Undisturbed(r)' BY <2>2 DEF Undisturbed
  <2>4. /\ Arrive(r, "script", "drop", {d}, disk[d], TRUE) /\ UNCHANGED <<stale, disk, index>>
        /\ disk' \in [Documents -> Texts \cup {NoText}] /\ index' \in [Documents -> SUBSET Texts]
        /\ {d} \in SUBSET Documents
    BY <1>t DEF ReqTyped
  <2> HIDE <1>8 DEF ScriptReads
  <2> QED BY <2>1, <2>3, <2>4, BeginKeeps
<1>9. ASSUME NEW r \in Requests, NEW d \in Documents, NEW answers \in BOOLEAN, Delete(r, d, answers)
      PROVE  KnowledgeInv'
  <2> USE <1>9 DEF Delete
  <2>1. /\ index' \in [Documents -> SUBSET Texts]
        /\ answers => index'[d] = {}
        /\ \A e \in Documents \ {d} : disk'[e] = disk[e] /\ index'[e] = index[e]
    BY <1>t DEF ReqTyped
  <2>2. req'[r].kind = "delete" /\ req'[r].at = "unlink" /\ req'[r].docs = {d} BY DEF Arrive
  <2>3. answers => Undisturbed(r)' BY <2>1, <2>2 DEF Undisturbed
  <2>4. /\ Arrive(r, "delete", "unlink", {d}, NoText, answers) /\ UNCHANGED stale
        /\ disk' \in [Documents -> Texts \cup {NoText}] /\ {d} \in SUBSET Documents
    BY <1>t DEF ReqTyped
  <2> HIDE <1>9 DEF Delete
  <2>5. CASE answers
    <3>1. Arrive(r, "delete", "unlink", {d}, NoText, TRUE) BY <2>4, <2>5 DEF Arrive
    <3> QED BY <2>1, <2>3, <2>4, <2>5, <3>1, BeginKeeps
  <2>6. CASE ~answers
    <3>1. Arrive(r, "delete", "unlink", {d}, NoText, FALSE) BY <2>4, <2>6 DEF Arrive
    <3> QED BY <2>1, <2>4, <3>1, BeginKeeps
  <2> QED BY <2>5, <2>6
<1>10. ASSUME NEW r \in Requests, NEW removed \in BOOLEAN, FolderGone(r, removed) PROVE KnowledgeInv'
  <2> USE <1>10 DEF FolderGone
  <2>1. /\ disk' \in [Documents -> Texts \cup {NoText}]
        /\ removed => \A d \in ProjectsOwn : disk'[d] = NoText
        /\ \A d \in Documents \ ProjectsOwn : disk'[d] = disk[d]
    BY <1>t DEF ReqTyped
  <2>2. req'[r].kind = "project" /\ req'[r].at = "scroll" /\ req'[r].docs = ProjectsOwn BY DEF Arrive
  <2>3. removed => Undisturbed(r)' BY <2>1, <2>2 DEF Undisturbed
  <2>4. /\ Arrive(r, "project", "scroll", ProjectsOwn, NoText, removed) /\ UNCHANGED stale
        /\ index' \in [Documents -> SUBSET Texts] /\ index' = index
    BY <1>t DEF ReqTyped
  <2> HIDE <1>10 DEF FolderGone
  <2>5. \A d \in Documents \ ProjectsOwn : disk'[d] = disk[d] /\ index'[d] = index[d] BY <2>1, <2>4
  <2>6. ProjectsOwn \in SUBSET Documents OBVIOUS
  <2>7. CASE removed
    <3>1. Arrive(r, "project", "scroll", ProjectsOwn, NoText, TRUE) BY <2>4, <2>7 DEF Arrive
    <3> QED BY <2>1, <2>3, <2>4, <2>5, <2>6, <2>7, <3>1, BeginKeeps
  <2>8. CASE ~removed
    <3>1. Arrive(r, "project", "scroll", ProjectsOwn, NoText, FALSE) BY <2>4, <2>8 DEF Arrive
    <3> QED BY <2>1, <2>4, <2>5, <2>6, <3>1, BeginKeeps
  <2> QED BY <2>7, <2>8
<1>11. ASSUME NEW d \in Documents, ScriptDeletes(d) PROVE KnowledgeInv'
  <2> USE <1>11 DEF ScriptDeletes
  <2>1. /\ index' \in [Documents -> SUBSET Texts] /\ index'[d] = {}
        /\ \A e \in Documents \ {d} : index'[e] = index[e]
    BY <1>t DEF ReqTyped
  <2>2. ReqTyped' BY <1>t, <2>1 DEF ReqTyped
  <2>3. AloneIsAlone' BY DEF KnowledgeInv, AloneIsAlone
  <2>4. Reached'
    <3> SUFFICES ASSUME NEW q \in Requests, req[q] # NoRequest, req[q].alone, req[q].good
                 PROVE  Undisturbed(q)'
      BY DEF Reached
    <3>1. Undisturbed(q) BY DEF KnowledgeInv, Reached
    <3>2. req[q].docs \subseteq Documents BY <1>t DEF ReqTyped, Record, NoRequest
    <3>3. \A e \in req[q].docs : index'[e] = index[e] \/ index'[e] = {} BY <2>1, <3>2
    <3> QED BY <3>1, <3>3 DEF Undisturbed
  <2>5. IndexIsDisk' BY <2>1 DEF KnowledgeInv, IndexIsDisk
  <2> QED BY <2>2, <2>3, <2>4, <2>5 DEF KnowledgeInv
<1>12. CASE Restart
  <2> DEFINE lost == {r \in Requests : req[r].kind \in {"save", "delete", "project"}}
  <2>1. /\ \A r \in Requests : req'[r] = IF r \in lost THEN NoRequest ELSE req[r]
        /\ req' = [r \in Requests |-> IF r \in lost THEN NoRequest ELSE req[r]]
        /\ stale' = stale \cup UNION {req[r].docs : r \in lost}
        /\ UNCHANGED <<disk, index>>
    BY <1>12 DEF Restart
  <2>2. \A r \in lost : req[r].docs \subseteq Documents BY Busy
  <2>3. \A d : d \in stale' <=> (d \in stale \/ \E r \in lost : d \in req[r].docs) BY <2>1
  <2> HIDE DEF lost
  <2>4. lost \subseteq Requests BY DEF lost
  <2>5. ReqTyped'
    <3>1. req' \in [Requests -> Record \cup {NoRequest}] BY <1>t, <2>1 DEF ReqTyped
    <3>2. stale' \subseteq Documents BY <1>t, <2>2, <2>3 DEF ReqTyped
    <3>3. \A r \in Requests : req'[r].kind # "none" => req'[r] = req[r] BY <2>1 DEF NoRequest
    <3> QED BY <1>t, <2>1, <3>1, <3>2, <3>3 DEF ReqTyped
  <2>6. AloneIsAlone' BY <2>1 DEF KnowledgeInv, AloneIsAlone, NoRequest
  <2>7. Reached' BY <2>1 DEF KnowledgeInv, Reached, Undisturbed
  <2>8. IndexIsDisk'
    <3> SUFFICES ASSUME NEW d \in Documents \ stale', \A q \in Requests : d \notin req'[q].docs
                 PROVE  index[d] = {disk[d]} \ {NoText}
      BY <2>1 DEF IndexIsDisk
    <3>1. d \notin stale /\ \A q \in lost : d \notin req[q].docs BY <2>3
    <3>2. \A q \in Requests : d \notin req[q].docs BY <2>1, <3>1
    <3> QED BY <3>1, <3>2 DEF KnowledgeInv, IndexIsDisk
  <2> QED BY <2>5, <2>6, <2>7, <2>8 DEF KnowledgeInv
<1>13. CASE UNCHANGED knowledgeVars
  BY <1>13 DEF knowledgeVars, KnowledgeInv, ReqTyped, AloneIsAlone, Reached, Undisturbed, IndexIsDisk
<1> QED
  BY <1>1, <1>2, <1>3, <1>4, <1>5, <1>6, <1>7, <1>8, <1>9, <1>10, <1>11, <1>12, <1>13 DEF KnowledgeNext

\* Whatever requests overlap, fail or are cut off, the index follows the disk where
\* none has: for any number of documents, of texts and of requests at once.
THEOREM IndexFollowsDisk ==
  ASSUME ProjectsOwn \subseteq Documents, NoText \notin Texts
  PROVE  KnowledgeSpec => []IndexIsDisk
<1>1. KnowledgeInit => KnowledgeInv BY KnowledgeInitial
<1>2. KnowledgeInv /\ [KnowledgeNext]_knowledgeVars => KnowledgeInv' BY KnowledgeStep
<1>3. KnowledgeInv => IndexIsDisk BY DEF KnowledgeInv
<1> QED BY <1>1, <1>2, <1>3, PTL DEF KnowledgeSpec

-----------------------------------------------------------------------------
(* Terminals *)

TerminalTyped ==
  /\ rows \in [Sessions -> {"none", "active", "ended"}] /\ live \in [Sessions -> Nat]
  /\ registered \subseteq Sessions

\* A row without a runtime survived a restart, and only an attach gives it another.
RowsAreKnown ==
  \A s \in Sessions :
    /\ rows[s] = "active" /\ s \notin registered => s \in outlived
    /\ s \in debug \cup registered => rows[s] # "none"

TerminalInv == TerminalTyped /\ RowsAreKnown /\ OneWriter

LEMMA TerminalInitial == TerminalInit => TerminalInv
BY DEF TerminalInit, TerminalInv, TerminalTyped, RowsAreKnown, OneWriter

\* A clean-up leaves no process behind: its session is the only one it touches.
LEMMA CleanupKeeps ==
  ASSUME TerminalInv, NEW s \in Sessions, Cleanup(s), live' \in [Sessions -> Nat], live'[s] = 0,
         \A t \in Sessions \ {s} : live'[t] = live[t]
  PROVE  TerminalInv'
<1> USE DEF TerminalInv, Cleanup
<1>1. TerminalTyped' BY DEF TerminalTyped
<1>2. RowsAreKnown' BY DEF TerminalTyped, RowsAreKnown
<1>3. OneWriter' BY DEF TerminalTyped, OneWriter
<1> QED BY <1>1, <1>2, <1>3

\* A spawn over a row that is new, or over one that survived a restart.
LEMMA SpawnKeeps ==
  ASSUME TerminalInv, NEW s \in Sessions, Spawned(s), s \notin registered,
         rows' = [rows EXCEPT ![s] = "active"], UNCHANGED outlived,
         debug' = debug \/ debug' = debug \cup {s},
         turn /\ s \in debug' => s \in outlived
  PROVE  TerminalInv'
<1> USE DEF TerminalInv, Spawned
<1>1. live[s] = 0 BY DEF TerminalTyped, OneWriter
<1>2. TerminalTyped' BY DEF TerminalTyped
<1>3. RowsAreKnown' BY DEF TerminalTyped, RowsAreKnown
<1>4. OneWriter'
  <2> SUFFICES ASSUME NEW t \in Sessions
               PROVE  /\ live'[t] <= 1
                      /\ live'[t] = 1 => t \in registered' /\ rows'[t] = "active"
                      /\ t \in midturn' => t \in outlived'
    BY DEF OneWriter
  <2>1. CASE t = s BY <1>1, <2>1 DEF TerminalTyped, OneWriter
  <2>2. CASE t # s BY <2>2 DEF TerminalTyped, OneWriter
  <2> QED BY <2>1, <2>2
<1> QED BY <1>2, <1>3, <1>4

LEMMA TerminalActs == TerminalInv /\ [TerminalNext]_terminalVars => TerminalInv'
<1> SUFFICES ASSUME TerminalInv, [TerminalNext]_terminalVars PROVE TerminalInv' OBVIOUS
<1>t. TerminalTyped /\ RowsAreKnown /\ OneWriter BY DEF TerminalInv
<1>1. ASSUME NEW s \in Sessions, spawn(s) PROVE TerminalInv'
  BY <1>1, <1>t, SpawnKeeps DEF spawn, RowsAreKnown
<1>2. ASSUME NEW s \in Sessions, DebugAttach(s) PROVE TerminalInv'
  BY <1>2, <1>t, SpawnKeeps DEF DebugAttach, RowsAreKnown
<1>3. ASSUME NEW v \in Viewers, NEW s \in Sessions, attach(v, s) PROVE TerminalInv'
  <2> USE <1>3 DEF attach, Respawn
  <2>1. CASE s \in registered
    BY <1>t, <2>1 DEF TerminalInv, TerminalTyped, RowsAreKnown, OneWriter
  <2>2. CASE s \notin registered
    <3>1. rows' = [rows EXCEPT ![s] = "active"] BY <1>t, <2>2 DEF TerminalTyped
    <3> QED BY <1>t, <2>2, <3>1, SpawnKeeps DEF RowsAreKnown
  <2> QED BY <2>1, <2>2
<1>4. ASSUME NEW s \in Sessions, end_session(s) PROVE TerminalInv'
  BY <1>4, <1>t DEF end_session, TerminalInv, TerminalTyped, RowsAreKnown, OneWriter
<1>5. ASSUME NEW s \in Sessions, ProcessDies(s) PROVE TerminalInv'
  BY <1>5, <1>t DEF ProcessDies, TerminalInv, TerminalTyped, RowsAreKnown, OneWriter
<1>6. ASSUME NEW s \in Sessions, Ended(s) PROVE TerminalInv'
  BY <1>6, <1>t, CleanupKeeps DEF Ended, TerminalTyped, OneWriter
<1>7. ASSUME NEW s \in Sessions, EndOfFile(s) PROVE TerminalInv'
  BY <1>7, <1>t, CleanupKeeps DEF EndOfFile, TerminalTyped
<1>8. CASE TerminalRestart
  BY <1>8, <1>t DEF TerminalRestart, TerminalInv, TerminalTyped, RowsAreKnown, OneWriter
<1>9. CASE UNCHANGED procv
  BY <1>9, <1>t DEF procv, TerminalInv, TerminalTyped, RowsAreKnown, OneWriter
<1>10. /\ \A s \in Sessions : Chunk(s) => UNCHANGED procv
       /\ \A v \in Viewers : Take(v) \/ Leave(v) => UNCHANGED procv
       /\ EngineTurn => UNCHANGED procv
       /\ UNCHANGED terminalVars => UNCHANGED procv
  BY DEF Chunk, Take, Leave, EngineTurn, terminalVars
<1> QED
  BY <1>1, <1>2, <1>3, <1>4, <1>5, <1>6, <1>7, <1>8, <1>9, <1>10 DEF TerminalNext, TerminalStep

\* One process at most serves a session row, for any number of rows and of viewers
\* that attach again.
THEOREM TerminalHasOneWriter == TerminalSpec => []OneWriter
<1>1. TerminalInit => TerminalInv BY TerminalInitial
<1>2. TerminalInv /\ [TerminalNext]_terminalVars => TerminalInv' BY TerminalActs
<1>3. TerminalInv => OneWriter BY DEF TerminalInv
<1> QED BY <1>1, <1>2, <1>3, PTL DEF TerminalSpec

\* A viewer's queue holds at most what it has room for, and the sentinel ends the
\* queue of a session that has no process any more and gets none.
Watching == [on : Sessions, seen : Nat, queue : Seq(Nat)]
Closed(q) == q # <<>> /\ q[Len(q)] = Sentinel
WatchTyped ==
  /\ viewers \in [Viewers -> Watching \cup {NoSession}] /\ output \in [Sessions -> Nat]
Watched(w) ==
  /\ w.on \in registered \/ rows[w.on] = "ended"
  /\ Closed(w.queue) => w.on \notin registered
  /\ Len(w.queue) <= QueueSize
  /\ Current(w.queue, w.seen, output[w.on])
WatchInv ==
  /\ WatchTyped
  /\ \A s \in registered : rows[s] = "active"
  /\ \A v \in Viewers : viewers[v] # NoSession => Watched(viewers[v])

\* A chunk that is put keeps a queue in order, and becomes its latest.
LEMMA PutKeepsOrder ==
  ASSUME NEW q \in Seq(Nat), NEW seen \in Nat, NEW latest \in Nat,
         Len(q) <= QueueSize, ~Closed(q), Current(q, seen, latest)
  PROVE  /\ Put(q, latest + 1) \in Seq(Nat)
         /\ Len(Put(q, latest + 1)) <= QueueSize
         /\ ~Closed(Put(q, latest + 1))
         /\ Current(Put(q, latest + 1), seen, latest + 1)
<1> USE QueueAssumption DEF QueueAssumption
<1> DEFINE r == IF Len(q) = QueueSize THEN Tail(q) ELSE q
<1>1. ChunksOf(q) = Len(q) BY DEF Closed, ChunksOf
<1>2. \A i \in 1..Len(q) : q[i] > (IF i = 1 THEN seen ELSE q[i - 1]) BY <1>1 DEF Current
<1>3. latest = IF Len(q) = 0 THEN seen ELSE q[Len(q)] BY <1>1 DEF Current
<1>4. /\ r \in Seq(Nat) /\ Len(r) <= QueueSize - 1
      /\ \A i \in 1..Len(r) : r[i] > (IF i = 1 THEN seen ELSE r[i - 1])
      /\ IF Len(r) = 0 THEN latest >= seen ELSE r[Len(r)] = latest
  <2>1. CASE Len(q) = QueueSize
    <3>1. q # <<>> /\ Len(q) >= 1 BY <2>1
    <3>2. r = Tail(q) BY <2>1
    <3> HIDE DEF r
    <3>3. /\ r \in Seq(Nat) /\ Len(q) \in Nat /\ Len(r) \in Nat /\ Len(r) = Len(q) - 1
          /\ \A i \in 1..Len(r) : r[i] = q[i + 1]
      BY <3>1, <3>2
    <3>4. ASSUME NEW i \in 1..Len(r) PROVE r[i] > (IF i = 1 THEN seen ELSE r[i - 1])
      <4>1. i \in 1..Len(q) /\ i + 1 \in 1..Len(q) /\ i \in Int /\ (i + 1) - 1 = i BY <3>3
      <4>2. q[i + 1] > q[i] /\ q[i] \in Nat /\ q[i + 1] \in Nat BY <1>2, <4>1
      <4>3. CASE i = 1
        <5>1. q[1] > seen /\ r[1] = q[2] BY <1>2, <3>3, <4>1, <4>3
        <5> QED BY <4>2, <4>3, <5>1
      <4>4. CASE i # 1
        <5>1. i - 1 \in 1..Len(r) BY <4>1, <4>4, <3>3
        <5>2. r[i - 1] = q[(i - 1) + 1] /\ (i - 1) + 1 = i /\ r[i] = q[i + 1] BY <3>3, <4>1, <5>1
        <5> QED BY <4>2, <4>4, <5>2
      <4> QED BY <4>1, <4>3, <4>4
    <3>5. Len(r) = 0 => latest >= seen
      <4>1. Len(r) = 0 => Len(q) = 1 BY <3>3
      <4>2. 1 \in 1..Len(q) BY <3>3, <3>1
      <4>3. q[1] > seen /\ q[1] \in Nat BY <1>2, <4>2
      <4>4. ASSUME Len(q) = 1 PROVE latest = q[1] BY <4>4, <1>3
      <4> QED BY <4>1, <4>3, <4>4
    <3>6. Len(r) # 0 => r[Len(r)] = latest
      <4>1. ASSUME Len(r) # 0 PROVE r[Len(r)] = q[Len(q)]
        <5>1. Len(r) \in 1..Len(r) /\ Len(r) + 1 = Len(q) BY <4>1, <3>3
        <5> QED BY <5>1, <3>3
      <4> QED BY <4>1, <3>1, <1>3
    <3> QED BY <2>1, <3>3, <3>4, <3>5, <3>6
  <2>2. CASE Len(q) # QueueSize
    <3>1. r = q /\ Len(q) <= QueueSize - 1 BY <2>2
    <3> QED BY <1>2, <1>3, <3>1
  <2> QED BY <2>1, <2>2
<1> DEFINE p == Append(r, latest + 1)
<1>5. Put(q, latest + 1) = p BY DEF Put
<1> HIDE DEF r
<1>6. p \in Seq(Nat) /\ Len(p) = Len(r) + 1 /\ p[Len(r) + 1] = latest + 1 /\ \A i \in 1..Len(r) : p[i] = r[i]
  BY <1>4
<1>7. ~Closed(p) /\ ChunksOf(p) = Len(p) /\ Len(p) <= QueueSize
  BY <1>4, <1>6 DEF Closed, ChunksOf, Sentinel
<1>8. ASSUME NEW i \in 1..Len(p) PROVE p[i] > (IF i = 1 THEN seen ELSE p[i - 1])
  <2> HIDE DEF p
  <2>1. CASE i \in 1..Len(r)
    <3>1. i # 1 => i - 1 \in 1..Len(r) BY <2>1, <1>4
    <3> QED BY <2>1, <3>1, <1>4, <1>6
  <2>2. CASE i = Len(r) + 1
    <3>1. ASSUME i # 1 PROVE i - 1 \in 1..Len(r) /\ p[i - 1] = latest
      <4>1. i - 1 = Len(r) /\ Len(r) # 0 /\ Len(r) \in 1..Len(r) BY <2>2, <3>1, <1>4
      <4> QED BY <4>1, <1>4, <1>6
    <3>2. p[i] = latest + 1 BY <2>2, <1>6
    <3>3. i = 1 => latest >= seen BY <2>2, <1>4
    <3> QED BY <3>1, <3>2, <3>3
  <2> QED BY <2>1, <2>2, <1>6
<1>9. Current(p, seen, latest + 1) BY <1>6, <1>7, <1>8, <1>4 DEF Current
<1> QED BY <1>5, <1>6, <1>7, <1>9

\* The sentinel closes a queue that is open and has room; its chunks are the same.
LEMMA SentinelKeepsOrder ==
  ASSUME NEW q \in Seq(Nat), NEW seen, NEW latest,
         Len(q) < QueueSize, ~Closed(q), Current(q, seen, latest)
  PROVE  /\ Append(q, Sentinel) \in Seq(Nat)
         /\ Len(Append(q, Sentinel)) <= QueueSize
         /\ Current(Append(q, Sentinel), seen, latest)
<1> USE QueueAssumption DEF QueueAssumption
<1> DEFINE p == Append(q, Sentinel)
<1>1. p \in Seq(Nat) /\ Len(p) = Len(q) + 1 /\ p[Len(p)] = Sentinel /\ \A i \in 1..Len(q) : p[i] = q[i]
  BY DEF Sentinel
<1>2. p # <<>> BY <1>1
<1>3. ChunksOf(q) = Len(q) /\ ChunksOf(p) = Len(q) BY <1>1, <1>2 DEF Closed, ChunksOf
<1> HIDE DEF p
<1>4. \A i \in 1..Len(q) : i # 1 => i - 1 \in 1..Len(q) OBVIOUS
<1>5. Len(q) # 0 => Len(q) \in 1..Len(q) OBVIOUS
<1>6. Current(p, seen, latest) BY <1>1, <1>3, <1>4, <1>5 DEF Current
<1>7. Len(p) <= QueueSize BY <1>1
<1> QED BY <1>1, <1>6, <1>7 DEF p

\* What a viewer takes is the next chunk, and what is left is in order after it.
LEMMA TakeKeepsOrder ==
  ASSUME NEW q \in Seq(Nat), NEW seen \in Nat, NEW latest \in Nat,
         q # <<>>, Head(q) # Sentinel, Current(q, seen, latest)
  PROVE  /\ Tail(q) \in Seq(Nat) /\ Head(q) \in Nat /\ Len(Tail(q)) < Len(q)
         /\ Closed(Tail(q)) => Closed(q)
         /\ Current(Tail(q), Head(q), latest)
<1> DEFINE p == Tail(q)
<1>1. /\ p \in Seq(Nat) /\ Len(p) \in Nat /\ Len(q) \in Nat /\ Len(p) = Len(q) - 1 /\ \A i \in 1..Len(p) : p[i] = q[i + 1]
      /\ Head(q) = q[1] /\ q[1] \in Nat /\ Len(q) >= 1
  OBVIOUS
<1> HIDE DEF p
<1>2. Closed(p) => Closed(q) BY <1>1 DEF Closed
<1>3. /\ ChunksOf(q) \in 1..Len(q) /\ ChunksOf(q) \in Nat
      /\ ChunksOf(p) \in 0..Len(p) /\ ChunksOf(p) = ChunksOf(q) - 1
  <2>1. CASE Len(q) = 1
    <3>1. q[Len(q)] # Sentinel /\ Len(p) = 0 BY <2>1, <1>1
    <3>2. p = <<>> BY <1>1, <3>1
    <3> QED BY <2>1, <3>1, <3>2 DEF ChunksOf
  <2>2. CASE Len(q) > 1
    <3>1. Len(p) \in 1..Len(p) /\ p # <<>> /\ p[Len(p)] = q[Len(q)] BY <2>2, <1>1
    <3> QED BY <2>2, <3>1, <1>1 DEF ChunksOf
  <2> QED BY <2>1, <2>2, <1>1
<1>4. ASSUME NEW i \in 1..ChunksOf(p) PROVE p[i] > (IF i = 1 THEN Head(q) ELSE p[i - 1])
  <2>0. /\ ChunksOf(p) \in Nat /\ ChunksOf(q) \in Nat /\ Len(p) \in Nat /\ i \in Nat
        /\ ChunksOf(p) <= Len(p) /\ ChunksOf(p) = ChunksOf(q) - 1 /\ 1 <= i /\ i <= ChunksOf(p)
    BY <1>1, <1>3
  <2>1. i \in 1..Len(p) /\ i + 1 \in 1..ChunksOf(q) /\ i + 1 # 1 /\ (i + 1) - 1 = i BY <2>0
  <2>2. q[i + 1] > q[i] BY <2>1 DEF Current
  <2>3. p[i] = q[i + 1] BY <2>1, <1>1
  <2>4. ASSUME i # 1 PROVE p[i - 1] = q[i]
    <3>1. i - 1 \in 1..Len(p) /\ (i - 1) + 1 = i BY <1>1, <2>0, <2>1, <2>4
    <3> QED BY <3>1, <1>1
  <2> QED BY <2>1, <2>2, <2>3, <2>4, <1>1
<1>5. latest = IF ChunksOf(p) = 0 THEN Head(q) ELSE p[ChunksOf(p)]
  <2>1. latest = q[ChunksOf(q)] BY <1>3 DEF Current
  <2>2. ASSUME ChunksOf(p) # 0 PROVE p[ChunksOf(p)] = q[ChunksOf(q)]
    <3>1. ChunksOf(p) \in 1..Len(p) /\ ChunksOf(p) + 1 = ChunksOf(q) BY <1>3, <2>2
    <3> QED BY <3>1, <1>1
  <2>3. ChunksOf(p) = 0 => ChunksOf(q) = 1 BY <1>3
  <2> QED BY <2>1, <2>2, <2>3, <1>1
<1>6. Current(p, Head(q), latest) BY <1>4, <1>5 DEF Current
<1> QED BY <1>1, <1>2, <1>6 DEF p

LEMMA WatchInitial == TerminalInit => WatchInv
BY DEF TerminalInit, WatchInv, WatchTyped

\* A watched session has a process to come, and its queue is open, or it ended.
LEMMA WatchedSession ==
  ASSUME TerminalInv, WatchInv, NEW v \in Viewers, viewers[v] # NoSession
  PROVE  /\ viewers[v] \in Watching /\ viewers[v].on \in Sessions /\ output[viewers[v].on] \in Nat
         /\ viewers[v].on \in registered => rows[viewers[v].on] = "active" /\ ~Closed(viewers[v].queue)
         /\ viewers[v].on \notin registered => rows[viewers[v].on] = "ended"
BY DEF WatchInv, WatchTyped, Watched, Watching, TerminalInv, TerminalTyped

\* Rows and runtimes may change under a viewer as long as its session stays ended,
\* or stays registered.
LEMMA WatchStays ==
  ASSUME TerminalInv, WatchInv, UNCHANGED <<viewers, output>>,
         \A s \in registered' : rows'[s] = "active",
         \A s \in Sessions : rows[s] = "ended" => rows'[s] = "ended" /\ s \notin registered',
         \A s \in registered : s \in registered'
  PROVE  WatchInv'
<1>1. WatchTyped' BY DEF WatchInv, WatchTyped
<1>2. ASSUME NEW v \in Viewers, viewers'[v] # NoSession PROVE Watched(viewers[v])'
  <2>1. viewers[v] # NoSession /\ Watched(viewers[v]) BY <1>2 DEF WatchInv
  <2> QED BY <1>2, <2>1, WatchedSession DEF Watched
<1> QED BY <1>1, <1>2 DEF WatchInv

LEMMA ChunkWatches ==
  ASSUME TerminalInv, WatchInv, NEW s \in Sessions, Chunk(s)
  PROVE  WatchInv'
<1> USE DEF Chunk
<1>1. s \in registered /\ output[s] \in Nat BY DEF TerminalInv, TerminalTyped, OneWriter, WatchInv, WatchTyped
<1>2. \A t \in Sessions : output'[t] = IF t = s THEN output[s] + 1 ELSE output[t] BY DEF WatchInv, WatchTyped
<1>3. ASSUME NEW v \in Viewers, viewers'[v] # NoSession
      PROVE  viewers'[v] \in Watching /\ Watched(viewers[v])'
  <2> DEFINE w == viewers[v]
             z == viewers'[v]
  <2>1. CASE v \in Attached(s)
    <3>1. w # NoSession /\ w.on = s /\ w \in Watching /\ Watched(w) BY <2>1, WatchedSession DEF Attached, WatchInv
    <3>2. z = [w EXCEPT !.queue = Put(w.queue, output[s] + 1)] BY <2>1
    <3>3. ~Closed(w.queue) BY <3>1, <1>1, WatchedSession
    <3>4. /\ Put(w.queue, output[s] + 1) \in Seq(Nat)
          /\ Len(Put(w.queue, output[s] + 1)) <= QueueSize
          /\ ~Closed(Put(w.queue, output[s] + 1))
          /\ Current(Put(w.queue, output[s] + 1), w.seen, output[s] + 1)
      BY <3>1, <3>3, <1>1, PutKeepsOrder DEF Watching, Watched
    <3>5. z \in Watching /\ z.on = s /\ z.seen = w.seen /\ z.queue = Put(w.queue, output[s] + 1)
      BY <3>1, <3>2, <3>4 DEF Watching
    <3>6. registered' = registered /\ output'[s] = output[s] + 1 BY <1>2 DEF procv
    <3> HIDE DEF z
    <3>7. /\ z.on \in registered' \/ rows'[z.on] = "ended"
          /\ Closed(z.queue) => z.on \notin registered'
          /\ Len(z.queue) <= QueueSize
          /\ Current(z.queue, z.seen, output'[z.on])
      BY <1>1, <3>4, <3>5, <3>6
    <3> QED BY <3>5, <3>7 DEF z, Watched
  <2>2. CASE v \notin Attached(s)
    <3>1. z = w /\ w # NoSession /\ w \in Watching /\ Watched(w) /\ w.on # s /\ w.on \in Sessions
      BY <1>3, <2>2, WatchedSession DEF Attached, WatchInv
    <3>2. registered' = registered /\ rows' = rows /\ output'[w.on] = output[w.on] BY <3>1, <1>2 DEF procv
    <3> HIDE DEF z, w
    <3>3. /\ z.on \in registered' \/ rows'[z.on] = "ended"
          /\ Closed(z.queue) => z.on \notin registered'
          /\ Len(z.queue) <= QueueSize
          /\ Current(z.queue, z.seen, output'[z.on])
      BY <3>1, <3>2 DEF Watched
    <3> QED BY <3>1, <3>3 DEF z, Watched
  <2> QED BY <2>1, <2>2
<1>4. WatchTyped'
  <2>1. output' \in [Sessions -> Nat] BY <1>1, <1>2 DEF WatchInv, WatchTyped
  <2>2. viewers' \in [Viewers -> Watching \cup {NoSession}] BY <1>3
  <2> QED BY <2>1, <2>2 DEF WatchTyped
<1> QED BY <1>3, <1>4 DEF WatchInv, procv

LEMMA CleanupWatches ==
  ASSUME TerminalInv, WatchInv, NEW s \in Sessions, Cleanup(s)
  PROVE  WatchInv'
<1> USE DEF Cleanup
<1>1. /\ output' = output /\ registered' = registered \ {s} /\ rows'[s] = "ended"
      /\ \A t \in Sessions \ {s} : rows'[t] = rows[t]
  BY DEF TerminalInv, TerminalTyped
<1>2. ASSUME NEW v \in Viewers, viewers'[v] # NoSession
      PROVE  viewers'[v] \in Watching /\ Watched(viewers[v])'
  <2> DEFINE w == viewers[v]
             z == viewers'[v]
  <2>1. CASE z = w
    <3>1. w # NoSession /\ w \in Watching /\ Watched(w) /\ w.on \in Sessions
      BY <1>2, <2>1, WatchedSession DEF WatchInv
    <3>2. /\ w.on \in registered' \/ rows'[w.on] = "ended"
          /\ Closed(w.queue) => w.on \notin registered'
      BY <1>1, <3>1 DEF Watched
    <3> QED BY <1>1, <2>1, <3>1, <3>2 DEF Watched
  <2>2. CASE z # w
    <3>1. /\ s \in registered /\ v \in Attached(s) /\ Len(w.queue) < QueueSize
          /\ z = [w EXCEPT !.queue = Append(w.queue, Sentinel)]
      BY <2>2 DEF SentinelSent
    <3>2. w # NoSession /\ w.on = s /\ w \in Watching /\ Watched(w) /\ ~Closed(w.queue)
      BY <3>1, WatchedSession DEF Attached, WatchInv
    <3>3. /\ Append(w.queue, Sentinel) \in Seq(Nat)
          /\ Len(Append(w.queue, Sentinel)) <= QueueSize
          /\ Current(Append(w.queue, Sentinel), w.seen, output[s])
      BY <3>1, <3>2, SentinelKeepsOrder DEF Watching, Watched
    <3>4. z \in Watching /\ z.on = s /\ z.seen = w.seen /\ z.queue = Append(w.queue, Sentinel)
      BY <3>1, <3>2, <3>3 DEF Watching
    <3> HIDE DEF z
    <3>5. /\ z.on \in registered' \/ rows'[z.on] = "ended"
          /\ Closed(z.queue) => z.on \notin registered'
          /\ Len(z.queue) <= QueueSize
          /\ Current(z.queue, z.seen, output'[z.on])
      BY <1>1, <3>3, <3>4
    <3> QED BY <3>4, <3>5 DEF z, Watched
  <2> QED BY <2>1, <2>2
<1>3. WatchTyped'
  <2>1. DOMAIN viewers' = Viewers /\ viewers' = [v \in Viewers |-> viewers'[v]]
    BY DEF WatchInv, WatchTyped, SentinelSent
  <2> QED BY <1>1, <1>2, <2>1 DEF WatchInv, WatchTyped
<1> QED BY <1>1, <1>2, <1>3 DEF WatchInv, TerminalInv, TerminalTyped

LEMMA TakeWatches ==
  ASSUME TerminalInv, WatchInv, NEW v \in Viewers, Take(v) \/ Leave(v)
  PROVE  WatchInv'
<1>1. UNCHANGED <<rows, registered, output>> BY DEF Take, Leave, procv
<1> DEFINE w == viewers[v]
           taken == [w EXCEPT !.seen = Head(w.queue), !.queue = Tail(w.queue)]
<1>2. w # NoSession /\ w \in Watching /\ Watched(w) /\ output[w.on] \in Nat
  BY WatchedSession DEF Take, Leave, WatchInv
<1>3. \/ viewers' = [viewers EXCEPT ![v] = NoSession]
      \/ w.queue # <<>> /\ Head(w.queue) # Sentinel /\ viewers' = [viewers EXCEPT ![v] = taken]
  BY DEF Take, Leave
<1>4. ASSUME w.queue # <<>>, Head(w.queue) # Sentinel
      PROVE  taken \in Watching /\ Watched(taken)
  <2>1. w.queue \in Seq(Nat) /\ w.seen \in Nat /\ Current(w.queue, w.seen, output[w.on]) BY <1>2 DEF Watching, Watched
  <2>2. /\ Tail(w.queue) \in Seq(Nat) /\ Head(w.queue) \in Nat /\ Len(Tail(w.queue)) < Len(w.queue)
        /\ Closed(Tail(w.queue)) => Closed(w.queue)
        /\ Current(Tail(w.queue), Head(w.queue), output[w.on])
    BY <1>2, <1>4, <2>1, TakeKeepsOrder
  <2>3. taken \in Watching /\ taken.on = w.on /\ taken.seen = Head(w.queue) /\ taken.queue = Tail(w.queue)
    BY <1>2, <2>2 DEF Watching
  <2>4. Len(w.queue) \in Nat /\ Len(Tail(w.queue)) \in Nat BY <2>1, <2>2
  <2>5. Len(taken.queue) <= QueueSize
    BY <1>2, <2>2, <2>3, <2>4, QueueAssumption DEF Watched, QueueAssumption
  <2> HIDE DEF taken
  <2> QED BY <1>2, <2>2, <2>3, <2>5 DEF Watched
<1> HIDE DEF taken
<1>5. ASSUME NEW u \in Viewers, viewers'[u] # NoSession
      PROVE  viewers'[u] \in Watching /\ Watched(viewers'[u])
  <2>1. CASE u = v BY <1>3, <1>4, <1>5, <2>1 DEF WatchInv, WatchTyped
  <2>2. CASE u # v
    <3>1. viewers'[u] = viewers[u] BY <1>3, <2>2 DEF WatchInv, WatchTyped
    <3> QED BY <3>1, <1>5 DEF WatchInv, WatchTyped
  <2> QED BY <2>1, <2>2
<1>6. viewers' \in [Viewers -> Watching \cup {NoSession}]
  BY <1>3, <1>4 DEF WatchInv, WatchTyped
<1> QED BY <1>1, <1>5, <1>6 DEF WatchInv, WatchTyped, Watched

LEMMA AttachWatches ==
  ASSUME TerminalInv, WatchInv, NEW v \in Viewers, NEW s \in Sessions, attach(v, s)
  PROVE  WatchInv'
<1>1. /\ rows' = rows /\ output' = output /\ registered' = registered \cup {s} /\ rows[s] = "active"
  BY DEF attach, Respawn, Spawned, WatchInv
<1> DEFINE z == [on |-> s, seen |-> output[s], queue |-> <<>>]
<1>2. viewers' = [viewers EXCEPT ![v] = z] BY DEF attach
<1>3. z \in Watching /\ z.on = s /\ z.seen = output[s] /\ z.queue = <<>>
  BY DEF WatchInv, WatchTyped, Watching
<1> HIDE DEF z
<1>4. Current(<<>>, output[s], output[s]) /\ ~Closed(<<>>) /\ Len(<<>>) <= QueueSize
  BY QueueAssumption DEF QueueAssumption, Current, ChunksOf, Closed
<1>5. ASSUME NEW u \in Viewers, viewers'[u] # NoSession PROVE Watched(viewers[u])'
  <2>1. CASE u = v
    <3>1. viewers'[u] = z BY <1>2, <2>1 DEF WatchInv, WatchTyped
    <3> QED BY <1>1, <1>3, <1>4, <3>1 DEF Watched
  <2>2. CASE u # v
    <3>1. viewers'[u] = viewers[u] /\ viewers[u] # NoSession BY <1>2, <2>2, <1>5 DEF WatchInv, WatchTyped
    <3>2. Watched(viewers[u]) BY <3>1 DEF WatchInv
    <3>3. viewers[u].on \notin registered => viewers[u].on # s BY <3>1, <1>1, WatchedSession
    <3> QED BY <1>1, <3>1, <3>2, <3>3 DEF Watched
  <2> QED BY <2>1, <2>2
<1>6. WatchTyped' BY <1>1, <1>2, <1>3 DEF WatchInv, WatchTyped
<1>7. \A t \in registered' : rows'[t] = "active" BY <1>1 DEF WatchInv
<1> QED BY <1>5, <1>6, <1>7 DEF WatchInv

LEMMA WatchActs == TerminalInv /\ WatchInv /\ [TerminalNext]_terminalVars => WatchInv'
<1> SUFFICES ASSUME TerminalInv, WatchInv, [TerminalNext]_terminalVars PROVE WatchInv' OBVIOUS
<1>t. TerminalTyped /\ \A s \in registered : rows[s] = "active" BY DEF TerminalInv, WatchInv
<1>1. ASSUME NEW s \in Sessions, spawn(s) \/ DebugAttach(s) PROVE WatchInv'
  BY <1>1, <1>t, WatchStays DEF spawn, DebugAttach, Spawned, viewv, TerminalTyped
<1>2. ASSUME NEW s \in Sessions, end_session(s) PROVE WatchInv'
  BY <1>2, <1>t, WatchStays DEF end_session, viewv, TerminalTyped
<1>3. ASSUME NEW s \in Sessions, Ended(s) \/ EndOfFile(s) PROVE WatchInv'
  BY <1>3, CleanupWatches DEF Ended, EndOfFile
<1>4. CASE UNCHANGED <<rows, registered, viewers, output>>
  BY <1>4, <1>t, WatchStays DEF TerminalTyped
<1>5. /\ \A s \in Sessions : ProcessDies(s) => UNCHANGED <<rows, registered, viewers, output>>
      /\ EngineTurn \/ UNCHANGED terminalVars => UNCHANGED <<rows, registered, viewers, output>>
  BY DEF ProcessDies, EngineTurn, procv, viewv, terminalVars
<1>6. CASE TerminalRestart
  <2>1. registered' = {} /\ output' = output /\ viewers' = [v \in Viewers |-> NoSession] BY <1>6 DEF TerminalRestart
  <2> QED BY <2>1 DEF WatchInv, WatchTyped
<1> QED
  BY <1>1, <1>2, <1>3, <1>4, <1>5, <1>6, ChunkWatches, TakeWatches, AttachWatches DEF TerminalNext, TerminalStep

\* However slow a viewer, it reads the output in order and once, up to the latest
\* chunk, and nothing follows the sentinel that ends its stream: for any number of
\* sessions and viewers, any capacity of a queue and any amount of output.
THEOREM ViewersStayCurrent == TerminalSpec => []ViewerIsCurrent
<1>1. TerminalInit => TerminalInv /\ WatchInv BY TerminalInitial, WatchInitial
<1>2. TerminalInv /\ WatchInv /\ [TerminalNext]_terminalVars => TerminalInv' /\ WatchInv'
  BY TerminalActs, WatchActs
<1>3. WatchInv => ViewerIsCurrent BY DEF WatchInv, Watched, ViewerIsCurrent
<1> QED BY <1>1, <1>2, <1>3, PTL DEF TerminalSpec

-----------------------------------------------------------------------------
(* Customers and their secrets *)

CustomerRow == [slug : Slugs, file : Slugs \cup {NoFile}, accepted : Passwords \cup {NoFile}]
Errand ==
  [at : {"write", "commit", "unlink", "gone"}, id : Ids, into : {"new row", "new file", "own file"},
   file : Slugs, secret : Passwords \cup {NoFile}]

WorksOn(q, f) == requests[q] # NoWork /\ requests[q].file = f
Points(i, f) == Known(i) /\ customers[i].file = f

CustomersTyped ==
  /\ customers \in [Ids -> CustomerRow \cup {NoCustomer}]
  /\ files \in [Slugs -> Passwords \cup {NoFile}]
  /\ requests \in [Handlers -> Errand \cup {NoWork}]
  /\ \A i \in Ids : Known(i) /\ customers[i].file # NoFile => customers[i].accepted \in Passwords
  /\ \A q \in Handlers : requests[q] # NoWork /\ requests[q].at \in {"write", "commit"} => requests[q].secret \in Passwords

\* What holds of a file that met none of the causes: one request at most is on it,
\* one customer points to it, the one the request is for; and its text is the
\* customer's until the request has touched it, then the request's.
OneRequest(f) == \A q, p \in Handlers : WorksOn(q, f) /\ WorksOn(p, f) => q = p
OneOwner(f)   == \A i, j \in Ids : Points(i, f) /\ Points(j, f) => i = j
ForOwner(f)   ==
  \A q \in Handlers, i \in Ids : WorksOn(q, f) /\ Points(i, f) => requests[q].into # "new row" /\ requests[q].id = i
HoldsOwners(f) ==
  (\A q \in Handlers : WorksOn(q, f) => requests[q].at \in {"write", "unlink"}) =>
    \A i \in Ids : Points(i, f) => files[f] = customers[i].accepted
HoldsNew(f) == \A q \in Handlers : WorksOn(q, f) /\ requests[q].at = "commit" => files[f] = requests[q].secret

FileKept(f) == OneRequest(f) /\ OneOwner(f) /\ ForOwner(f) /\ HoldsOwners(f) /\ HoldsNew(f)

CustomersInv == CustomersTyped /\ \A f \in Slugs \ shaken : FileKept(f)

\* No customer, no file and no request: nothing points anywhere.
LEMMA CustomersInitial ==
  ASSUME NoFile \notin Slugs \cup Passwords, CustomersInit
  PROVE  CustomersInv
BY DEF CustomersInit, CustomersInv, CustomersTyped, FileKept, OneRequest, OneOwner, ForOwner, HoldsOwners, HoldsNew, WorksOn, Points, Known

\* A row is known, an errand is one.
LEMMA RowsAndErrands ==
  /\ \A r \in CustomerRow : NoFile \notin Slugs => r # NoCustomer
  /\ \A r \in Errand : r # NoWork
<1>1. ASSUME NEW r \in CustomerRow, NoFile \notin Slugs PROVE r # NoCustomer
  <2>1. r.slug \in Slugs /\ NoCustomer.slug = NoFile BY DEF CustomerRow, NoCustomer, NoFile
  <2> QED BY <1>1, <2>1
<1>2. ASSUME NEW r \in Errand PROVE r # NoWork
  <2>1. r.at # "none" /\ NoWork.at = "none" BY DEF Errand, NoWork
  <2> QED BY <2>1
<1> QED BY <1>1, <1>2

\* A request that begins on a file nobody is at finds it its customer's, or nobody's.
LEMMA BeginsKeeps ==
  ASSUME NoFile \notin Slugs \cup Passwords, CustomersInv,
         NEW q \in Handlers, NEW r \in Errand, Begins(q, r),
         r.at \in {"write", "unlink"}, r.at = "write" => r.secret \in Passwords,
         \A i \in Ids : Points(i, r.file) /\ r.file \notin shaken /\ ~InUse(r.file) => r.into # "new row" /\ r.id = i
  PROVE  CustomersInv'
<1> USE DEF Begins
<1>t. CustomersTyped BY DEF CustomersInv
<1>1. /\ requests[q] = NoWork /\ requests'[q] = r /\ r # NoWork
      /\ \A p \in Handlers \ {q} : requests'[p] = requests[p]
  BY <1>t, RowsAndErrands DEF CustomersTyped
<1>2. CustomersTyped' BY <1>t, <1>1 DEF CustomersTyped, Known
<1>3. ASSUME NEW f \in Slugs, f \notin shaken' PROVE FileKept(f)'
  <2>1. f \notin shaken /\ (f = r.file => ~InUse(f)) BY <1>3
  <2>2. FileKept(f) BY <2>1 DEF CustomersInv
  <2>3. \A i \in Ids : Points(i, f)' <=> Points(i, f) BY DEF Points, Known
  <2>4. CASE f # r.file
    <3>1. \A p \in Handlers : WorksOn(p, f)' <=> p # q /\ WorksOn(p, f) BY <1>1, <2>4 DEF WorksOn
    <3>2. \A p \in Handlers : WorksOn(p, f) => p # q /\ requests'[p] = requests[p] BY <1>1 DEF WorksOn
    <3>3. OneRequest(f)' /\ OneOwner(f)' /\ ForOwner(f)'
      BY <2>2, <2>3, <3>1, <3>2 DEF FileKept, OneRequest, OneOwner, ForOwner
    <3>4. HoldsOwners(f)' /\ HoldsNew(f)'
      BY <2>2, <2>3, <3>1, <3>2 DEF FileKept, HoldsOwners, HoldsNew
    <3> QED BY <3>3, <3>4 DEF FileKept
  <2>5. CASE f = r.file
    <3>1. \A p \in Handlers : ~WorksOn(p, f) BY <2>1, <2>5 DEF InUse, WorksOn
    <3>2. \A p \in Handlers : WorksOn(p, f)' => p = q BY <1>1, <3>1 DEF WorksOn
    <3>3. \A i \in Ids : Points(i, f) => files[f] = customers[i].accepted BY <2>2, <3>1 DEF FileKept, HoldsOwners
    <3>4. \A i \in Ids : Points(i, f) => r.into # "new row" /\ r.id = i BY <2>1, <2>5
    <3>5. OneRequest(f)' /\ OneOwner(f)' /\ ForOwner(f)'
      BY <1>1, <2>2, <2>3, <3>2, <3>4 DEF FileKept, OneRequest, OneOwner, ForOwner
    <3>6. HoldsOwners(f)' BY <2>3, <3>3 DEF HoldsOwners
    <3>7. HoldsNew(f)' BY <1>1, <3>2 DEF HoldsNew
    <3> QED BY <3>5, <3>6, <3>7 DEF FileKept
  <2> QED BY <2>4, <2>5
<1> QED BY <1>2, <1>3 DEF CustomersInv

\* A file nobody is at is free only if no customer points to it.
LEMMA FreeIsNobodys ==
  ASSUME NoFile \notin Slugs \cup Passwords, CustomersInv,
         NEW f \in Slugs, f \notin shaken, ~InUse(f), Free(f), NEW i \in Ids
  PROVE  ~Points(i, f)
<1>1. FileKept(f) BY DEF CustomersInv
<1>2. \A q \in Handlers : ~WorksOn(q, f) BY DEF InUse, WorksOn
<1>3. Points(i, f) => files[f] = customers[i].accepted BY <1>1, <1>2 DEF FileKept, HoldsOwners
<1>4. Points(i, f) => customers[i].accepted \in Passwords BY DEF CustomersInv, CustomersTyped, Points
<1> QED BY <1>3, <1>4 DEF Free

\* A request that ends leaves the files of the others as they are, and its own, if
\* unshaken, to the customer it was for.
LEMMA EndsKeeps ==
  ASSUME NoFile \notin Slugs \cup Passwords, CustomersInv, NEW q \in Handlers, requests[q] # NoWork,
         requests' = [requests EXCEPT ![q] = NoWork], files' = files, CustomersTyped',
         shaken \subseteq shaken',
         \A f \in Slugs \ shaken', i \in Ids : Points(i, f)' => 
           \/ Points(i, f) /\ customers'[i].accepted = customers[i].accepted
           \/ f = requests[q].file /\ requests[q].id = i /\ customers'[i].accepted = files[f],
         \A f \in Slugs \ shaken', i \in Ids : f = requests[q].file /\ Points(i, f)' =>
           customers'[i].accepted = files[f]
  PROVE  CustomersInv'
<1>t. CustomersTyped BY DEF CustomersInv
<1>1. requests'[q] = NoWork /\ \A p \in Handlers \ {q} : requests'[p] = requests[p]
  BY <1>t DEF CustomersTyped
<1>2. ASSUME NEW f \in Slugs, f \notin shaken' PROVE FileKept(f)'
  <2>1. FileKept(f) BY <1>2 DEF CustomersInv
  <2>2. \A p \in Handlers : WorksOn(p, f)' <=> p # q /\ WorksOn(p, f) BY <1>1 DEF WorksOn
  <2>3. \A p \in Handlers : p # q => requests'[p] = requests[p] BY <1>1
  <2>4. CASE f # requests[q].file
    <3>1. \A i \in Ids : Points(i, f)' => Points(i, f) /\ customers'[i].accepted = customers[i].accepted
      BY <1>2, <2>4
    <3>2. \A p \in Handlers : WorksOn(p, f) => p # q BY <2>4 DEF WorksOn
    <3>3. OneRequest(f)' /\ OneOwner(f)'
      BY <2>1, <2>2, <3>1 DEF FileKept, OneRequest, OneOwner
    <3>f. ForOwner(f)'
      <4>1. SUFFICES ASSUME NEW p \in Handlers, NEW i \in Ids, WorksOn(p, f)', Points(i, f)'
                     PROVE  requests'[p].into # "new row" /\ requests'[p].id = i
        BY DEF ForOwner
      <4>2. WorksOn(p, f) /\ Points(i, f) /\ requests'[p] = requests[p] BY <2>2, <2>3, <3>1, <4>1
      <4> QED BY <2>1, <4>2 DEF FileKept, ForOwner
    <3>4. HoldsOwners(f)'
      <4>1. SUFFICES ASSUME \A p \in Handlers : WorksOn(p, f)' => requests'[p].at \in {"write", "unlink"},
                            NEW i \in Ids, Points(i, f)'
                     PROVE  files'[f] = customers'[i].accepted
        BY DEF HoldsOwners
      <4>2. \A p \in Handlers : WorksOn(p, f) => requests[p].at \in {"write", "unlink"}
        BY <2>2, <2>3, <3>2, <4>1
      <4>3. Points(i, f) /\ customers'[i].accepted = customers[i].accepted BY <3>1, <4>1
      <4>4. files'[f] = files[f] OBVIOUS
      <4> QED BY <2>1, <4>2, <4>3, <4>4 DEF FileKept, HoldsOwners
    <3>5. HoldsNew(f)' BY <2>1, <2>2, <2>3, <3>2 DEF FileKept, HoldsNew
    <3> QED BY <3>3, <3>f, <3>4, <3>5 DEF FileKept
  <2>5. CASE f = requests[q].file
    <3>1. WorksOn(q, f) BY <2>5 DEF WorksOn
    <3>2. \A p \in Handlers : ~WorksOn(p, f)' BY <2>1, <2>2, <3>1 DEF FileKept, OneRequest
    <3>3. \A i \in Ids : Points(i, f)' => requests[q].id = i
      BY <1>2, <2>1, <2>5, <3>1 DEF FileKept, ForOwner
    <3>o. files'[f] = files[f] OBVIOUS
    <3>4. \A i \in Ids : Points(i, f)' => files'[f] = customers'[i].accepted BY <1>2, <2>5, <3>o
    <3> QED BY <3>2, <3>3, <3>4 DEF FileKept, OneRequest, OneOwner, ForOwner, HoldsOwners, HoldsNew
  <2> QED BY <2>4, <2>5
<1> QED BY <1>2 DEF CustomersInv

\* A commit gives the row the file, and what it holds, or leaves the row as it is.
LEMMA CommitsKeeps ==
  ASSUME NoFile \notin Slugs \cup Passwords, CustomersInv, NEW q \in Handlers, Commits(q)
  PROVE  CustomersInv'
<1> DEFINE r     == requests[q]
           c     == customers[r.id]
           lost  == IF r.into = "new row" THEN BySlug(r.file) # {} ELSE ~Known(r.id)
           moved == r.into = "own file" /\ c.file # r.file
           row   == CASE r.into = "new row"  -> [slug |-> r.file, file |-> r.file, accepted |-> r.secret]
                      [] r.into = "new file" -> [c EXCEPT !.file = r.file, !.accepted = r.secret]
                      [] r.into = "own file" -> [c EXCEPT !.accepted = r.secret]
<1>t. CustomersTyped BY DEF CustomersInv
<1>1. /\ r.at = "commit" /\ requests' = [requests EXCEPT ![q] = NoWork] /\ files' = files
      /\ customers' = IF lost THEN customers ELSE [customers EXCEPT ![r.id] = row]
      /\ shaken' = IF lost THEN shaken \cup {r.file}
                   ELSE IF moved THEN shaken \cup ({r.file, c.file} \ {NoFile}) ELSE shaken
  BY DEF Commits
<1>w. r.at = "commit" /\ NoWork.at = "none" BY <1>1 DEF NoWork
<1>2. r # NoWork BY <1>w
<1>3. r \in Errand /\ r.id \in Ids /\ r.file \in Slugs /\ r.secret \in Passwords
      /\ r.into \in {"new row", "new file", "own file"}
  BY <1>t, <1>1, <1>2 DEF CustomersTyped, Errand
<1>4. CASE lost
  <2>1. customers' = customers /\ shaken' = shaken \cup {r.file} BY <1>1, <1>4
  <2>2. \A i \in Ids, f \in Slugs : Points(i, f)' => Points(i, f) /\ customers'[i].accepted = customers[i].accepted
    BY <2>1 DEF Points, Known
  <2>3. CustomersTyped' BY <1>t, <1>1, <2>1 DEF CustomersTyped, Known
  <2> QED BY <1>1, <1>2, <2>1, <2>2, <2>3, EndsKeeps
<1>5. CASE ~lost
  <2>1. customers' = [customers EXCEPT ![r.id] = row] /\ shaken \subseteq shaken'
        /\ (moved => r.file \in shaken' /\ (c.file # NoFile => c.file \in shaken'))
    <3>1. customers' = [customers EXCEPT ![r.id] = row] BY <1>1, <1>5
    <3>2. shaken' = IF moved THEN shaken \cup ({r.file, c.file} \ {NoFile}) ELSE shaken BY <1>1, <1>5
    <3>3. r.file # NoFile BY <1>3
    <3> HIDE DEF moved
    <3>4. shaken \subseteq shaken' BY <3>2
    <3>5. moved => r.file \in shaken' /\ (c.file # NoFile => c.file \in shaken') BY <3>2, <3>3
    <3> QED BY <3>1, <3>4, <3>5
  <2>2. r.into # "new row" => c \in CustomerRow BY <1>t, <1>3, <1>5 DEF CustomersTyped, Known
  <2>3. /\ row \in CustomerRow /\ row.accepted = r.secret
        /\ row.file = IF r.into = "own file" THEN c.file ELSE r.file
    <3>1. CASE r.into = "new row" BY <1>3, <3>1 DEF CustomerRow
    <3>2. CASE r.into = "new file" BY <1>3, <2>2, <3>2 DEF CustomerRow
    <3>3. CASE r.into = "own file" BY <1>3, <2>2, <3>3 DEF CustomerRow
    <3> QED BY <1>3, <3>1, <3>2, <3>3
  <2>4. customers'[r.id] = row /\ row # NoCustomer /\ \A i \in Ids \ {r.id} : customers'[i] = customers[i]
    BY <1>t, <1>3, <2>1, <2>3, RowsAndErrands DEF CustomersTyped
  <2>5. CustomersTyped'
    <3>1. customers' \in [Ids -> CustomerRow \cup {NoCustomer}] BY <1>t, <2>1, <2>3 DEF CustomersTyped
    <3>2. \A i \in Ids : Known(i)' /\ customers'[i].file # NoFile => customers'[i].accepted \in Passwords
      BY <1>t, <1>3, <2>3, <2>4 DEF CustomersTyped, Known
    <3> QED BY <1>t, <1>1, <3>1, <3>2 DEF CustomersTyped
  <2>6. ASSUME NEW f \in Slugs, f \notin shaken', f = r.file PROVE files[f] = r.secret /\ ForOwner(f)
    <3>1. FileKept(f) BY <2>1, <2>6 DEF CustomersInv
    <3> QED BY <1>1, <1>2, <2>6, <3>1 DEF FileKept, HoldsNew, WorksOn
  <2>7. \A i \in Ids \ {r.id}, f \in Slugs : Points(i, f)' => Points(i, f) /\ customers'[i].accepted = customers[i].accepted
    BY <2>4 DEF Points, Known
  <2>8. ASSUME NEW f \in Slugs \ shaken', NEW i \in Ids, i = r.id, Points(i, f)'
        PROVE  f = r.file /\ customers'[i].accepted = files[f]
    <3>1. f = row.file BY <2>4, <2>8 DEF Points
    <3>2. f = r.file BY <2>1, <2>3, <2>8, <3>1
    <3> QED BY <2>3, <2>4, <2>6, <2>8, <3>2
  <2>9. ASSUME NEW f \in Slugs \ shaken', f = r.file, NEW i \in Ids, Points(i, f)'
        PROVE  customers'[i].accepted = files[f]
    <3>1. CASE i = r.id BY <2>8, <2>9, <3>1
    <3>2. CASE i # r.id
      <4>1. Points(i, f) /\ WorksOn(q, f) BY <1>2, <2>7, <2>9, <3>2 DEF WorksOn
      <4> QED BY <1>3, <2>6, <2>9, <3>2, <4>1 DEF ForOwner
    <3> QED BY <3>1, <3>2
  <2>10. \A f \in Slugs \ shaken', i \in Ids : Points(i, f)' =>
           \/ Points(i, f) /\ customers'[i].accepted = customers[i].accepted
           \/ f = r.file /\ r.id = i /\ customers'[i].accepted = files[f]
    BY <1>3, <2>7, <2>8
  <2>11. requests' = [requests EXCEPT ![q] = NoWork] /\ files' = files /\ shaken \subseteq shaken'
    BY <1>1, <2>1
  <2> QED BY <1>2, <2>5, <2>9, <2>10, <2>11, EndsKeeps
<1> QED BY <1>4, <1>5

\* Every step of a request, and of the credentials' own API, keeps the unshaken files.
LEMMA CustomersStep ==
  ASSUME NoFile \notin Slugs \cup Passwords, CustomersInv, [CustomersNext]_customerVars
  PROVE  CustomersInv'
<1>t. CustomersTyped BY DEF CustomersInv
<1>n. \A i \in Ids : Known(i) => customers[i] \in CustomerRow BY <1>t DEF CustomersTyped, Known
\* A step that leaves requests, files and unshaken pointers as they are.
<1>r. ASSUME UNCHANGED <<requests, files, shaken>>, CustomersTyped',
             \A i \in Ids, f \in Slugs : Points(i, f)' => Points(i, f) /\ customers'[i].accepted = customers[i].accepted
      PROVE  CustomersInv'
  <2>1. SUFFICES ASSUME NEW f \in Slugs \ shaken PROVE FileKept(f)' BY <1>r DEF CustomersInv
  <2>2. FileKept(f) BY DEF CustomersInv
  <2>3. \A q \in Handlers : WorksOn(q, f)' <=> WorksOn(q, f) BY <1>r DEF WorksOn
  <2>4. OneRequest(f)' /\ OneOwner(f)' /\ ForOwner(f)'
    BY <1>r, <2>2, <2>3 DEF FileKept, OneRequest, OneOwner, ForOwner
  <2>5. HoldsOwners(f)' /\ HoldsNew(f)' BY <1>r, <2>2, <2>3 DEF FileKept, HoldsOwners, HoldsNew
  <2> QED BY <2>4, <2>5 DEF FileKept
<1>1. ASSUME NEW q \in Handlers, NEW i \in Ids, NEW x \in Passwords, NEW s \in Slugs, CreateStored(q, i, s, x)
      PROVE  CustomersInv'
  <2> DEFINE w == [at |-> "write", id |-> i, into |-> "new row", file |-> s, secret |-> x]
  <2>1. Begins(q, w) /\ Free(s) BY <1>1 DEF CreateStored
  <2>2. w \in Errand BY DEF Errand
  <2>3. \A j \in Ids : Points(j, s) /\ s \notin shaken /\ ~InUse(s) => FALSE BY <2>1, FreeIsNobodys
  <2> QED BY <2>1, <2>2, <2>3, BeginsKeeps
<1>2. ASSUME NEW q \in Handlers, NEW i \in Ids, NEW x \in Passwords, SetSecret(q, i, x)
      PROVE  CustomersInv'
  <2> DEFINE c == customers[i]
             w == [at |-> "write", id |-> i, secret |-> x,
                   into |-> IF c.file = NoFile THEN "new file" ELSE "own file",
                   file |-> IF c.file = NoFile THEN c.slug ELSE c.file]
  <2>1. Begins(q, w) /\ Known(i) /\ (c.file = NoFile => Free(c.slug)) BY <1>2 DEF SetSecret
  <2>2. c \in CustomerRow BY <1>n, <2>1
  <2>3. w \in Errand BY <2>2 DEF Errand, CustomerRow
  <2>4. \A j \in Ids : Points(j, w.file) /\ w.file \notin shaken /\ ~InUse(w.file) => i = j
    <3>1. CASE c.file = NoFile BY <2>1, <2>2, <3>1, FreeIsNobodys DEF CustomerRow
    <3>2. CASE c.file # NoFile
      <4>1. Points(i, w.file) /\ w.file \in Slugs BY <2>1, <2>2, <3>2 DEF Points, CustomerRow
      <4> QED BY <4>1 DEF CustomersInv, FileKept, OneOwner
    <3> QED BY <3>1, <3>2
  <2> QED BY <2>1, <2>3, <2>4, BeginsKeeps
<1>3. ASSUME NEW q \in Handlers, NEW i \in Ids, DeleteStored(q, i) PROVE CustomersInv'
  <2> DEFINE w == [at |-> "unlink", id |-> i, into |-> "own file", file |-> customers[i].file, secret |-> NoFile]
  <2>1. Begins(q, w) /\ Known(i) /\ customers[i].file # NoFile BY <1>3 DEF DeleteStored
  <2>2. customers[i] \in CustomerRow BY <1>n, <2>1
  <2>3. w \in Errand /\ Points(i, w.file) /\ w.file \in Slugs BY <2>1, <2>2 DEF Errand, CustomerRow, Points
  <2>4. \A j \in Ids : Points(j, w.file) /\ w.file \notin shaken => i = j
    BY <2>3 DEF CustomersInv, FileKept, OneOwner
  <2> QED BY <2>1, <2>3, <2>4, BeginsKeeps
<1>4. ASSUME NEW i \in Ids, NEW s \in Slugs, CreatePlain(i, s) PROVE CustomersInv'
  <2> DEFINE w == [slug |-> s, file |-> NoFile, accepted |-> NoFile]
  <2>1. w \in CustomerRow /\ w.file = NoFile BY DEF CustomerRow
  <2>2. customers' = [customers EXCEPT ![i] = w] /\ UNCHANGED <<files, requests, shaken>> BY <1>4 DEF CreatePlain
  <2>3. customers'[i] = w /\ \A j \in Ids \ {i} : customers'[j] = customers[j] BY <1>t, <2>2 DEF CustomersTyped
  <2>4. CustomersTyped' BY <1>t, <2>1, <2>2, <2>3 DEF CustomersTyped, Known
  <2>5. \A j \in Ids, f \in Slugs : Points(j, f)' => Points(j, f) /\ customers'[j].accepted = customers[j].accepted
    BY <2>1, <2>3 DEF Points, Known
  <2> QED BY <1>r, <2>2, <2>4, <2>5
<1>5. ASSUME NEW i \in Ids, NEW s \in Slugs, RenameCustomer(i, s) PROVE CustomersInv'
  <2> DEFINE w == [customers[i] EXCEPT !.slug = s]
  <2>1. Known(i) /\ customers[i] \in CustomerRow BY <1>5, <1>n DEF RenameCustomer
  <2>2. w \in CustomerRow /\ w.file = customers[i].file /\ w.accepted = customers[i].accepted
    BY <2>1 DEF CustomerRow
  <2>3. customers' = [customers EXCEPT ![i].slug = s] /\ UNCHANGED <<files, requests, shaken>>
    BY <1>5 DEF RenameCustomer
  <2>4. customers'[i] = w /\ \A j \in Ids \ {i} : customers'[j] = customers[j] BY <1>t, <2>3 DEF CustomersTyped
  <2>5. CustomersTyped'
    <3>1. customers' = [customers EXCEPT ![i] = w] BY <2>3
    <3>2. \A j \in Ids : Known(j)' => Known(j) BY <2>1, <2>4 DEF Known
    <3> QED BY <1>t, <2>1, <2>2, <2>3, <2>4, <3>1, <3>2 DEF CustomersTyped
  <2>6. \A j \in Ids, f \in Slugs : Points(j, f)' => Points(j, f) /\ customers'[j].accepted = customers[j].accepted
    BY <2>1, <2>2, <2>4 DEF Points, Known
  <2> QED BY <1>r, <2>3, <2>5, <2>6
<1>6. ASSUME NEW i \in Ids, DeletePlain(i) PROVE CustomersInv'
  <2>1. customers' = [customers EXCEPT ![i] = NoCustomer] /\ UNCHANGED <<files, requests, shaken>>
    BY <1>6 DEF DeletePlain
  <2>2. customers'[i] = NoCustomer /\ \A j \in Ids \ {i} : customers'[j] = customers[j]
    BY <1>t, <2>1 DEF CustomersTyped
  <2>3. CustomersTyped' BY <1>t, <2>1, <2>2 DEF CustomersTyped, Known
  <2>4. \A j \in Ids, f \in Slugs : Points(j, f)' => Points(j, f) /\ customers'[j].accepted = customers[j].accepted
    BY <2>2 DEF Points, Known
  <2> QED BY <1>r, <2>1, <2>3, <2>4
<1>7. ASSUME NEW g \in Slugs, CredentialDeleted(g) PROVE CustomersInv'
  <2> DEFINE cut(i) == [customers[i] EXCEPT !.file = NoFile, !.accepted = NoFile]
  <2>1. /\ files' = [files EXCEPT ![g] = NoFile] /\ requests' = requests
        /\ shaken' = IF InUse(g) THEN shaken \cup {g} ELSE shaken
        /\ customers' = [i \in Ids |-> IF i \in Pointing(g) THEN cut(i) ELSE customers[i]]
    BY <1>7 DEF CredentialDeleted
  <2>2. \A i \in Ids : i \in Pointing(g) =>
          customers'[i] \in CustomerRow /\ customers'[i].file = NoFile /\ Known(i)
    BY <1>n, <2>1 DEF Pointing, CustomerRow
  <2>3. \A i \in Ids : i \notin Pointing(g) => customers'[i] = customers[i] BY <2>1
  <2>4. CustomersTyped'
    <3>1. customers' \in [Ids -> CustomerRow \cup {NoCustomer}] BY <1>t, <2>1, <2>2, <2>3 DEF CustomersTyped
    <3>2. files' \in [Slugs -> Passwords \cup {NoFile}] BY <1>t, <2>1 DEF CustomersTyped
    <3>3. \A i \in Ids : Known(i)' /\ customers'[i].file # NoFile => customers'[i].accepted \in Passwords
      BY <1>t, <2>2, <2>3 DEF CustomersTyped, Known
    <3> QED BY <1>t, <2>1, <3>1, <3>2, <3>3 DEF CustomersTyped
  <2>5. \A i \in Ids, f \in Slugs : Points(i, f)' => f # g /\ Points(i, f) /\ customers'[i].accepted = customers[i].accepted
    BY <2>2, <2>3 DEF Points, Known, Pointing
  <2>6. ASSUME NEW f \in Slugs \ shaken' PROVE FileKept(f)'
    <3>1. FileKept(f) /\ (f = g => ~InUse(g)) BY <2>1 DEF CustomersInv
    <3>2. \A q \in Handlers : (WorksOn(q, f)' <=> WorksOn(q, f)) /\ (WorksOn(q, f) => f # g) BY <2>1, <3>1 DEF WorksOn, InUse
    <3>3. f # g => files'[f] = files[f] BY <1>t, <2>1 DEF CustomersTyped
    <3>4. OneRequest(f)' /\ OneOwner(f)' /\ ForOwner(f)'
      BY <2>1, <2>5, <3>1, <3>2 DEF FileKept, OneRequest, OneOwner, ForOwner
    <3>5. HoldsOwners(f)' BY <2>1, <2>5, <3>1, <3>2, <3>3 DEF FileKept, HoldsOwners
    <3>6. HoldsNew(f)' BY <2>1, <3>1, <3>2, <3>3 DEF FileKept, HoldsNew
    <3> QED BY <3>4, <3>5, <3>6 DEF FileKept
  <2> QED BY <2>1, <2>4, <2>6 DEF CustomersInv
<1>8. ASSUME NEW q \in Handlers, FileWritten(q) \/ FileUnlinked(q) PROVE CustomersInv'
  <2> DEFINE r    == requests[q]
             now  == IF r.at = "write" THEN "commit" ELSE "gone"
             text == IF r.at = "write" THEN r.secret ELSE NoFile
  <2>1. /\ r.at \in {"write", "unlink"} /\ UNCHANGED <<customers, shaken>>
        /\ files' = [files EXCEPT ![r.file] = text] /\ requests' = [requests EXCEPT ![q].at = now]
    BY <1>8 DEF FileWritten, FileUnlinked
  <2>2. r # NoWork BY <2>1 DEF NoWork
  <2>3. r \in Errand /\ r.file \in Slugs /\ (r.at = "write" => r.secret \in Passwords)
    BY <1>t, <2>1, <2>2 DEF CustomersTyped, Errand
  <2>4. requests'[q] = [r EXCEPT !.at = now] /\ \A p \in Handlers \ {q} : requests'[p] = requests[p]
    BY <1>t, <2>1 DEF CustomersTyped
  <2>5. /\ requests'[q] \in Errand /\ requests'[q].at = now /\ requests'[q].file = r.file
        /\ requests'[q].into = r.into /\ requests'[q].id = r.id /\ requests'[q].secret = r.secret
    BY <2>3, <2>4 DEF Errand
  <2>6. requests'[q] # NoWork BY <2>5, RowsAndErrands
  <2>7. CustomersTyped'
    <3>1. requests' \in [Handlers -> Errand \cup {NoWork}]
      <4>1. requests' = [requests EXCEPT ![q] = [r EXCEPT !.at = now]] BY <2>1
      <4> QED BY <1>t, <2>4, <2>5, <4>1 DEF CustomersTyped
    <3>2. files' \in [Slugs -> Passwords \cup {NoFile}] BY <1>t, <2>1, <2>3 DEF CustomersTyped
    <3>3. \A p \in Handlers : requests'[p] # NoWork /\ requests'[p].at \in {"write", "commit"}
                              => requests'[p].secret \in Passwords
      BY <1>t, <2>1, <2>3, <2>4, <2>5 DEF CustomersTyped
    <3> QED BY <1>t, <2>1, <3>1, <3>2, <3>3 DEF CustomersTyped, Known
  <2>8. ASSUME NEW f \in Slugs \ shaken PROVE FileKept(f)'
    <3>1. FileKept(f) BY DEF CustomersInv
    <3>2. \A p \in Handlers : WorksOn(p, f)' <=> WorksOn(p, f) BY <2>2, <2>4, <2>5, <2>6 DEF WorksOn
    <3>3. \A i \in Ids : Points(i, f)' <=> Points(i, f) BY <2>1 DEF Points, Known
    <3>4. \A p \in Handlers : requests'[p].into = requests[p].into /\ requests'[p].id = requests[p].id
      BY <2>4, <2>5
    <3>5. OneRequest(f)' /\ OneOwner(f)' /\ ForOwner(f)'
      BY <3>1, <3>2, <3>3, <3>4 DEF FileKept, OneRequest, OneOwner, ForOwner
    <3>6. CASE f = r.file
      <4>1. WorksOn(q, f)' /\ ~(requests'[q].at \in {"write", "unlink"}) BY <2>5, <2>6, <3>6 DEF WorksOn
      <4>2. HoldsOwners(f)' BY <4>1 DEF HoldsOwners
      <4>3. \A p \in Handlers : WorksOn(p, f)' => p = q BY <3>5, <4>1 DEF OneRequest
      <4>4. files'[f] = text BY <1>t, <2>1, <3>6 DEF CustomersTyped
      <4>5. HoldsNew(f)'
        <5>1. SUFFICES ASSUME requests'[q].at = "commit" PROVE files'[f] = requests'[q].secret
          BY <4>3 DEF HoldsNew
        <5> QED BY <2>1, <2>5, <4>4, <5>1
      <4> QED BY <3>5, <4>2, <4>5 DEF FileKept
    <3>7. CASE f # r.file
      <4>1. files'[f] = files[f] BY <1>t, <2>1, <3>7 DEF CustomersTyped
      <4>2. \A p \in Handlers : WorksOn(p, f) => requests'[p] = requests[p] BY <2>4, <3>7 DEF WorksOn
      <4>3. HoldsOwners(f)' BY <2>1, <3>1, <3>2, <3>3, <4>1, <4>2 DEF FileKept, HoldsOwners
      <4>4. HoldsNew(f)' BY <3>1, <3>2, <4>1, <4>2 DEF FileKept, HoldsNew
      <4> QED BY <3>5, <4>3, <4>4 DEF FileKept
    <3> QED BY <3>6, <3>7
  <2> QED BY <2>1, <2>7, <2>8 DEF CustomersInv
<1>9. ASSUME NEW q \in Handlers, DeleteCommits(q) PROVE CustomersInv'
  <2> DEFINE r == requests[q]
  <2>1. /\ r.at = "gone" /\ requests' = [requests EXCEPT ![q] = NoWork] /\ UNCHANGED <<files, shaken>>
        /\ customers' = [customers EXCEPT ![r.id] = NoCustomer]
    BY <1>9 DEF DeleteCommits
  <2>2. r # NoWork /\ r.at # NoWork.at BY <2>1 DEF NoWork
  <2>3. r.id \in Ids /\ r.file \in Slugs BY <1>t, <2>2 DEF CustomersTyped, Errand
  <2>4. customers'[r.id] = NoCustomer /\ \A j \in Ids \ {r.id} : customers'[j] = customers[j]
    BY <1>t, <2>1, <2>3 DEF CustomersTyped
  <2>5. CustomersTyped' BY <1>t, <2>1, <2>4 DEF CustomersTyped, Known
  <2>6. \A j \in Ids, f \in Slugs :
          Points(j, f)' => j # r.id /\ Points(j, f) /\ customers'[j].accepted = customers[j].accepted
    BY <2>4 DEF Points, Known
  <2>7. ASSUME NEW f \in Slugs \ shaken', f = r.file, NEW j \in Ids, Points(j, f)' PROVE FALSE
    <3>1. FileKept(f) BY <2>1, <2>7 DEF CustomersInv
    <3>2. Points(j, f) /\ WorksOn(q, f) /\ j # r.id BY <2>2, <2>3, <2>6, <2>7 DEF WorksOn
    <3> QED BY <3>1, <3>2 DEF FileKept, ForOwner
  <2> QED BY <2>1, <2>2, <2>5, <2>6, <2>7, EndsKeeps
<1>10. ASSUME NEW q \in Handlers, Dies(q) PROVE CustomersInv'
  <2> DEFINE r == requests[q]
  <2>1. /\ r # NoWork /\ requests' = [requests EXCEPT ![q] = NoWork] /\ UNCHANGED <<customers, files>>
        /\ shaken' = IF r.at \in {"commit", "gone"} THEN shaken \cup {r.file} ELSE shaken
    BY <1>10 DEF Dies
  <2>2. r \in Errand /\ r.file \in Slugs /\ r.at \in {"write", "commit", "unlink", "gone"}
    BY <1>t, <2>1 DEF CustomersTyped, Errand
  <2>3. CustomersTyped' BY <1>t, <2>1 DEF CustomersTyped, Known
  <2>4. \A j \in Ids, f \in Slugs : Points(j, f)' => Points(j, f) /\ customers'[j].accepted = customers[j].accepted
    BY <2>1 DEF Points, Known
  <2>5. ASSUME NEW f \in Slugs \ shaken', f = r.file, NEW j \in Ids, Points(j, f)'
        PROVE  customers'[j].accepted = files[f]
    <3>1. r.at \in {"write", "unlink"} /\ f \notin shaken BY <2>1, <2>2, <2>5
    <3>2. FileKept(f) /\ WorksOn(q, f) BY <2>1, <2>2, <2>5, <3>1 DEF CustomersInv, WorksOn
    <3>3. \A p \in Handlers : WorksOn(p, f) => requests[p].at \in {"write", "unlink"}
      BY <3>1, <3>2 DEF FileKept, OneRequest
    <3> QED BY <2>4, <2>5, <3>2, <3>3 DEF FileKept, HoldsOwners
  <2>6. shaken \subseteq shaken' BY <2>1
  <2> QED BY <2>1, <2>3, <2>4, <2>5, <2>6, EndsKeeps
<1>11. ASSUME UNCHANGED customerVars PROVE CustomersInv'
  <2>1. UNCHANGED <<requests, files, shaken, customers>> BY <1>11 DEF customerVars
  <2>2. CustomersTyped' BY <1>t, <2>1 DEF CustomersTyped, Known
  <2>3. \A i \in Ids, f \in Slugs : Points(i, f)' => Points(i, f) /\ customers'[i].accepted = customers[i].accepted
    BY <2>1 DEF Points, Known
  <2> QED BY <1>r, <2>1, <2>2, <2>3
<1> QED
  BY <1>1, <1>2, <1>3, <1>4, <1>5, <1>6, <1>7, <1>8, <1>9, <1>10, <1>11, CommitsKeeps DEF CustomersNext

\* A file that met no cause belongs to the one customer that points to it.
LEMMA SecretFollows == ASSUME CustomersInv PROVE SecretIsOwn
<1>1. SUFFICES ASSUME NEW i \in Ids, Known(i), customers[i].file # NoFile, customers[i].file \notin shaken,
                      ~InUse(customers[i].file)
               PROVE  /\ files[customers[i].file] = customers[i].accepted
                      /\ Pointing(customers[i].file) = {i}
  BY DEF SecretIsOwn
<1> DEFINE f == customers[i].file
<1>2. f \in Slugs BY <1>1 DEF CustomersInv, CustomersTyped, CustomerRow, Known
<1>3. FileKept(f) /\ Points(i, f) BY <1>1, <1>2 DEF CustomersInv, Points
<1>4. \A q \in Handlers : ~WorksOn(q, f) BY <1>1 DEF InUse, WorksOn
<1>5. files[f] = customers[i].accepted BY <1>3, <1>4 DEF FileKept, HoldsOwners
<1>6. \A j \in Ids : Points(j, f) <=> j = i BY <1>3 DEF FileKept, OneOwner
<1> QED BY <1>5, <1>6 DEF Pointing, Points

\* Customers: a file of the credentials store that met none of the named causes
\* holds the password last accepted for the one customer that points to it, with
\* any number of requests under way at once.
THEOREM SecretIsOwnHolds ==
  ASSUME NoFile \notin Slugs \cup Passwords
  PROVE  CustomersSpec => []SecretIsOwn
<1>1. CustomersInit => CustomersInv BY CustomersInitial
<1>2. CustomersInv /\ [CustomersNext]_customerVars => CustomersInv' BY CustomersStep
<1>3. CustomersInv => SecretIsOwn BY SecretFollows
<1> QED BY <1>1, <1>2, <1>3, PTL DEF CustomersSpec

-----------------------------------------------------------------------------
(* The migration *)

MigrationAssumption == MaxChange \in Nat /\ SeqOf \in [Projects -> Nat]

\* Between a copy and its comparison the source may only have grown: what is copied first
\* is still there when the rest is copied, if it is there when it is compared.
CopyFollows ==
  /\ run.at = "copy 2" => run.copy[1] <= source[run.project][1]
  /\ run.at = "check 1" =>
       \E x \in past[run.project] :
         x[2] = run.copy[2] /\ run.copy[1] <= x[1] /\ x[1] <= source[run.project][1]
  /\ run.at = "check 2" => run.differs \/ run.copy \in past[run.project]

\* The source is at one of its states, and so is every copy.
StatesKnown ==
  \A p \in Projects : source[p] \in past[p] /\ (target[p] # NotCopied => target[p] \in past[p])

\* What is taken has a largest number; it and the open one are below the next one, but for
\* numbers just copied or open when a run set the sequence back.
NumbersKnown ==
  /\ \E w \in Nat : (~behind => w < next) /\ writing \subseteq {w}
  /\ used # {} => \E k \in used : \A m \in used : m <= k
  /\ ~behind => \A n \in used : n < next
  /\ run # NoRun /\ run.migrated => used # {}

MigrationInv == MigrationTypeOK /\ CopyFollows /\ StatesKnown /\ NumbersKnown

LEMMA NothingMigrated == ASSUME MigrationAssumption, MigrationInit PROVE MigrationInv
<1> USE DEF MigrationInit
<1>1. <<0, 0>> \in Contents BY DEF MigrationAssumption, Contents, Changes
<1>2. MigrationTypeOK BY <1>1 DEF MigrationTypeOK
<1>3. CopyFollows /\ StatesKnown BY DEF CopyFollows, StatesKnown, NoRun, NotCopied
<1>4. NumbersKnown
  <2>1. 0 < next /\ writing \subseteq {0} OBVIOUS
  <2> QED BY <2>1 DEF NumbersKnown, NoRun
<1> QED BY <1>2, <1>3, <1>4 DEF MigrationInv

\* The next project starts with no copy, the end of a run has none.
LEMMA NextStarts ==
  ASSUME MigrationAssumption, NEW todo \in SUBSET Projects, NEW dry \in BOOLEAN, NEW migrated \in BOOLEAN,
         NextProject(todo, dry, migrated)
  PROVE  run' \in RunStates /\ run'.at \in {"end", "copy 1"} /\ run'.migrated = migrated
<1>1. CASE todo = {}
  <2>1. run' = [at |-> "end", migrated |-> migrated] BY <1>1 DEF NextProject
  <2>2. [at |-> "end", migrated |-> migrated] \in [at : {"end"}, migrated : BOOLEAN] OBVIOUS
  <2> QED BY <2>1, <2>2 DEF RunStates
<1>2. CASE todo # {}
  <2> DEFINE p == CHOOSE p \in todo : TRUE
  <2>1. p \in Projects BY <1>2
  <2>2. <<0, 0>> \in Contents BY DEF MigrationAssumption, Contents, Changes
  <2>3. run' = [at |-> "copy 1", todo |-> todo \ {p}, project |-> p, copy |-> <<0, 0>>,
                differs |-> FALSE, dry |-> dry, migrated |-> migrated]
    BY <1>2 DEF NextProject
  <2> QED BY <2>1, <2>2, <2>3 DEF RunStates, Steps
<1> QED BY <1>1, <1>2

\* What a project under way knows.
LEMMA UnderWay ==
  ASSUME MigrationTypeOK, run # NoRun, run.at # "end"
  PROVE  run \in [at : Steps, todo : SUBSET Projects, project : Projects, copy : Contents,
                  differs : BOOLEAN, dry : BOOLEAN, migrated : BOOLEAN]
BY DEF MigrationTypeOK, RunStates

\* The source changes: every state it was in stays known.
LEMMA SourceKeeps ==
  ASSUME MigrationAssumption, MigrationInv, NEW p \in Projects, NEW tables \in {{1}, {2}, {1, 2}},
         SourceChanges(p, tables)
  PROVE  MigrationInv'
<1> DEFINE s == source[p]
           t == [i \in 1..2 |-> IF i \in tables THEN s[i] + 1 ELSE s[i]]
<1>t. MigrationTypeOK BY DEF MigrationInv
<1>1. /\ \A i \in tables : s[i] < MaxChange
      /\ source' = [source EXCEPT ![p] = t] /\ past' = [past EXCEPT ![p] = @ \cup {source'[p]}]
      /\ UNCHANGED <<target, run, used, writing, next, behind>>
  BY DEF SourceChanges
<1>2. s \in Contents /\ s[1] \in Changes /\ s[2] \in Changes BY <1>t DEF MigrationTypeOK, Contents
<1>3. t[1] \in Changes /\ t[2] \in Changes /\ s[1] <= t[1]
  BY <1>1, <1>2 DEF MigrationAssumption, Changes
<1>4. t \in Contents
  <2>1. t = <<t[1], t[2]>> OBVIOUS
  <2> HIDE DEF t
  <2> QED BY <1>3, <2>1 DEF Contents
<1>5. source'[p] = t /\ past'[p] = past[p] \cup {t}
      /\ \A q \in Projects \ {p} : source'[q] = source[q] /\ past'[q] = past[q]
  BY <1>t, <1>1 DEF MigrationTypeOK
<1> HIDE DEF t
<1>6. MigrationTypeOK' BY <1>t, <1>1, <1>4, <1>5 DEF MigrationTypeOK
<1>7. \A q \in Projects : past[q] \subseteq past'[q] /\ source[q][1] <= source'[q][1]
                          /\ source[q][1] \in Nat /\ source'[q][1] \in Nat
  BY <1>t, <1>3, <1>5, <1>6 DEF MigrationTypeOK, Contents, Changes
<1>8. StatesKnown' BY <1>1, <1>5, <1>7 DEF MigrationInv, StatesKnown
<1>9. CopyFollows'
  <2>1. CASE run = NoRun \/ run.at = "end"
    <3>1. run'.at \in {"none", "end"} BY <1>1, <2>1 DEF NoRun
    <3> QED BY <3>1 DEF CopyFollows
  <2>2. CASE run # NoRun /\ run.at # "end"
    <3>1. run.project \in Projects /\ run.copy \in Contents BY <1>t, <2>2, UnderWay
    <3>2. run.copy[1] \in Nat BY <3>1 DEF Contents, Changes
    <3>3. CopyFollows BY DEF MigrationInv
    <3>4. \A x \in past[run.project] : x[1] \in Nat
      BY <1>t, <3>1 DEF MigrationTypeOK, Contents, Changes
    <3>5. run' = run /\ past[run.project] \subseteq past'[run.project]
          /\ source[run.project][1] <= source'[run.project][1]
          /\ source[run.project][1] \in Nat /\ source'[run.project][1] \in Nat
      BY <1>1, <1>7, <3>1
    <3>a. ASSUME NEW j \in Nat, j <= source[run.project][1] PROVE j <= source'[run.project][1]
      BY <3>5, <3>a
    <3>6. run.at = "copy 2" => run.copy[1] <= source'[run.project][1]
      BY <3>2, <3>3, <3>a, Zenon DEF CopyFollows
    <3>7. ASSUME run.at = "check 1"
          PROVE  \E x \in past'[run.project] :
                   x[2] = run.copy[2] /\ run.copy[1] <= x[1] /\ x[1] <= source'[run.project][1]
      <4>1. PICK x \in past[run.project] :
              x[2] = run.copy[2] /\ run.copy[1] <= x[1] /\ x[1] <= source[run.project][1]
        BY <3>3, <3>7 DEF CopyFollows
      <4>2. x[1] <= source'[run.project][1] BY <3>4, <3>a, <4>1, Zenon
      <4> QED BY <3>5, <4>1, <4>2, Zenon
    <3>8. run.at = "check 2" => run.differs \/ run.copy \in past'[run.project]
      BY <3>3, <3>5, Zenon DEF CopyFollows
    <3> QED BY <3>5, <3>6, <3>7, <3>8, Zenon DEF CopyFollows
  <2> QED BY <2>1, <2>2
<1>10. NumbersKnown' BY <1>1 DEF MigrationInv, NumbersKnown
<1> QED BY <1>6, <1>8, <1>9, <1>10 DEF MigrationInv

\* A deploy event is written, and stays or not: its number is below the next one.
LEMMA EventKeeps ==
  ASSUME MigrationInv, EventWritten \/ EventCommits \/ EventRollsBack
  PROVE  MigrationInv'
<1>t. MigrationTypeOK BY DEF MigrationInv
<1>1. UNCHANGED <<source, past, target, run, behind>> BY DEF EventWritten, EventCommits, EventRollsBack
<1>2. (CopyFollows /\ StatesKnown)' BY <1>1 DEF MigrationInv, CopyFollows, StatesKnown
<1>3. PICK w \in Nat : (~behind => w < next) /\ writing \subseteq {w} BY DEF MigrationInv, NumbersKnown
<1>4. CASE EventWritten
  <2>1. next' = next + 1 /\ writing' \subseteq {next} /\ used' = used BY <1>4 DEF EventWritten
  <2>2. next \in Nat /\ used \subseteq Nat BY <1>t DEF MigrationTypeOK
  <2>3. MigrationTypeOK' BY <1>t, <1>1, <2>1, <2>2 DEF MigrationTypeOK
  <2>4. next < next' /\ writing' \subseteq {next} BY <2>1, <2>2
  <2>5. ~behind' => \A n \in used' : n < next' BY <1>1, <2>1, <2>2 DEF MigrationInv, NumbersKnown
  <2>6. NumbersKnown' BY <1>1, <2>1, <2>2, <2>4, <2>5 DEF MigrationInv, NumbersKnown
  <2> QED BY <1>2, <2>3, <2>6 DEF MigrationInv
<1>5. CASE EventCommits \/ EventRollsBack
  <2>1. next' = next /\ writing' = {} /\ used' \in {used, used \cup writing}
    BY <1>5 DEF EventCommits, EventRollsBack
  <2>2. next \in Nat /\ used \subseteq Nat BY <1>t DEF MigrationTypeOK
  <2>3. used \subseteq used' /\ used' \subseteq used \cup {w} BY <1>3, <2>1
  <2>4. MigrationTypeOK' BY <1>t, <1>1, <2>1, <2>2, <2>3 DEF MigrationTypeOK
  <2>5. used' # {} => \E k \in used' : \A m \in used' : m <= k
    <3>1. CASE used = {} BY <2>3, <3>1
    <3>2. CASE used # {}
      <4>1. PICK k \in used : \A m \in used : m <= k BY <3>2 DEF MigrationInv, NumbersKnown
      <4>2. CASE w \in used' /\ k < w BY <2>2, <2>3, <4>1, <4>2
      <4>3. CASE w \notin used' \/ w <= k BY <2>2, <2>3, <4>1, <4>3
      <4> QED BY <2>2, <4>1, <4>2, <4>3
    <3> QED BY <3>1, <3>2
  <2>6. ~behind' => \A n \in used' : n < next' BY <1>1, <1>3, <2>1, <2>3 DEF MigrationInv, NumbersKnown
  <2>7. \E x \in Nat : (~behind' => x < next') /\ writing' \subseteq {x} BY <1>1, <1>3, <2>1
  <2>8. NumbersKnown' BY <1>1, <2>3, <2>5, <2>6, <2>7 DEF MigrationInv, NumbersKnown
  <2> QED BY <1>2, <2>4, <2>8 DEF MigrationInv
<1> QED BY <1>4, <1>5

\* A run begins, goes on to another project, or dies: nothing is copied of what it is at.
LEMMA RunKeeps ==
  ASSUME MigrationAssumption, MigrationInv,
         UNCHANGED <<source, past, target, used, writing, next, behind>>,
         run' \in RunStates \cup {NoRun}, run' = NoRun \/ run'.at \in {"end", "copy 1"},
         run' # NoRun /\ run'.migrated => used # {}
  PROVE  MigrationInv'
<1>1. MigrationTypeOK' BY DEF MigrationInv, MigrationTypeOK
<1>2. CopyFollows'
  <2>0. NoRun.at = "none" BY DEF NoRun
  <2>1. run'.at \in {"none", "end", "copy 1"} BY <2>0, Zenon
  <2> QED BY <2>1 DEF CopyFollows
<1>3. (StatesKnown /\ NumbersKnown)' BY DEF MigrationInv, StatesKnown, NumbersKnown
<1> QED BY <1>1, <1>2, <1>3 DEF MigrationInv

LEMMA RunsKeep ==
  ASSUME MigrationAssumption, MigrationInv,
         \/ \E chosen \in SUBSET Projects, dry \in BOOLEAN : RunBegins(chosen, dry)
         \/ ProjectLeft
         \/ RunDies
  PROVE  MigrationInv'
<1>t. MigrationTypeOK BY DEF MigrationInv
<1>1. ASSUME NEW chosen \in SUBSET Projects, NEW dry \in BOOLEAN, RunBegins(chosen, dry) PROVE MigrationInv'
  <2>1. run' \in RunStates /\ run'.at \in {"end", "copy 1"} /\ run'.migrated = FALSE
    BY <1>1, NextStarts DEF RunBegins
  <2> QED BY <1>1, <2>1, RunKeeps DEF RunBegins
<1>2. ASSUME ProjectLeft PROVE MigrationInv'
  <2>1. run # NoRun /\ run.todo \in SUBSET Projects /\ run.dry \in BOOLEAN /\ run.migrated \in BOOLEAN
    BY <1>t, <1>2, UnderWay DEF ProjectLeft
  <2>2. NextProject(run.todo, run.dry, run.migrated) BY <1>2 DEF ProjectLeft
  <2>3. run' \in RunStates /\ run'.at \in {"end", "copy 1"} /\ run'.migrated = run.migrated
    BY <2>1, <2>2, NextStarts
  <2> QED BY <1>2, <2>1, <2>3, RunKeeps DEF ProjectLeft, MigrationInv, NumbersKnown
<1>3. ASSUME RunDies PROVE MigrationInv' BY <1>3, RunKeeps DEF RunDies
<1> QED BY <1>1, <1>2, <1>3

\* The second set of rows is copied from a state that has the first at least as it was copied.
LEMMA CopyKeeps == ASSUME MigrationAssumption, MigrationInv, NEW i \in 1..2, Copy(i) PROVE MigrationInv'
<1>t. MigrationTypeOK BY DEF MigrationInv
<1> DEFINE p == run.project
<1>1. run # NoRun /\ run.at # "end" /\ run.at = (IF i = 1 THEN "copy 1" ELSE "copy 2")
  BY DEF Copy, Running
<1>2. /\ run \in [at : Steps, todo : SUBSET Projects, project : Projects, copy : Contents,
                  differs : BOOLEAN, dry : BOOLEAN, migrated : BOOLEAN]
  BY <1>t, <1>1, UnderWay
<1>3. /\ run' = [run EXCEPT !.at = IF i = 1 THEN "copy 2" ELSE "check 1", !.copy[i] = source[p][i]]
      /\ UNCHANGED <<source, past, target, used, writing, next, behind>>
  BY DEF Copy
<1>4. p \in Projects /\ source[p] \in Contents /\ source[p] \in past[p]
  BY <1>t, <1>2 DEF MigrationTypeOK, MigrationInv, StatesKnown
<1> DEFINE c == [run.copy EXCEPT ![i] = source[p][i]]
<1>5. /\ c \in Contents /\ c[i] = source[p][i] /\ \A j \in 1..2 : j # i => c[j] = run.copy[j]
  <2>1. /\ c[i] = source[p][i] /\ \A j \in 1..2 : j # i => c[j] = run.copy[j]
    BY <1>2 DEF Contents
  <2>2. c[1] \in Changes /\ c[2] \in Changes BY <1>2, <1>4, <2>1 DEF Contents
  <2>3. c = <<c[1], c[2]>> BY <1>2 DEF Contents
  <2> HIDE DEF c
  <2> QED BY <2>1, <2>2, <2>3 DEF Contents
<1>6. /\ run'.at = IF i = 1 THEN "copy 2" ELSE "check 1"
      /\ run'.copy = c /\ run'.project = p /\ run'.migrated = run.migrated
      /\ run' \in [at : Steps, todo : SUBSET Projects, project : Projects, copy : Contents,
                   differs : BOOLEAN, dry : BOOLEAN, migrated : BOOLEAN]
  BY <1>2, <1>3, <1>5 DEF Steps
<1> HIDE DEF c
<1>7. MigrationTypeOK' BY <1>t, <1>3, <1>6 DEF MigrationTypeOK, RunStates
<1>8. CopyFollows'
  <2>1. source[p][1] \in Nat BY <1>4 DEF Contents, Changes
  <2>2. CASE i = 1
    <3>1. run'.at = "copy 2" /\ run'.copy[1] = source'[run'.project][1] BY <1>3, <1>5, <1>6, <2>2
    <3>2. run'.copy[1] <= source'[run'.project][1] BY <1>3, <1>6, <2>1, <3>1
    <3> QED BY <3>1, <3>2 DEF CopyFollows
  <2>3. CASE i = 2
    <3>i. i # 1 BY <2>3
    <3>0. run.at = "copy 2" BY <1>1, <3>i, Zenon
    <3>1. run.copy[1] <= source[p][1] BY <3>0 DEF MigrationInv, CopyFollows
    <3>2. source[p][2] = c[2] /\ c[1] <= source[p][1] /\ source[p][1] <= source[p][1]
      BY <1>5, <2>1, <2>3, <3>1
    <3> QED BY <1>3, <1>4, <1>6, <2>3, <3>2 DEF CopyFollows
  <2> QED BY <2>2, <2>3
<1>9. (StatesKnown /\ NumbersKnown)' BY <1>1, <1>3, <1>6 DEF MigrationInv, StatesKnown, NumbersKnown
<1> QED BY <1>7, <1>8, <1>9 DEF MigrationInv

\* What is unchanged when it is compared was as copied when the rest was copied.
LEMMA CheckKeeps == ASSUME MigrationAssumption, MigrationInv, NEW i \in 1..2, Check(i) PROVE MigrationInv'
<1>t. MigrationTypeOK BY DEF MigrationInv
<1> DEFINE p == run.project
<1>1. run # NoRun /\ run.at # "end" /\ run.at = (IF i = 1 THEN "check 1" ELSE "check 2")
  BY DEF Check, Running
<1>2. run \in [at : Steps, todo : SUBSET Projects, project : Projects, copy : Contents,
               differs : BOOLEAN, dry : BOOLEAN, migrated : BOOLEAN]
  BY <1>t, <1>1, UnderWay
<1>3. UNCHANGED <<source, past, writing, next>> BY DEF Check
<1>4. p \in Projects /\ source[p] \in Contents BY <1>t, <1>2 DEF MigrationTypeOK
<1>5. CASE i = 1
  <2>1. run' = [run EXCEPT !.at = "check 2", !.differs = Mismatch(1)] /\ UNCHANGED <<target, used, behind>>
    BY <1>5 DEF Check
  <2>2. Mismatch(1) \in BOOLEAN BY DEF Mismatch
  <2>3. /\ run'.at = "check 2" /\ run'.differs = Mismatch(1) /\ run'.copy = run.copy /\ run'.project = p
        /\ run'.migrated = run.migrated
        /\ run' \in [at : Steps, todo : SUBSET Projects, project : Projects, copy : Contents,
                     differs : BOOLEAN, dry : BOOLEAN, migrated : BOOLEAN]
    BY <1>2, <2>1, <2>2 DEF Steps
  <2>4. MigrationTypeOK' BY <1>t, <1>3, <2>1, <2>3 DEF MigrationTypeOK, RunStates
  <2>5. ASSUME ~Mismatch(1) PROVE run.copy \in past[p]
    <3>1. PICK s \in past[p] : s[2] = run.copy[2] /\ run.copy[1] <= s[1] /\ s[1] <= source[p][1]
      BY <1>1, <1>5 DEF MigrationInv, CopyFollows
    <3>2. s \in Contents BY <1>t, <1>4 DEF MigrationTypeOK
    <3>3. run.copy[1] \in Nat /\ s[1] \in Nat /\ source[p][1] = run.copy[1]
      BY <1>2, <2>5, <3>2 DEF Mismatch, Contents, Changes
    <3>4. s[1] = run.copy[1] BY <3>1, <3>3
    <3>5. s = run.copy BY <1>2, <3>1, <3>2, <3>4 DEF Contents
    <3> QED BY <3>5
  <2>6. CopyFollows' BY <1>3, <2>3, <2>5 DEF CopyFollows
  <2>7. (StatesKnown /\ NumbersKnown)' BY <1>1, <1>3, <2>1, <2>3 DEF MigrationInv, StatesKnown, NumbersKnown
  <2> QED BY <2>4, <2>6, <2>7 DEF MigrationInv
<1>6. CASE i = 2 /\ (run.differs \/ Mismatch(2) \/ run.dry)
  <2>0. i # 1 BY <1>6
  <2>1. NextProject(run.todo, run.dry, run.migrated) /\ UNCHANGED <<target, used, behind>>
    BY <1>6, <2>0, Zenon DEF Check
  <2>2. run' \in RunStates /\ run'.at \in {"end", "copy 1"} /\ run'.migrated = run.migrated
    BY <1>2, <2>1, NextStarts
  <2> QED BY <1>1, <1>3, <2>1, <2>2, RunKeeps DEF MigrationInv, NumbersKnown
<1>7. CASE i = 2 /\ ~(run.differs \/ Mismatch(2) \/ run.dry)
  <2> DEFINE n == SeqOf[p]
  <2>i. i # 1 BY <1>7
  <2>0. run.at = "check 2" BY <1>1, <2>i, Zenon
  <2>1. /\ target' = [target EXCEPT ![p] = run.copy] /\ used' = used \cup {n} /\ behind' = TRUE
        /\ NextProject(run.todo, FALSE, TRUE)
    BY <1>7, <2>i, Zenon DEF Check
  <2>2. run' \in RunStates /\ run'.at \in {"end", "copy 1"} BY <1>2, <2>1, NextStarts
  <2>3. n \in Nat /\ used \subseteq Nat BY <1>t, <1>4 DEF MigrationAssumption, MigrationTypeOK
  <2>4. run.copy \in Contents BY <1>2
  <2>5. MigrationTypeOK' BY <1>t, <1>3, <2>1, <2>2, <2>3, <2>4 DEF MigrationTypeOK
  <2>6. run.copy \in past[p] BY <1>7, <2>0, Zenon DEF MigrationInv, CopyFollows
  <2>7. StatesKnown' BY <1>t, <1>3, <2>1, <2>6 DEF MigrationInv, StatesKnown, MigrationTypeOK
  <2>8. CopyFollows' BY <2>2 DEF CopyFollows
  <2>9. \E k \in used' : \A m \in used' : m <= k
    <3>1. CASE used = {} BY <2>1, <2>3, <3>1
    <3>2. CASE used # {}
      <4>1. PICK k \in used : \A m \in used : m <= k BY <3>2 DEF MigrationInv, NumbersKnown
      <4>2. CASE k < n BY <2>1, <2>3, <4>1, <4>2
      <4>3. CASE n <= k BY <2>1, <2>3, <4>1, <4>3
      <4> QED BY <2>3, <4>1, <4>2, <4>3
    <3> QED BY <3>1, <3>2
  <2>10. NumbersKnown' BY <1>3, <2>1, <2>9 DEF MigrationInv, NumbersKnown
  <2> QED BY <2>5, <2>7, <2>8, <2>10 DEF MigrationInv
<1> QED BY <1>5, <1>6, <1>7

\* The sequence is set past the largest number there is.
LEMMA LastStepKeeps == ASSUME MigrationAssumption, MigrationInv, RunEnds PROVE MigrationInv'
<1>t. MigrationTypeOK BY DEF MigrationInv
<1>1. run # NoRun /\ run' = NoRun /\ UNCHANGED <<source, past, target, used, writing>>
  BY DEF RunEnds, Running
<1>2. CASE ~run.migrated BY <1>1, <1>2, RunKeeps DEF RunEnds
<1>3. CASE run.migrated
  <2>1. next' = Largest + 1 /\ behind' = (\E n \in writing : n > Largest) BY <1>3 DEF RunEnds
  <2>2. Largest \in used /\ \A m \in used : m <= Largest
    BY <1>1, <1>3 DEF MigrationInv, NumbersKnown, Largest
  <2>3. used \subseteq Nat BY <1>t DEF MigrationTypeOK
  <2> HIDE DEF Largest
  <2>4. next' \in Nat /\ \A m \in used : m < next' BY <2>1, <2>2, <2>3
  <2>5. MigrationTypeOK' BY <1>t, <1>1, <2>1, <2>4 DEF MigrationTypeOK
  <2>6. (CopyFollows /\ StatesKnown)' BY <1>1 DEF MigrationInv, CopyFollows, StatesKnown, NoRun
  <2>7. \E w \in Nat : (~behind' => w < next') /\ writing' \subseteq {w}
    <3>1. PICK w \in Nat : writing \subseteq {w} BY DEF MigrationInv, NumbersKnown
    <3>2. Largest \in Nat BY <2>2, <2>3
    <3>3. CASE writing = {} BY <1>1, <2>1, <3>2, <3>3, 0 \in Nat, 0 < Largest + 1
    <3>4. CASE writing # {}
      <4>1. w \in writing BY <3>1, <3>4
      <4>2. ~behind' => w < next' BY <2>1, <3>2, <4>1
      <4> QED BY <1>1, <3>1, <4>2
    <3> QED BY <3>3, <3>4
  <2>8. NumbersKnown' BY <1>1, <2>1, <2>4, <2>7 DEF MigrationInv, NumbersKnown
  <2> QED BY <2>5, <2>6, <2>8 DEF MigrationInv
<1> QED BY <1>2, <1>3

LEMMA MigrationStep == ASSUME MigrationAssumption, MigrationInv, [MigrationNext]_migrationVars PROVE MigrationInv'
<1>1. ASSUME NEW p \in Projects, NEW tables \in {{1}, {2}, {1, 2}}, SourceChanges(p, tables) PROVE MigrationInv'
  BY <1>1, SourceKeeps
<1>2. ASSUME EventWritten \/ EventCommits \/ EventRollsBack PROVE MigrationInv' BY <1>2, EventKeeps
<1>3. ASSUME \/ \E chosen \in SUBSET Projects, dry \in BOOLEAN : RunBegins(chosen, dry)
             \/ ProjectLeft \/ RunDies
      PROVE  MigrationInv'
  BY <1>3, RunsKeep
<1>4. ASSUME NEW i \in 1..2, Copy(i) \/ Check(i) PROVE MigrationInv' BY <1>4, CopyKeeps, CheckKeeps
<1>5. ASSUME RunEnds PROVE MigrationInv' BY <1>5, LastStepKeeps
<1>6. ASSUME UNCHANGED migrationVars PROVE MigrationInv'
  BY <1>6 DEF migrationVars, MigrationInv, MigrationTypeOK, CopyFollows, StatesKnown, NumbersKnown
<1> QED BY <1>1, <1>2, <1>3, <1>4, <1>5, <1>6 DEF MigrationNext

\* The migration (run_migration): a project is copied as it was at one moment, whatever is
\* written to the source between its statements, and the sequence of the deploy events, once
\* advanced, gives out no number that is taken, unless one stood open above all that were
\* committed - for any projects, numbers and runs.
THEOREM CopyStaysOneMoment == ASSUME MigrationAssumption PROVE MigrationSpec => []CopyIsOneMoment
<1>1. MigrationInit => MigrationInv BY NothingMigrated
<1>2. MigrationInv /\ [MigrationNext]_migrationVars => MigrationInv' BY MigrationStep
<1>3. MigrationInv => CopyIsOneMoment BY DEF MigrationInv, StatesKnown, NumbersKnown, CopyIsOneMoment
<1> QED BY <1>1, <1>2, <1>3, PTL DEF MigrationSpec
=============================================================================
