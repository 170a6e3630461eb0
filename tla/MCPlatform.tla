----------------------------- MODULE MCPlatform -----------------------------
(* The components beside the conversation and the phases, checked in one     *)
(* run.  They share no state: a behaviour belongs to the component that      *)
(* slice names, and the variables of the others keep their initial values.   *)
EXTENDS BuildRound, AgentTerminal, Instances, ReleaseSmoke, AgentCall, Knowledge, PlanRound,
        Customers, WorkItems, Backlog, Migration, ProjectCreation, TLC, PlatformClaims

CONSTANTS
  ta, tb, fa, ea,   \* WorkItems
  y1, y2,           \* Migration
  ver1, ver2        \* Board

\* Two cells of two customers whose names join to the same: a-b/c and a/b-c.
MCCells == {[env |-> "uat", customer |-> <<"a">>, app |-> <<"b", "c">>],
            [env |-> "uat", customer |-> <<"a", "b">>, app |-> <<"c">>]}

\* Two tasks of one feat.
MCFeatOf == [t \in {ta, tb} |-> fa]
MCEpicOf == [f \in {fa} |-> ea]

\* The deploy events of the two projects carry the numbers 1 and 2.
MCSeqOf == (y1 :> 1) @@ (y2 :> 2)

VARIABLES
  slice,
  server, page, board, socket, retry, answers

D == INSTANCE Board WITH Versions <- {ver1, ver2}, Recent <- 1, MaxChange <- 1, MaxAnswers <- 1

tV == <<rows, live, registered, debug, midturn, outlived, ending, output, viewers, missed, turn>>
iV == <<envfile, volume, running, jobs, minted, excused>>
sV == <<checkout, stack, seeded, runs, orphan, overlaps>>
cV == customerVars
pV == projectVars
wV == workVars
bV == backlogVars
aV == <<call, result, alive, strays>>
mV == migrationVars
kV == <<disk, index, req, stale>>
lV == <<register, round, at, armed, skeleton, filled, reasked, plan, declared, outcome>>
dV == <<server, page, board, socket, retry, answers>>
vars == <<slice, roundVars, tV, iV, sV, cV, pV, wV, bV, aV, mV, kV, lV, dV>>

Init ==
  /\ slice \in {"round", "terminal", "instance", "smoke", "customers", "project", "work", "backlog",
               "call", "migration", "knowledge", "plan", "board"}
  /\ RoundInit /\ TerminalInit /\ InstanceInit /\ SmokeInit
  /\ CustomersInit /\ ProjectInit /\ WorkInit /\ BacklogInit
  /\ CallInit /\ MigrationInit /\ KnowledgeInit /\ PlanInit /\ D!BoardInit
  /\ slice # "plan" => register = "navrh"

Next ==
  \/ slice = "round" /\ RoundNext /\ UNCHANGED <<slice, tV, iV, sV, cV, pV, wV, bV, aV, mV, kV, lV, dV>>
  \/ slice = "terminal" /\ TerminalNext /\ UNCHANGED <<slice, roundVars, iV, sV, cV, pV, wV, bV, aV, mV, kV, lV, dV>>
  \/ slice = "instance" /\ InstanceNext /\ UNCHANGED <<slice, roundVars, tV, sV, cV, pV, wV, bV, aV, mV, kV, lV, dV>>
  \/ slice = "smoke" /\ SmokeNext /\ UNCHANGED <<slice, roundVars, tV, iV, cV, pV, wV, bV, aV, mV, kV, lV, dV>>
  \/ slice = "customers" /\ CustomersNext /\ UNCHANGED <<slice, roundVars, tV, iV, sV, pV, wV, bV, aV, mV, kV, lV, dV>>
  \/ slice = "project" /\ ProjectNext /\ UNCHANGED <<slice, roundVars, tV, iV, sV, cV, wV, bV, aV, mV, kV, lV, dV>>
  \/ slice = "work" /\ WorkNext /\ UNCHANGED <<slice, roundVars, tV, iV, sV, cV, pV, bV, aV, mV, kV, lV, dV>>
  \/ slice = "backlog" /\ BacklogNext /\ UNCHANGED <<slice, roundVars, tV, iV, sV, cV, pV, wV, aV, mV, kV, lV, dV>>
  \/ slice = "call" /\ CallNext /\ UNCHANGED <<slice, roundVars, tV, iV, sV, cV, pV, wV, bV, mV, kV, lV, dV>>
  \/ slice = "migration" /\ MigrationNext /\ UNCHANGED <<slice, roundVars, tV, iV, sV, cV, pV, wV, bV, aV, kV, lV, dV>>
  \/ slice = "knowledge" /\ KnowledgeNext /\ UNCHANGED <<slice, roundVars, tV, iV, sV, cV, pV, wV, bV, aV, mV, lV, dV>>
  \/ slice = "plan" /\ PlanNext /\ UNCHANGED <<slice, roundVars, tV, iV, sV, cV, pV, wV, bV, aV, mV, kV, dV>>
  \/ slice = "board" /\ D!BoardNext /\ UNCHANGED <<slice, roundVars, tV, iV, sV, cV, pV, wV, bV, aV, mV, kV, lV>>

\* The fairness of BuildRound, of AgentTerminal and of Board, each in its slice.
RoundGoes == slice = "round" /\ RoundStep /\ UNCHANGED <<slice, tV, iV, sV, cV, pV, wV, bV, aV, mV, kV, lV, dV>>
TerminalGoes ==
  slice = "terminal" /\ TerminalStep /\ UNCHANGED <<slice, roundVars, iV, sV, cV, pV, wV, bV, aV, mV, kV, lV, dV>>
BoardTicks ==
  slice = "board" /\ D!Tick /\ UNCHANGED <<slice, roundVars, tV, iV, sV, cV, pV, wV, bV, aV, mV, kV, lV>>
BoardHears ==
  slice = "board" /\ D!TickHeard /\ UNCHANGED <<slice, roundVars, tV, iV, sV, cV, pV, wV, bV, aV, mV, kV, lV>>

Spec ==
  Init /\ [][Next]_vars /\ WF_roundVars(RoundGoes) /\ WF_tV(TerminalGoes)
  /\ WF_dV(BoardTicks) /\ SF_dV(BoardHears)

-----------------------------------------------------------------------------
(* The property of Board, which is instanced; those of the modules extended are
   listed as they stand *)

\* Boards: a page left open comes to show its version as it is.
BoardHeals == D!BoardHeals
=============================================================================
