------------------------------- MODULE MCCore -------------------------------
(* The conversation and the runner, checked in one run.  They share no state: *)
(* a behaviour belongs to the component that slice names, and the variables   *)
(* of the other keep an initial value.                                        *)
EXTENDS MCConversation, MCRunner

VARIABLE slice

coreVars == <<slice, vars, runnerVars>>

CoreInit ==
  /\ slice \in {"conversation", "runner"} /\ Init /\ RunnerInit
  /\ IF slice = "runner" THEN head = c1 ELSE session

CoreNext ==
  \/ slice = "conversation" /\ Next /\ UNCHANGED <<slice, runnerVars>>
  \/ slice = "runner" /\ RunnerNext /\ UNCHANGED <<slice, vars>>

\* Weak fairness of the dispatch of the conversation, as in FairSpec; the runner
\* is only asked for what must never happen.
CoreSpec == CoreInit /\ [][CoreNext]_coreVars /\ WF_vars(Engine)
=============================================================================
