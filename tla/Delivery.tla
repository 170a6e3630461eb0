------------------------------- MODULE Delivery -------------------------------
(***************************************************************************)
(* What the engine promises about a version, without its log, its plan or  *)
(* its dispatch tasks: the version is delivered through a fixed sequence   *)
(* of phases, and the Manager and the agent take turns at it.              *)
(*                                                                         *)
(* The Manager approves, starts the build, signs and re-opens, and only    *)
(* while the agent rests; the agent plans, completes the build and renews  *)
(* a signature, and only while it works.  Module Conversation implements   *)
(* this one.                                                               *)
(***************************************************************************)
VARIABLES
  phase,    \* how far the version has come
  working   \* whether it is the agent's turn

Phases == {"drafting", "specified", "planned", "building", "built", "delivered"}

Init == phase = "drafting" /\ working = FALSE

\* The Manager hands the version to the agent, or the agent hands it back; a
\* paused build may go on by itself when a message of the Manager waits.
HandOver   == working' \in BOOLEAN /\ phase' = phase

Approve    == ~working /\ phase = "drafting" /\ phase' = "specified" /\ working' = FALSE
StartBuild == ~working /\ phase = "planned" /\ phase' = "building" /\ working' = TRUE
Deliver    == ~working /\ phase = "built" /\ phase' = "delivered" /\ working' = FALSE
Reopen     == ~working /\ phase = "delivered" /\ phase' = "built" /\ working' = TRUE

Plan       == working /\ phase = "specified" /\ phase' = "planned" /\ working' \in BOOLEAN
Complete   == working /\ phase = "building" /\ phase' = "built" /\ working' \in BOOLEAN
Renew      == working /\ phase = "built" /\ phase' = "delivered" /\ working' \in BOOLEAN

Next == \/ HandOver \/ Approve \/ StartBuild \/ Deliver \/ Reopen
        \/ Plan \/ Complete \/ Renew

Spec == Init /\ [][Next]_<<phase, working>>
=============================================================================
