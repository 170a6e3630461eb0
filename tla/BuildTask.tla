------------------------------- MODULE BuildTask -------------------------------
(***************************************************************************)
(* What the build stage promises about one task of the plan, without its   *)
(* attempts, its commits and the other tasks: it is worked on by one       *)
(* dispatch at a time, it is done or failed by the turn that works on it   *)
(* and by nothing else, what is done stays done, and whatever becomes of a *)
(* dispatch, the next one finds the task to do again.                      *)
(*                                                                         *)
(* BuildRound implements it for the task it follows, PhaseBuild for every  *)
(* task of the plan: the second shows of a task what the attempts of the   *)
(* first come to.                                                          *)
(***************************************************************************)
VARIABLES
  armed,    \* the row works, at the build stage
  task,     \* status of the task; "absent" before the plan is written
  at        \* the dispatch: "rest", in the "round" between tasks, in the "turn" of this task

taskVars == <<armed, task, at>>

Init == ~armed /\ task \in {"absent", "todo"} /\ at = "rest"

\* The plan is written, anew as long as nothing was built of it.
Plan ==
  /\ ~armed /\ at = "rest" /\ {task, task'} \subseteq {"absent", "todo"}
  /\ UNCHANGED <<armed, at>>

\* The Manager arms the row, under a paused round too; a failed task may be retried.
Arm ==
  /\ ~armed /\ armed'
  /\ task' \in IF task = "failed" THEN {"failed", "todo"} ELSE {task}
  /\ UNCHANGED at

Pause == armed /\ ~armed' /\ UNCHANGED <<task, at>>

\* A dispatch enters the build: what a dead one left in progress is to do again,
\* and the one task of a fast fix is made.
Enter ==
  /\ at = "rest" /\ at' = "round" /\ armed'
  /\ task' \in CASE task = "in_progress" -> {"todo"}
                 [] task = "absent" -> {"absent", "todo"}
                 [] OTHER -> {task}

Pick == at = "round" /\ armed /\ task = "todo" /\ task' = "in_progress" /\ at' = "turn" /\ armed'

Done == at = "turn" /\ task = "in_progress" /\ task' = "done" /\ at' = "round" /\ UNCHANGED armed
Fail == at = "turn" /\ task = "in_progress" /\ task' = "failed" /\ at' = "rest" /\ ~armed'

\* The dispatch ends without a word on the task: the round is over, the agent asks,
\* its answer is lost, the process dies.
HandBack == at' = "rest" /\ ~armed' /\ UNCHANGED task

Next == Plan \/ Arm \/ Pause \/ Enter \/ Pick \/ Done \/ Fail \/ HandBack

Spec == Init /\ [][Next]_taskVars
=============================================================================
