------------------------------ MODULE WorkItems ------------------------------
(***************************************************************************)
(* The work of one version: its epics, their feats, their tasks, and the   *)
(* statuses that roll up from one to the next until the version may be     *)
(* released.  A task update rolls up in its own transaction, from what it  *)
(* reads there; other writes set a status and roll nothing up.             *)
(*                                                                         *)
(* The engine reports its tasks through the same roll-up.  Titles, numbers *)
(* and estimates are left out.                                             *)
(***************************************************************************)
EXTENDS Naturals

CONSTANTS
  Tasks, FeatRows, Epics,  \* slots for rows
  FeatOf, EpicOf,       \* the feat of each task, the epic of each feat
  Updates,              \* slots for task updates under way
  Reported              \* bound: the statuses requests give

NoUpdate == [task |-> "none"]

VARIABLES
  tasks, feats, epics,  \* committed statuses, "none" where there is no row
  updates,              \* task updates that have rolled up and not committed
  unrolled,             \* tasks and feats added since their parent was rolled up
  mixed                 \* epics with a status that came from elsewhere (see MayBeOff)

workVars == <<tasks, feats, epics, updates, unrolled, mixed>>

-----------------------------------------------------------------------------
TasksOf(f) == {t \in Tasks : FeatOf[t] = f}
FeatsOf(e) == {f \in FeatRows : EpicOf[f] = e}
EpicOfTask(t) == EpicOf[FeatOf[t]]
Statuses(of, members) == {of[m] : m \in members} \ {"none"}

\* Slip: one task done is taken for all.
RollFeatByAny(now, s) ==
  IF s = {} THEN now ELSE IF "done" \in s THEN "done" ELSE "todo"

\* recompute_feat_status and recompute_epic_status, of the statuses below; an
\* empty parent keeps its own.
RollFeat(now, s) ==
  IF s = {} THEN now
  ELSE IF s = {"done"} THEN "done"
  ELSE IF "in_progress" \in s THEN "in_progress"
  ELSE IF "failed" \in s THEN "failed" ELSE "todo"

RollEpic(now, s) ==
  IF s = {} THEN now
  ELSE IF s = {"done"} THEN "done"
  ELSE IF s \cap {"in_progress", "failed"} # {} THEN "in_progress" ELSE "planned"

\* The epic's status may no longer follow from its tasks: it, or a feat, was set
\* by hand, or an update rolled up beside another update or an addition.
MayBeOff(e) == mixed' = mixed \cup {e}
BeingUpdated(t) == \E u \in Updates : updates[u] # NoUpdate /\ updates[u].task = t
Beside(e)   == IF \E t \in Tasks : EpicOfTask(t) = e /\ BeingUpdated(t) THEN MayBeOff(e) ELSE UNCHANGED mixed

-----------------------------------------------------------------------------
\* task.update, or the engine's report: the new status is rolled up over what is
\* committed; the epic is looked at only when the feat's status changes.
UpdateBegins(u, t, status) ==
  LET f == FeatOf[t]
      e == EpicOf[f]
      feat == RollFeat(feats[f], Statuses([tasks EXCEPT ![t] = status], TasksOf(f)))
      epic == IF feat = feats[f] THEN epics[e]
              ELSE RollEpic(epics[e], Statuses([feats EXCEPT ![f] = feat], FeatsOf(e)))
  IN /\ updates[u] = NoUpdate /\ tasks[t] \notin {"none", status}
     /\ updates' = [updates EXCEPT ![u] =
          [task |-> t, status |-> status,
           feat |-> IF feat = feats[f] THEN "kept" ELSE feat,
           epic |-> IF epic = epics[e] THEN "kept" ELSE epic]]
     /\ Beside(e)
     /\ UNCHANGED <<tasks, feats, epics, unrolled>>

\* Its commit writes what it changed.
UpdateCommits(u) ==
  LET r == updates[u]
      f == FeatOf[r.task]
      Written(now, new) == IF new = "kept" THEN now ELSE new
  IN /\ r # NoUpdate
     /\ tasks' = [tasks EXCEPT ![r.task] = r.status]
     /\ feats' = [feats EXCEPT ![f] = Written(@, r.feat)]
     /\ epics' = [epics EXCEPT ![EpicOf[f]] = Written(@, r.epic)]
     /\ unrolled' = unrolled \ (TasksOf(f) \cup IF r.feat = "kept" THEN {} ELSE FeatsOf(EpicOf[f]))
     /\ updates' = [updates EXCEPT ![u] = NoUpdate]
     /\ UNCHANGED mixed

\* It fails, or the process ends: nothing of it remains.
UpdateIsLost(u) ==
  /\ updates[u] # NoUpdate
  /\ updates' = [updates EXCEPT ![u] = NoUpdate]
  /\ UNCHANGED <<tasks, feats, epics, unrolled, mixed>>

\* task.create: no roll-up, so a feat that is done stays so.
CreateTask(t) ==
  /\ tasks[t] = "none" /\ feats[FeatOf[t]] # "none"
  /\ tasks' = [tasks EXCEPT ![t] = "todo"]
  /\ unrolled' = unrolled \cup {t}
  /\ Beside(EpicOfTask(t))
  /\ UNCHANGED <<feats, epics, updates>>

DeleteTask(t) ==
  /\ tasks[t] # "none" /\ ~BeingUpdated(t)
  /\ tasks' = [tasks EXCEPT ![t] = "none"]
  /\ unrolled' = unrolled \ {t}
  /\ UNCHANGED <<feats, epics, updates, mixed>>

\* feat.create, and a delete that takes the tasks along.
CreateFeat(f) ==
  /\ feats[f] = "none" /\ epics[EpicOf[f]] # "none"
  /\ feats' = [feats EXCEPT ![f] = "todo"]
  /\ unrolled' = unrolled \cup {f}
  /\ Beside(EpicOf[f])
  /\ UNCHANGED <<tasks, epics, updates>>

DeleteFeat(f) ==
  /\ feats[f] # "none" /\ \A t \in TasksOf(f) : ~BeingUpdated(t)
  /\ feats' = [feats EXCEPT ![f] = "none"]
  /\ tasks' = [t \in Tasks |-> IF FeatOf[t] = f THEN "none" ELSE tasks[t]]
  /\ unrolled' = unrolled \ ({f} \cup TasksOf(f))
  /\ UNCHANGED <<epics, updates, mixed>>

\* feat.update by hand: the epic is not looked at.
SetFeat(f, status) ==
  /\ feats[f] \notin {"none", status}
  /\ feats' = [feats EXCEPT ![f] = status]
  /\ MayBeOff(EpicOf[f])
  /\ UNCHANGED <<tasks, epics, updates, unrolled>>

\* epic.update by hand (one that begins its work activates the version: module
\* Release).
SetEpic(e, status) ==
  /\ epics[e] \notin {"none", status}
  /\ epics' = [epics EXCEPT ![e] = status]
  /\ MayBeOff(e)
  /\ UNCHANGED <<tasks, feats, updates, unrolled>>

CreateEpic(e) ==
  /\ epics[e] = "none"
  /\ epics' = [epics EXCEPT ![e] = "planned"]
  /\ UNCHANGED <<tasks, feats, updates, unrolled, mixed>>

DeleteEpic(e) ==
  /\ epics[e] # "none" /\ \A t \in Tasks : EpicOfTask(t) = e => ~BeingUpdated(t)
  /\ epics' = [epics EXCEPT ![e] = "none"]
  /\ feats' = [f \in FeatRows |-> IF EpicOf[f] = e THEN "none" ELSE feats[f]]
  /\ tasks' = [t \in Tasks |-> IF EpicOfTask(t) = e THEN "none" ELSE tasks[t]]
  /\ unrolled' = unrolled \ (FeatsOf(e) \cup {t \in Tasks : EpicOfTask(t) = e})
  /\ mixed' = mixed \ {e}
  /\ UNCHANGED updates

\* version.release lets a version through whose epics are all done (the step
\* itself is in module Release).
Releasable == \A e \in Epics : epics[e] \in {"none", "done"}

-----------------------------------------------------------------------------
WorkInit ==
  /\ tasks = [t \in Tasks |-> "none"] /\ feats = [f \in FeatRows |-> "none"]
  /\ epics = [e \in Epics |-> "none"]
  /\ updates = [u \in Updates |-> NoUpdate]
  /\ unrolled = {} /\ mixed = {}

WorkNext ==
  \/ \E u \in Updates, t \in Tasks, status \in Reported : UpdateBegins(u, t, status)
  \/ \E u \in Updates : UpdateCommits(u) \/ UpdateIsLost(u)
  \/ \E t \in Tasks : CreateTask(t) \/ DeleteTask(t)
  \/ \E f \in FeatRows : CreateFeat(f) \/ DeleteFeat(f) \/ \E status \in Reported : SetFeat(f, status)
  \/ \E e \in Epics : CreateEpic(e) \/ DeleteEpic(e) \/ \E status \in Reported : SetEpic(e, status)

WorkSpec == WorkInit /\ [][WorkNext]_workVars

-----------------------------------------------------------------------------
\* The release gate reads epics only (version.release); behind done epics every
\* task is done, unless the epic's statuses were set by hand or beside another
\* update, or the task or its feat was added and has not been rolled up since.
ReleasableIsDone ==
  Releasable =>
    \A t \in Tasks :
      \/ tasks[t] \in {"none", "done"}
      \/ EpicOfTask(t) \in mixed
      \/ {t, FeatOf[t]} \cap unrolled # {}
=============================================================================
