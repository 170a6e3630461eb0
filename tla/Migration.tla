------------------------------ MODULE Migration ------------------------------
(***************************************************************************)
(* The migration of projects from the database of version 1 to the one of  *)
(* version 2: run_migration selects projects, and for each copies its rows *)
(* table by table in one transaction of the target, reads the source once  *)
(* more, compares, and commits or rolls back; at the end it advances the   *)
(* sequence of the deploy events past the numbers it has copied.           *)
(*                                                                         *)
(* Both databases are in use meanwhile.  The source is read statement by   *)
(* statement, each at its own snapshot (READ COMMITTED): changes fall      *)
(* between a copy and its comparison.  Of a project's eleven tables the    *)
(* model keeps two that are read one after the other, as the number of the *)
(* change each row set stands for (a change back counts as one); the row   *)
(* of the project itself is read once, when the run begins, and left out.  *)
(* So are the registry of credentials, the trees on disk, the report, and  *)
(* the guards that refuse a whole run before it writes.  A refused or      *)
(* skipped project is no step of the target.                               *)
(***************************************************************************)
EXTENDS Naturals, FiniteSets

CONSTANTS
  Projects,   \* slugs in the source
  SeqOf,      \* of each the number its deploy event carries
  MaxChange,  \* bound on the changes of a project in the source
  MaxSeq      \* bound on the numbers the target gives out

Steps    == {"copy 1", "copy 2", "check 1", "check 2"}
Changes  == 0..MaxChange
Contents == Changes \X Changes
NotCopied   == <<>>

VARIABLES
  source,   \* the rows of each project in the source
  past,     \* every state these rows were in at one moment
  target,   \* the committed copy of each project, or NotCopied
  run,      \* the migration under way, or NoRun
  used,     \* numbers of the target's committed deploy events
  writing,  \* the number of a deploy event whose request has not committed yet
  next,     \* the number the target's sequence gives out next
  behind    \* a number may be taken that the sequence has not passed: one was copied since
            \* a run last set it, or stood open above the one the run set it to

migrationVars == <<source, past, target, run, used, writing, next, behind>>

NoRun == [at |-> "none"]
RunStates == [at : {"end"}, migrated : BOOLEAN] \cup
             [at : Steps, todo : SUBSET Projects, project : Projects, copy : Contents,
              differs : BOOLEAN, dry : BOOLEAN, migrated : BOOLEAN]

Running(step) == run # NoRun /\ run.at = step

-----------------------------------------------------------------------------
(* The databases in use *)

\* A transaction of version 1 changes either set of rows, or both.
SourceChanges(p, tables) ==
  /\ \A i \in tables : source[p][i] < MaxChange
  /\ source' = [source EXCEPT ![p] = [i \in 1..2 |-> IF i \in tables THEN @[i] + 1 ELSE @[i]]]
  /\ past' = [past EXCEPT ![p] = @ \cup {source'[p]}]
  /\ UNCHANGED <<target, run, used, writing, next, behind>>

\* Somebody writes a deploy event of the target; a number that is taken fails it.
\* That one request at a time writes one is a bound of the model.
EventWritten ==
  /\ writing = {} /\ next < MaxSeq /\ next' = next + 1
  /\ writing' = {next} \ used
  /\ UNCHANGED <<source, past, target, run, used, behind>>

EventCommits ==
  /\ writing # {} /\ writing' = {} /\ used' = used \cup writing
  /\ UNCHANGED <<source, past, target, run, next, behind>>

EventRollsBack ==
  /\ writing # {} /\ writing' = {}
  /\ UNCHANGED <<source, past, target, run, used, next, behind>>

-----------------------------------------------------------------------------
(* The run *)

\* The next project of the run in the order of the slugs, which CHOOSE stands
\* for, or the end.
NextProject(todo, dry, migrated) ==
  IF todo = {} THEN run' = [at |-> "end", migrated |-> migrated]
  ELSE LET p == CHOOSE p \in todo : TRUE
       IN run' = [at |-> "copy 1", todo |-> todo \ {p}, project |-> p, copy |-> <<0, 0>>,
                  differs |-> FALSE, dry |-> dry, migrated |-> migrated]

\* run_migration, its guards passed: the projects of this run.
RunBegins(chosen, dry) ==
  /\ run = NoRun /\ chosen # {}
  /\ NextProject(chosen, dry, FALSE)
  /\ UNCHANGED <<source, past, target, used, writing, next, behind>>

\* _migrate_one_project skips a slug the target has; any error rolls back.
ProjectLeft ==
  /\ run # NoRun /\ run.at # "end"
  /\ NextProject(run.todo, run.dry, run.migrated)
  /\ UNCHANGED <<source, past, target, used, writing, next, behind>>

\* copy_project
Copy(i) ==
  /\ Running(IF i = 1 THEN "copy 1" ELSE "copy 2")
  /\ target[run.project] = NotCopied
  /\ i = 2 => SeqOf[run.project] \notin used \cup writing
  /\ run' = [run EXCEPT !.at = IF i = 1 THEN "copy 2" ELSE "check 1",
                        !.copy[i] = source[run.project][i]]
  /\ UNCHANGED <<source, past, target, used, writing, next, behind>>

\* Slip: only the rows that were copied last are compared.
MismatchLast(i) == i = 2 /\ source[run.project][i] # run.copy[i]

\* _compare_rows, over rows read anew.
Mismatch(i) == source[run.project][i] # run.copy[i]

Check(i) ==
  /\ Running(IF i = 1 THEN "check 1" ELSE "check 2")
  /\ IF i = 1
     THEN /\ run' = [run EXCEPT !.at = "check 2", !.differs = Mismatch(1)]
          /\ UNCHANGED <<target, used, behind>>
     ELSE IF run.differs \/ Mismatch(2) \/ run.dry
     THEN /\ NextProject(run.todo, run.dry, run.migrated)
          /\ UNCHANGED <<target, used, behind>>
     ELSE /\ SeqOf[run.project] \notin used \cup writing
          /\ target' = [target EXCEPT ![run.project] = run.copy]
          /\ used' = used \cup {SeqOf[run.project]}
          /\ behind' = TRUE
          /\ NextProject(run.todo, FALSE, TRUE)
  /\ UNCHANGED <<source, past, writing, next>>

Largest == CHOOSE n \in used : \A m \in used : m <= n

\* advance_deploy_seq, when the run has migrated anything.  It sets the sequence to
\* the largest number on record, which sets it back where an open request stands
\* above it.
RunEnds ==
  /\ Running("end") /\ run' = NoRun
  /\ IF run.migrated
     THEN next' = Largest + 1 /\ behind' = (\E n \in writing : n > Largest)
     ELSE UNCHANGED <<next, behind>>
  /\ UNCHANGED <<source, past, target, used, writing>>

\* The process dies; the open transaction is rolled back.
RunDies ==
  /\ run # NoRun /\ run' = NoRun
  /\ UNCHANGED <<source, past, target, used, writing, next, behind>>

-----------------------------------------------------------------------------

MigrationInit ==
  /\ source = [p \in Projects |-> <<0, 0>>] /\ past = [p \in Projects |-> {<<0, 0>>}]
  /\ target = [p \in Projects |-> NotCopied] /\ run = NoRun
  /\ used = {} /\ writing = {} /\ next = 1 /\ behind = FALSE

MigrationNext ==
  \/ \E p \in Projects, tables \in {{1}, {2}, {1, 2}} : SourceChanges(p, tables)
  \/ EventWritten \/ EventCommits \/ EventRollsBack
  \/ \E chosen \in SUBSET Projects, dry \in BOOLEAN : RunBegins(chosen, dry)
  \/ ProjectLeft \/ (\E i \in 1..2 : Copy(i) \/ Check(i)) \/ RunEnds \/ RunDies

MigrationSpec == MigrationInit /\ [][MigrationNext]_migrationVars

-----------------------------------------------------------------------------
(* Properties *)

MigrationTypeOK ==
  /\ source \in [Projects -> Contents] /\ past \in [Projects -> SUBSET Contents]
  /\ target \in [Projects -> Contents \cup {NotCopied}] /\ run \in RunStates \cup {NoRun}
  /\ used \subseteq Nat /\ writing \subseteq Nat /\ next \in Nat /\ behind \in BOOLEAN

\* What the target keeps of a project is what the source held at one moment, no
\* mixture of two, although no statement of the run shares a snapshot with another.
\* And once a run has advanced the sequence it gives out no number that is taken,
\* unless an event stood open, above all that were committed, when it did.
CopyIsOneMoment ==
  /\ \A p \in Projects : target[p] # NotCopied => target[p] \in past[p]
  /\ run = NoRun /\ ~behind => \A n \in used : n < next
=============================================================================
