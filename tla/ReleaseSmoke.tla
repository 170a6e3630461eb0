---------------------------- MODULE ReleaseSmoke ----------------------------
(***************************************************************************)
(* The runtime floor of a verification: the project's compose stack is     *)
(* built from its checkout and booted, probed, asked for its release       *)
(* notes, handed to the acceptance script, and torn down.                  *)
(*                                                                         *)
(* The stack is named after the project, the runs belong to versions of    *)
(* it, and every step awaits a subprocess: runs of two versions, commits   *)
(* and restarts fall in between.  Left out: the rendered override and      *)
(* environment files (private to a run), and the texts of the details.     *)
(***************************************************************************)
EXTENDS Naturals

CONSTANTS
  Runs,        \* versions of the project under verification
  MaxCommit,   \* bound on the commits of the checkout
  MaxAsserted  \* bound on the assertions an acceptance run reports

Down   == 0    \* no container of the stack runs
Counts == 0..MaxAsserted
Kinds  == {"no compose", "lone backend", "web app", "worker"}
Floors == {"green", "red", "skipped", "none"}

VARIABLES
  checkout,  \* the commit checked out
  stack,     \* the commit the running containers were built from, or Down
  seeded,    \* the stack's volumes hold data of an earlier boot
  runs,      \* the runs: how far, what they booted and tested, whether they met
             \* data nobody left behind, their floors
  orphan,    \* a stack was left behind: its teardown failed, or never ran
  overlaps   \* runs that ran beside another run of the project

smokeVars == <<checkout, stack, seeded, runs, orphan, overlaps>>

Rest == [at |-> "rest", kind |-> "no compose", built |-> Down, tested |-> {},
         stale |-> FALSE, boot |-> "none", acceptance |-> "none"]

Busy == {r \in Runs : runs[r].at # "rest"}

-----------------------------------------------------------------------------
(* Verdicts *)

\* _evaluate_release_coverage: the anti-empty floor, and the declared minimum of
\* feature and of negative assertions.
CoverageMet(total, feature, negative, declared) ==
  total > 0 /\ feature >= declared[1] /\ negative >= declared[2]

\* A run whose boot is red records no acceptance.
BootRed(r)    == [runs EXCEPT ![r].at = "down", ![r].boot = "red"]
BootGreen(r)  == [runs EXCEPT ![r].at = "notes", ![r].tested = @ \cup {stack}]
Accepted(r, floor) ==
  [runs EXCEPT ![r].at = "down", ![r].boot = "green", ![r].acceptance = floor,
               ![r].tested = IF floor = "skipped" THEN @ ELSE @ \cup {stack}]

-----------------------------------------------------------------------------
(* The steps of _run_release_smoke *)

\* What the compose file declares decides before anything is started.
Begin(r, kind) ==
  /\ runs[r].at = "rest"
  /\ runs' = [runs EXCEPT ![r] =
       CASE kind = "no compose"   -> [Rest EXCEPT !.boot = "skipped", !.acceptance = "skipped"]
         [] kind = "lone backend" -> [Rest EXCEPT !.boot = "red", !.kind = kind]
         [] OTHER                 -> [Rest EXCEPT !.at = "up", !.kind = kind]]
  /\ overlaps' = IF Busy # {} /\ kind \in {"web app", "worker"}
                 THEN overlaps \cup Busy \cup {r} ELSE overlaps \ {r}
  /\ UNCHANGED <<checkout, stack, seeded, orphan>>

\* _boot_smoke_stack: up --build over whatever the project's stack is now.
Up(r) ==
  /\ runs[r].at = "up"
  /\ runs' = [runs EXCEPT ![r].at = "probe", ![r].built = checkout,
                          ![r].stale = seeded /\ ~orphan]
  /\ stack' = checkout /\ seeded' = TRUE
  /\ UNCHANGED <<checkout, orphan, overlaps>>

\* up fails or is killed at its limit, with some of its containers started.
UpFails(r) ==
  /\ runs[r].at = "up" /\ runs' = BootRed(r)
  /\ \/ UNCHANGED <<stack, seeded>>
     \/ stack' = checkout /\ seeded' = TRUE
  /\ UNCHANGED <<checkout, orphan, overlaps>>

\* _run_app_starts_smoke: the probes are retried, and then the boot is red.
Probe(r) ==
  /\ runs[r].at = "probe"
  /\ runs' = BootRed(r) \/ (stack # Down /\ runs' = BootGreen(r))
  /\ UNCHANGED <<checkout, stack, seeded, orphan, overlaps>>

\* _run_aktualizacie_gate: a web app serves the release notes of the version.
Notes(r) ==
  /\ runs[r].at = "notes"
  /\ \/ runs[r].kind = "web app" /\ runs' = BootRed(r)
     \/ /\ runs[r].kind = "web app" => stack # Down
        /\ runs' = [runs EXCEPT ![r].at = "script"]
  /\ UNCHANGED <<checkout, stack, seeded, orphan, overlaps>>

\* _run_release_acceptance without a script: mandatory for a web app.
NoScript(r) ==
  /\ runs[r].at = "script"
  /\ runs' = Accepted(r, IF runs[r].kind = "web app" THEN "red" ELSE "skipped")
  /\ UNCHANGED <<checkout, stack, seeded, orphan, overlaps>>

\* The script fails, or reports its assertions.
Script(r, total, feature, negative, declared) ==
  /\ runs[r].at = "script"
  /\ \/ runs' = Accepted(r, "red")
     \/ /\ stack # Down /\ feature + negative <= total
        /\ runs' = Accepted(r, IF CoverageMet(total, feature, negative, declared)
                               THEN "green" ELSE "red")
  /\ UNCHANGED <<checkout, stack, seeded, orphan, overlaps>>

\* Slip: down keeps the volumes.
Emptied == stack' = Down /\ orphan' = FALSE /\ UNCHANGED seeded

\* down -v
Removed == stack' = Down /\ seeded' = FALSE /\ orphan' = FALSE

\* The stack is torn down whatever happened; nobody looks whether that worked.
TearDown(r) ==
  /\ runs[r].at = "down"
  /\ runs' = [runs EXCEPT ![r].at = "rest", ![r].kind = Rest.kind]
  /\ Removed \/ (orphan' = TRUE /\ UNCHANGED <<stack, seeded>>)
  /\ UNCHANGED <<checkout, overlaps>>

\* The process dies: nobody tears the stack down.
SmokeRestart ==
  /\ Busy # {}
  /\ runs' = [r \in Runs |-> IF r \in Busy THEN Rest ELSE runs[r]]
  /\ orphan' = TRUE
  /\ UNCHANGED <<checkout, stack, seeded, overlaps>>

\* Work goes on in the checkout.
SmokeCommit ==
  /\ checkout < MaxCommit /\ checkout' = checkout + 1
  /\ UNCHANGED <<stack, seeded, runs, orphan, overlaps>>

SmokeInit ==
  /\ checkout = 1 /\ stack = Down /\ seeded = FALSE
  /\ runs = [r \in Runs |-> Rest] /\ orphan = FALSE /\ overlaps = {}

SmokeNext ==
  \/ \E r \in Runs, kind \in Kinds : Begin(r, kind)
  \/ \E r \in Runs : Up(r) \/ UpFails(r) \/ Probe(r) \/ Notes(r) \/ NoScript(r) \/ TearDown(r)
  \/ \E r \in Runs, total, feature, negative \in Counts, declared \in Counts \X Counts :
       Script(r, total, feature, negative, declared)
  \/ SmokeRestart \/ SmokeCommit

SmokeSpec == SmokeInit /\ [][SmokeNext]_smokeVars

-----------------------------------------------------------------------------
(* Properties *)

\* A floor that is green was measured on the very build this run booted, and on
\* an empty database, over commits, failed starts and teardowns and restarts -
\* unless another version's run shared the stack, or one had left it behind.
SmokeIsItsOwn ==
  \A r \in Runs \ overlaps : runs[r].at # "rest" \/ runs[r].boot = "green" =>
    /\ runs[r].tested \subseteq {runs[r].built}
    /\ runs[r].acceptance = "green" => runs[r].tested # {}
    /\ ~runs[r].stale
=============================================================================
