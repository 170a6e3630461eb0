--------------------------- MODULE ProjectCreation ---------------------------
(***************************************************************************)
(* How a project comes to be and how it goes: its row and its ports in the *)
(* database, its workspace on disk and its repository on GitHub.  Creating *)
(* one takes minutes (repository, init.sh, push, smoke build) inside one   *)
(* transaction that commits last; deleting one commits first and cleans up *)
(* after it.  Requests run in threads of their own, and a restart forgets  *)
(* them.                                                                   *)
(*                                                                         *)
(* A commit history is named by the run of init.sh that made it; init.sh,  *)
(* git and GitHub are outside.  The disk is followed for the projects with *)
(* a repository, whose history is compared with it.  The clean-ups of the  *)
(* UAT instance, the knowledge base and its index touch none of this.      *)
(***************************************************************************)
EXTENDS Naturals

CONSTANTS
  ProjectSlugs, \* projects, by slug
  Hosted,       \* the slugs whose creation names a repository, for it
  Blocks,       \* blocks of ports
  Creations,    \* slots for creations under way
  Deletions,    \* slots for deletions under way
  MaxGen        \* bound: creations that reach the disk

NoProject == [block |-> "none"]
Idle      == [at |-> "idle"]
Nothing   == 0

VARIABLES
  projects,   \* committed rows
  creations, deletions,
  git,        \* the history in the workspace's .git
  hosted,     \* slugs with a repository on GitHub
  remote,     \* the history in that repository
  gens,       \* lineages used
  swept       \* slugs a late clean-up hit

projectVars == <<projects, creations, deletions, git, hosted, remote, gens, swept>>

-----------------------------------------------------------------------------
HasRow(s)  == projects[s] # NoProject
Holders(b) == {s \in ProjectSlugs : HasRow(s) /\ projects[s].block = b}
\* The creations that have inserted their row: its unique slug keeps another
\* insert waiting until they commit or roll back.
Inserted(s) == {c \in Creations : creations[c] # Idle /\ creations[c].slug = s
                                  /\ creations[c].at \in {"scaffold", "push", "finish"}}
\* A creation that ends without a row.
Abort(c) == [creations EXCEPT ![c] = Idle]

\* Slip: the register is not asked.
AvailableAlways(b) == TRUE

\* check_port_available for each of the three ports.
Available(b) == Holders(b) = {}

\* create_project: ports are checked, long before the row is committed.
Request(c, s, b) ==
  /\ creations[c] = Idle /\ Available(b)
  /\ creations' = [creations EXCEPT ![c] =
       [at |-> IF s \in Hosted THEN "repo" ELSE "insert", slug |-> s, block |-> b,
        pushed |-> Nothing, vouched |-> TRUE]]
  /\ UNCHANGED <<projects, deletions, git, hosted, remote, gens, swept>>

\* create_github_repo: made, or found and reused.
RepoReady(c) ==
  LET s == creations[c].slug
  IN /\ creations[c].at = "repo"
     /\ hosted' = hosted \cup {s}
     /\ creations' = [creations EXCEPT ![c].at = "insert"]
     /\ UNCHANGED <<projects, deletions, git, remote, gens, swept>>

\* ... or refused, or made with the answer lost: the request fails.
RepoFails(c) ==
  /\ creations[c].at = "repo"
  /\ hosted' \in {hosted, hosted \cup {creations[c].slug}}
  /\ creations' = Abort(c)
  /\ UNCHANGED <<projects, deletions, git, remote, gens, swept>>

\* Slip: the uniqueness of the slug is left to the commit.
InsertUnchecked(c) ==
  /\ creations[c].at = "insert"
  /\ creations' = [creations EXCEPT ![c].at = "scaffold"]
  /\ UNCHANGED <<projects, deletions, git, hosted, remote, gens, swept>>

\* project_service.create: name and slug are looked up and the row is flushed,
\* with the first version and the UAT slug.
Insert(c) ==
  LET s == creations[c].slug
  IN /\ creations[c].at = "insert" /\ Inserted(s) = {}
     /\ creations' = IF HasRow(s) THEN Abort(c) ELSE [creations EXCEPT ![c].at = "scaffold"]
     /\ UNCHANGED <<projects, deletions, git, hosted, remote, gens, swept>>

\* init.sh fresh or over what an aborted creation left; charters and memory.
Scaffold(c) ==
  LET s == creations[c].slug
  IN /\ creations[c].at = "scaffold" /\ s \in Hosted /\ gens < MaxGen
     /\ gens' = gens + 1
     /\ \E h \in {gens + 1, git[s]} \ {Nothing} : git' = [git EXCEPT ![s] = h]
     /\ creations' = [creations EXCEPT ![c].at = "push"]
     /\ UNCHANGED <<projects, deletions, hosted, remote, swept>>

\* The bootstrap is switched off, or what it puts on disk is not followed.
NoBootstrap(c) ==
  /\ creations[c].at = "scaffold"
  /\ creations' = [creations EXCEPT ![c].at = "push"]
  /\ UNCHANGED <<projects, deletions, git, hosted, remote, gens, swept>>

\* init.sh or the charters fail: rollback, and the disk as they left it.
ScaffoldFails(c) ==
  LET s == creations[c].slug
  IN /\ creations[c].at = "scaffold" /\ s \in Hosted /\ gens < MaxGen
     /\ gens' = gens + 1
     /\ git' \in {git, [git EXCEPT ![s] = gens + 1]}
     /\ creations' = Abort(c)
     /\ UNCHANGED <<projects, deletions, hosted, remote, swept>>

Stage4(c) == LET s == creations[c].slug IN s \in Hosted /\ git[s] # Nothing

\* push_and_verify: git refuses to push over another history; local and remote
\* HEAD are compared.
Push(c) ==
  LET s == creations[c].slug
  IN /\ creations[c].at = "push" /\ Stage4(c)
     /\ s \in hosted /\ remote[s] \in {Nothing, git[s]}
     /\ remote' = [remote EXCEPT ![s] = git[s]]
     /\ creations' = [creations EXCEPT ![c].at = "finish", ![c].pushed = git[s]]
     /\ UNCHANGED <<projects, deletions, git, hosted, gens, swept>>

\* It fails, perhaps after the push: .git is removed (or even that fails), files
\* and repository stay, rollback.
PushFails(c) ==
  LET s == creations[c].slug
  IN /\ creations[c].at = "push" /\ Stage4(c)
     /\ remote' \in {remote} \cup
          IF s \in hosted /\ remote[s] = Nothing THEN {[remote EXCEPT ![s] = git[s]]} ELSE {}
     /\ git' \in {git, [git EXCEPT ![s] = Nothing]}
     /\ creations' = Abort(c)
     /\ UNCHANGED <<projects, deletions, hosted, gens, swept>>

NoPush(c) ==
  /\ creations[c].at = "push" /\ ~Stage4(c)
  /\ creations' = [creations EXCEPT ![c].at = "finish"]
  /\ UNCHANGED <<projects, deletions, git, hosted, remote, gens, swept>>

\* run_post_scaffold_steps, best effort, and the commit.  Whoever else has had
\* its ports checked meanwhile no longer has them for itself.
Commit(c) ==
  LET r == creations[c]
  IN /\ r.at = "finish"
     /\ projects' = [projects EXCEPT ![r.slug] =
          [block |-> r.block, pushed |-> r.pushed, vouched |-> r.vouched]]
     /\ creations' = [d \in Creations |->
          IF d = c THEN Idle
          ELSE IF creations[d] # Idle /\ creations[d].block = r.block
               THEN [creations[d] EXCEPT !.vouched = FALSE] ELSE creations[d]]
     /\ UNCHANGED <<deletions, git, hosted, remote, gens, swept>>

\* A smoke build that runs into its timeout: nothing catches it, the session
\* closes without a commit.
FinishFails(c) ==
  /\ creations[c].at = "finish"
  /\ creations' = Abort(c)
  /\ UNCHANGED <<projects, deletions, git, hosted, remote, gens, swept>>

-----------------------------------------------------------------------------
\* update_project sets ports without asking the register.
SetPorts(s, b) ==
  /\ HasRow(s)
  /\ projects' = [projects EXCEPT ![s].block = b, ![s].vouched = FALSE]
  /\ UNCHANGED <<creations, deletions, git, hosted, remote, gens, swept>>

\* delete_project, of a project never in PROD (module Release), commits the
\* row's end first.
DeleteRow(d, s, github) ==
  /\ deletions[d] = Idle /\ HasRow(s)
  /\ projects' = [projects EXCEPT ![s] = NoProject]
  /\ deletions' = IF s \in Hosted
       THEN [deletions EXCEPT ![d] = [at |-> "workspace", slug |-> s, github |-> github]] ELSE deletions
  /\ UNCHANGED <<creations, git, hosted, remote, gens, swept>>

\* A clean-up that comes when the slug is in use again.
Late(s) == IF HasRow(s) \/ Inserted(s) # {} THEN swept \cup {s} ELSE swept

NextSweep(d) == deletions' = [deletions EXCEPT ![d] =
              IF deletions[d].at = "workspace" /\ deletions[d].github
              THEN [deletions[d] EXCEPT !.at = "github"] ELSE Idle]

\* The workspace is removed ...
SweepWorkspace(d) ==
  LET s == deletions[d].slug
  IN /\ deletions[d].at = "workspace"
     /\ git' = [git EXCEPT ![s] = Nothing]
     /\ swept' = Late(s) /\ NextSweep(d)
     /\ UNCHANGED <<projects, creations, hosted, remote, gens>>

\* ... the repository too when asked for ...
SweepGithub(d) ==
  LET s == deletions[d].slug
  IN /\ deletions[d].at = "github"
     /\ hosted' = hosted \ {s} /\ remote' = [remote EXCEPT ![s] = Nothing]
     /\ swept' = Late(s) /\ NextSweep(d)
     /\ UNCHANGED <<projects, creations, git, gens>>

\* ... and a failure of either is logged and passed over.
SweepFails(d) ==
  /\ deletions[d] # Idle /\ NextSweep(d)
  /\ UNCHANGED <<projects, creations, git, hosted, remote, gens, swept>>

\* The process ends: open transactions roll back, clean-ups are forgotten.
ProjectRestart ==
  /\ creations' = [c \in Creations |-> Idle] /\ deletions' = [d \in Deletions |-> Idle]
  /\ creations # creations' \/ deletions # deletions'
  /\ UNCHANGED <<projects, git, hosted, remote, gens, swept>>

-----------------------------------------------------------------------------
ProjectInit ==
  /\ projects = [s \in ProjectSlugs |-> NoProject]
  /\ creations = [c \in Creations |-> Idle] /\ deletions = [d \in Deletions |-> Idle]
  /\ git = [s \in Hosted |-> Nothing]
  /\ hosted = {} /\ remote = [s \in Hosted |-> Nothing]
  /\ gens = 0 /\ swept = {}

Creates(c) ==
  \/ RepoReady(c) \/ RepoFails(c) \/ Insert(c)
  \/ Scaffold(c) \/ NoBootstrap(c) \/ ScaffoldFails(c)
  \/ Push(c) \/ PushFails(c) \/ NoPush(c) \/ Commit(c) \/ FinishFails(c)

ProjectNext ==
  \/ \E c \in Creations, s \in ProjectSlugs, b \in Blocks : Request(c, s, b)
  \/ \E c \in Creations : Creates(c)
  \/ \E s \in ProjectSlugs, b \in Blocks : SetPorts(s, b)
  \/ \E d \in Deletions : SweepWorkspace(d) \/ SweepGithub(d) \/ SweepFails(d)
  \/ \E d \in Deletions, s \in ProjectSlugs, github \in BOOLEAN : DeleteRow(d, s, github)
  \/ ProjectRestart

ProjectSpec == ProjectInit /\ [][ProjectNext]_projectVars

-----------------------------------------------------------------------------
\* A block of ports has one project, unless one of two was created while the
\* other's creation was under way or had its ports set by an update.
PortsAreOwn ==
  \A s, t \in ProjectSlugs :
    s # t /\ HasRow(s) /\ HasRow(t) /\ projects[s].block = projects[t].block
      => ~projects[s].vouched \/ ~projects[t].vouched

\* A project whose push was verified still has the workspace and the repository
\* with that history, unless a deletion of its slug cleaned up late.
WorkspaceIsOwn ==
  \A s \in Hosted :
    HasRow(s) /\ s \notin swept /\ projects[s].pushed # Nothing
      => git[s] = projects[s].pushed /\ s \in hosted /\ remote[s] = projects[s].pushed

\* No failed, repeated, overlapping or interrupted creation or deletion takes
\* from a project what its own creation verified: routes/projects.py checks
\* ports, slug, scaffold and push minutes apart and commits at the end.
ProjectIsWhole == PortsAreOwn /\ WorkspaceIsOwn
=============================================================================
