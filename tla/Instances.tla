------------------------------ MODULE Instances ------------------------------
(***************************************************************************)
(* The deployed instances: the rendered files of a customer's cell, the    *)
(* docker stack they are brought up as, and the database volume of the     *)
(* stack, which keeps the password it was first initialised with.          *)
(*                                                                         *)
(* A deployment renders in a thread of its own and brings the stack up in  *)
(* a subprocess, so deployments interleave.  Passwords are numbered as     *)
(* they are minted.  Left out: ports, labels, networks, the other secrets  *)
(* of the environment file (preserved by the same rule), and the probes    *)
(* after the start, which change nothing.                                  *)
(***************************************************************************)
EXTENDS Naturals, Sequences, FiniteSets

CONSTANTS
  Cells,   \* [env, customer, app], the slugs as sequences of their words
  Jobs,    \* slots for deployments under way
  MaxMint  \* bound on the passwords considered

Blank  == 0  \* an empty file, or a variable that expands to nothing
Absent == MaxMint + 1
NoJob  == [at |-> "none"]

VARIABLES
  envfile,  \* the password in the cell's .env
  volume,   \* the password the stack's database was initialised with
  running,  \* the password the stack's services were started with
  jobs,     \* deployments: their cell, password, and how far they are
  minted,   \* passwords minted so far
  excused   \* stacks that met one of the causes KeepsItsData names

instanceVars == <<envfile, volume, running, jobs, minted, excused>>

-----------------------------------------------------------------------------
\* _instance_naming: the words are joined by hyphens, so they run together.
name_base(c) == (IF c.env = "prod" THEN <<>> ELSE <<"uat">>) \o c.customer \o c.app

Stacks == {name_base(c) : c \in Cells}

Under(st) == {j \in Jobs : jobs[j] # NoJob /\ name_base(jobs[j].cell) = st}

IsRedeploy(c, fresh) == envfile[c] # Absent /\ ~fresh

\* Slip: a redeployment mints its secrets anew.
MintAlways(c, fresh) == minted + 1

\* load_existing_env_secrets: the password of the file is preserved, if it has one.
shared_db_password(c, fresh) ==
  IF IsRedeploy(c, fresh) /\ envfile[c] # Blank THEN envfile[c] ELSE minted + 1

\* Another cell whose stack has the same name has data there.
Foreign(c) == \E d \in Cells \ {c} : name_base(d) = name_base(c) /\ envfile[d] # Absent

\* provision_uat up to its first write: what it renders follows from what it reads.
Provision(j, c, fresh) ==
  LET st == name_base(c) pw == shared_db_password(c, fresh) IN
  /\ jobs[j] = NoJob /\ pw <= MaxMint
  /\ jobs' = [jobs EXCEPT ![j] = [at |-> "rendered", cell |-> c, pw |-> pw]]
  /\ minted' = IF pw > minted THEN pw ELSE minted
  /\ excused' = IF (fresh /\ volume[st] # Absent) \/ Under(st) # {} \/ Foreign(c)
                THEN excused \cup {st} ELSE excused
  /\ UNCHANGED <<envfile, volume, running>>

\* A rejected render - a foreign external network, a driver the project does not
\* ship, no source compose - writes nothing.
Rejected(j) ==
  /\ jobs[j].at = "rendered" /\ jobs' = [jobs EXCEPT ![j] = NoJob]
  /\ UNCHANGED <<envfile, volume, running, minted, excused>>

\* write_text opens the file, which truncates it, and then writes.
Truncate(j) ==
  /\ jobs[j].at = "rendered"
  /\ jobs' = [jobs EXCEPT ![j].at = "writing"]
  /\ envfile' = [envfile EXCEPT ![jobs[j].cell] = Blank]
  /\ UNCHANGED <<volume, running, minted, excused>>

Write(j) ==
  /\ jobs[j].at = "writing"
  /\ jobs' = [jobs EXCEPT ![j].at = "written"]
  /\ envfile' = [envfile EXCEPT ![jobs[j].cell] = jobs[j].pw]
  /\ UNCHANGED <<volume, running, minted, excused>>

\* docker compose up reads the file as it is now.  A new volume is initialised
\* with its password, and not at all with an empty one.
DatabaseUp(st, pw) ==
  volume' = [volume EXCEPT ![st] = IF @ = Absent /\ pw # Blank THEN pw ELSE @]

\* _run_uat_deploy brings the stack up; whether it then serves decides the
\* recorded outcome alone.
ComposeUp(j) ==
  LET c == jobs[j].cell st == name_base(c) IN
  /\ jobs[j].at = "written" /\ jobs' = [jobs EXCEPT ![j] = NoJob]
  /\ DatabaseUp(st, envfile[c])
  /\ running' = [running EXCEPT ![st] = envfile[c]]
  /\ UNCHANGED <<envfile, minted, excused>>

\* It fails or is killed at its time limit, before or after the database came up.
ComposeFails(j) ==
  LET c == jobs[j].cell IN
  /\ jobs[j].at = "written" /\ jobs' = [jobs EXCEPT ![j] = NoJob]
  /\ UNCHANGED volume \/ DatabaseUp(name_base(c), envfile[c])
  /\ UNCHANGED <<envfile, running, minted, excused>>

\* The server process dies; a file that was being written stays truncated.
InstanceRestart ==
  /\ \E j \in Jobs : jobs[j] # NoJob
  /\ jobs' = [j \in Jobs |-> NoJob]
  /\ excused' = excused \cup {name_base(jobs[j].cell) : j \in {i \in Jobs : jobs[i].at = "writing"}}
  /\ UNCHANGED <<envfile, volume, running, minted>>

InstanceInit ==
  /\ envfile = [c \in Cells |-> Absent]
  /\ volume = [st \in Stacks |-> Absent] /\ running = [st \in Stacks |-> Absent]
  /\ jobs = [j \in Jobs |-> NoJob] /\ minted = 0 /\ excused = {}

InstanceNext ==
  \/ \E j \in Jobs, c \in Cells, fresh \in BOOLEAN : Provision(j, c, fresh)
  \/ \E j \in Jobs : Rejected(j) \/ Truncate(j) \/ Write(j) \/ ComposeUp(j) \/ ComposeFails(j)
  \/ InstanceRestart

InstanceSpec == InstanceInit /\ [][InstanceNext]_instanceVars

-----------------------------------------------------------------------------
(* Properties *)

\* A stack that was ever brought up reaches its own database, over redeployments,
\* failed starts, rejected renders and restarts.  What can lock it out: force_fresh
\* over existing data, two deployments of one stack at once, a restart while the
\* environment file is truncated, and a second cell whose names join to the same.
KeepsItsData ==
  \A st \in Stacks \ excused : running[st] # Absent => running[st] = volume[st]
=============================================================================
