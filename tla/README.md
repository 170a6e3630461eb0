# Verification of NEX Studio

NEX Studio (this repository) drives the construction of a customer application by an
AI agent under the supervision of a Manager (Manažér).  For every version of a
project it keeps one *pipeline*: a row of state, an append-only log of messages, a
plan of tasks, a git checkout, and at most one running *dispatch*, the asyncio task
in which the agent works.  The Manager acts through HTTP requests, the agent through
its answers, and both write the same rows.  Around the pipeline stand the services that
create projects, deploy versions, keep secrets, index documents and open terminals.
This directory holds TLA+ models of the engine and of those services, the TLC runs that
check them on small instances, and TLAPS proofs.

Paths below are relative to the repository; `orchestrator.py`, `pipeline_runner.py`,
`deploy.py` and the like are under `src/backend/services/`, `pipeline.py` is
`src/backend/db/models/pipeline.py`, `routes/pipeline.py` is
`src/backend/api/routes/pipeline.py`, and `usePipelineWs.ts` is under
`src/frontend/src/hooks/`.

## 1. Inventory

### The core: parts that share the pipeline

| Part | State it keeps | Operations | Interacts with |
|---|---|---|---|
| **Pipeline row** (`pipeline.py`) | stage, actor, status, block reason, single-flight flag `dispatch_in_flight`, counters | set-listeners on `status` that clear the flag and the reason | written by requests, by the dispatch, by start-up recovery |
| **Message log** (`pipeline_message`) | append-only, ordered by `seq` | `_record_message`; every query takes the latest message of a class or compares two | all decisions of the engine (approved? complete? checked? signed?) are queries on it |
| **Conversation register** (`orchestrator.py`) | reads and writes the above | `apply_action`: start, approve_spec, zostav_plan, spustit_stavbu, skontrolovat, hotovo, overit_znovu, uprav, ask, answer, pokracovat, pause; `run_conversation_turn`, plan round, kontrola round, consult turn, `_run_build_round` | log, row, task plan, git HEAD |
| **Relay channel** (`relay_manazer_message`, `drain_relay_turn`) | a deque per version, in memory | enqueue during a turn, drain after a settle | row, runner |
| **Board** (`determine_available_actions`, `routes/pipeline.py::_board`) | none | computes the offered verbs | must agree with the guards of `apply_action` |
| **Background runner** (`pipeline_runner.py`) | `_ACTIVE_DISPATCH`, the asyncio tasks | `schedule_dispatch`, `_run`, `_mark_blocked`, `_clear_dispatch_flags` | row, relay queue, the agent's session row, websocket, Telegram |
| **Start-up recovery** (`recover_orphaned_builds_on_startup`) | none | settles rows left `agent_working` | row, log |
| **Phase automaton** (`orchestrator.py`) | stage, autonomy dial, iteration counter, auto-fix count | phase boundaries, consultation cards, Auditor's verdict and fix loop, `schvalit`, `verdict`, `decide` | row, log, plan, runtime floor |
| **Plan round** (`_generate_incremental_plan`) | the answers of the passes, in memory | skeleton pass, one pass a feat, write of the plan | agent, plan, log |
| **Build round** (`_run_build_round`) | task statuses, baseline commit | attempts, self-check, mechanical verification, lost-work audit | git, agent, plan |
| **Runtime floor** (`orchestrator.py`, smoke and acceptance) | a compose stack named after the project | build, boot, probe, acceptance script, teardown | checkout, docker |
| **Agent invocation** (`claude_agent.py`, `claude_subprocess.py`, `consult_sandbox.py`) | processes, containers | run, stream, kill, transient retry, parse with retries | awaited inside transactions |
| **Task plan** (`task.py`, `epic.py`, `feat.py`) | tasks, feats, epics and their statuses | CRUD with roll-up, next todo task, resets | build round, board, release gate |

### Around it

| Part | State | Operations | What is hard |
|---|---|---|---|
| **Browser board** (`usePipelineWs.ts`, `pipeline_ws.py`) | the page's copy of a version | snapshot, frames, reconcile, presence | frames are lost between commit and registration |
| **Notifications** (`pipeline_runner.py`, `notify.py`) | none | decide whom to tell that a version waits | presence of several connections of one person |
| **Agent terminal** (`agent_terminal.py`) | pty sessions in memory and in a table | spawn, attach with respawn, write guard, idle cleanup | two attaches after a restart; one writer per session |
| **Deployment and acceptance** (`deploy.py`) | deployment events, versions | gate, provision (awaited), record, accept, graduate | gates read before the await, events written after |
| **UAT provisioner** (`uat_provisioner.py`) | environment files, stacks, volumes | render, up, redeploy | a volume keeps the password it was initialised with |
| **Customers and credentials** (`customer.py`, `credentials.py`) | a row and a file | create, rename, set, delete | the two are written one after the other |
| **Projects** (`routes/projects.py`, `template_bootstrap.py`, `port_registry.py`) | row, ports, workspace, repository | create in minutes, delete with late clean-up | partial failure; one slug, several generations |
| **Backlog and change requests** (`backlog.py`, `change_request.py`) | items, markers in messages | capture, assign, release | overlapping captures of one message |
| **Knowledge base** (`src/backend/rag/`, `knowledge_manager.py`) | files and a vector index | save, delete, re-index, script | nothing but the order of calls ties them |
| **Migration from version 1** (`services/migration/`) | target rows, a sequence | copy, compare, commit, advance | the source is still written |
| **Users and sessions, metrics, settings, release notes, live documents, escalation, alembic migrations, operations scripts, the rest of the frontend** | rows and files of their own | rendering, read-only aggregation, CRUD over single rows | no decision of the pipeline depends on them, apart from the commit of a release note that moves HEAD before a signature |

### What is hard here

* **Two writers.**  A request may change the row between any two commits of the dispatch:
  a pause, a correction or a relayed message during a task is the normal case.
* **Decisions by the latest message.**  The markers of a plan or a check, the completion, the
  report, the red note, the consultation card and the signature all count by their order in the
  log.  What is recorded between two of them decides.
* **Order of commits.**  Messages are committed one at a time; an exception or a restart may
  fall between any two.
* **Awaits.**  The tail of a dispatch awaits a broadcast and a script while it still counts as
  active; the database driver is synchronous, so a lock wait is a wait of the whole process.
* **Memory and database.**  The relay queue, `_ACTIVE_DISPATCH` and the terminals live in
  memory, what they go with in the database.
* **Two stores, no transaction.**  A secret is a row and a file, a project a row, a workspace
  and a repository, a document a file and its chunks, an instance a file and a volume, a
  deployment a stack and an event.

### What makes each part correct

* Row: the flag is set exactly while an agent works; reason and stage agree with the status.
* Register: a dispatch works on a row that is still its own; a completion speaks of a plan
  that is done; a finished version was approved, completed and signed after its last build,
  and is re-opened for a drift only; what was done stays done; a paused build stays paused;
  a first signature is put under a green run; every dispatch settles.
* Board: no dead button; a page left open comes to show what is.
* Runner: one dispatch per version, one turn in a session, no version left working alone, the
  event loop never held up by a turn.
* Phase automaton: the fix loop is bounded; a gate is passed by the Manager only; a version
  finishes on a PASS; a fix round costs no finished work; a decision is read from its own card.
* Plan and build round: a plan is of one round; the work spent on a task is bounded; no work
  is lost between attempts.
* Agent: no process outlives its call, but for causes that can be named.  Terminal: one process per session.
* Deployment: what goes to a customer's production was accepted by this customer, whatever
  became of its number meanwhile; a stack
  reaches its own database; a green floor was measured on the build it is about.
* The stores: what a reference leads to is what was last put there.

`PROJECT.json` lists the hazards one by one, with the line where each bites and the properties
that would catch it.

## 2. The modules and the code

| Module | Models | Lines it stands for |
|---|---|---|
| `MessageLog` | `pipeline_message` as the engine's queries see it | `_record_message`, the latest-of queries |
| `PipelineRow` | `pipeline_state`, its listeners, the head guards of `apply_action`, the offered verbs | `pipeline.py`, `determine_available_actions`, `apply_action` |
| `Conversation` | one version in the conversation register | `apply_action`, the conversation rounds, `_run_build_round`, the relay channel, recovery |
| `Delivery` | what the engine promises about a version | abstract; `Conversation` implements it |
| `PhaseBuild` | one version in the phase automaton, both flows | `apply_action`, `run_dispatch`, the rounds of the phases, `_settle_*`, `_run` |
| `Runner` | the runner and the requests of all versions of one project | `pipeline_runner.py`, `invoke_agent`, `drain_relay_turn` |
| `BuildRound` | one task inside a build round: attempts, retries, baseline, audit | `_run_build_round`, `verify_mechanical`, `_audit_lost_work` |
| `BuildTask` | what the build stage promises about one task | abstract; `BuildRound` and `PhaseBuild` implement it |
| `PlanRound` | a plan composed in passes and written at once | `_generate_incremental_plan`, `_write_task_plan` |
| `AgentCall` | one invocation of the agent and the processes it leaves | `claude_agent.py`, `claude_subprocess.py`, `consult_sandbox.py` |
| `ReleaseSmoke` | boot, probe, acceptance run and teardown on the shared stack | `_run_release_smoke`, `_boot_smoke_stack`, `_run_release_acceptance` |
| `AgentTerminal` | terminals, viewers, ends and restarts | `agent_terminal.py`, its routes |
| `Release` | versions and deployments of a project | `deploy.py`, `version.py` |
| `Instances` | environment files, stacks and database volumes | `uat_provisioner.py` |
| `Customers` | customers and their secret files | `customer.py`, `credentials.py`, `routes/customers.py` |
| `ProjectCreation` | creation and deletion of projects | `routes/projects.py`, `template_bootstrap.py`, `project.py` |
| `WorkItems` | epics, feats, tasks, their roll-up, the release gate | `task.py`, `feat.py`, `epic.py` |
| `Backlog` | requirements, change requests and their capture | `backlog.py`, `change_request.py` |
| `Knowledge` | documents and their chunks in the index | `src/backend/rag/indexer.py`, `routes/knowledge.py`, `knowledge_manager.py`, `src/scripts/rag_index.py` |
| `Migration` | the copy of projects from version 1 | `services/migration/` |
| `Board` | the board in the browser | `usePipelineWs.ts`, `routes/pipeline.py` |
| `Ports`, `TerminalLog`, `Nudge`, `DeployMatrix`, `ServeCheck`, `InstanceEnv`, `StatusBlock` | pure parts: free ports, the output log, whom to notify, the deploy matrix, HTTP probes, environment files, what an agent's answer is taken for | `port_registry.py`, `agent_terminal.py`, `pipeline_runner.py`, `deploy.py`, the probes of `orchestrator.py`, `uat_provisioner.py`, `pipeline_status.py` |
| `PlatformClaims` | the claims of the pure parts over small inputs | |
| `MCConversation`, `MCRunner`, `MCCore`, `MCPhaseBuild`, `MCPhaseRelease`, `MCPlatform` | instances for TLC | |
| `ConversationProofs`, `DeliveryProofs`, `PhaseProofs`, `RunnerProofs`, `BuildRoundProofs`, `ReleaseProofs`, `ServiceProofs`, `ClaimProofs` | proofs | |

**MessageLog.**  Every query of the engine asks whether a class of messages occurs, or which of
two classes occurs later.  A log is abstracted to the set of classes seen and the order of their
latest occurrences.  This is exact for these queries (`LogIsExact`: a message recorded is one row
more, and each query reads from the log what it reads from the rows; evaluated by TLC, proved for
rows of any number) and needs no bound on the length of the log: the state space is finite
although the log grows for ever.

**PipelineRow.**  `SetStatus` is an assignment to the mapped attribute, with both listeners: they
do nothing when the value does not change, as in the code.  `BeginDispatch` is `_begin_dispatch`,
a no-op on the terminal stage.  `PassesGuards` is the conjunction of the five guards every action
meets before its handler.

**Conversation.**  `row`, `log`, `tasks` are the three tables; `queue` the length of the relay
deque; `head` and `signed` the checkout's HEAD and the `hotovo_sha` of the latest signature; `turn`
the program point of the dispatch task.  Each verb of `apply_action` is an action named after it
(`zostav_plan` is `ZostavPlan`), its guard an operator `Can...` that the board's side reuses.  The
dispatch is one action for each stretch between two commits: `KontrolaSmoke` (the application is
booted and the machine's result committed), `KontrolaReport` (the partner's turn), then one of
`KontrolaRed`, `KontrolaGreen`, `KontrolaResigns`.  A build is `BuildPicksTask`, then `TaskDone`,
`TaskFails` or `TaskStops`, and back to the boundary where the row is read again.  `SettleTurn` is
the end of every turn together with the drain of one relayed message, which arms the next turn.
What the agent answers, whether a boot succeeds and what git says are nondeterministic choices;
`HeadMoves` is a commit by anybody.  `Crash` is an exception that escapes a turn, `Restart` a new
process with its start-up recovery.  Not in this module: the message texts, the cost
bookkeeping, the waiting clock, and the tail of the runner between a settle and the end of its
task.  `RowConsistent` is thus a statement about the grain of turns; `Runner` shows what the tail
adds.

**Runner.**  One action for each stretch between two awaits.  The row of a version is `settled`,
`paused` or `working`, with the flag; `pc` says what a dispatch awaits; `posted` counts the
requests that committed and have not reached `schedule_dispatch` (they await a broadcast in
between); `holder` and `dirty` are the uncommitted writes, hence row locks, that a dispatch holds
while it awaits.  A statement that needs a lock held by a transaction waiting for the event loop
stops the process: `frozen`.  Two places are provided for the dispatches of a version, so that
`SingleFlight` is a fact about `schedule_dispatch` and not about the variables.

**Delivery.**  Two variables, how far the version has come and whose turn it is.  The phases
follow one another; only a delivery is taken back; the Manager moves a resting version, the agent
a working one.  `delivery_phase` in `Conversation` is the refinement mapping.

**PhaseBuild.**  The grain is `Conversation`'s.  `turn` names the point of the dispatch between
commits: `priprava`, the three stretches of navrh (the round, the plan, the review), the
build loop, and the stretches of verifikacia from the boot to the critic.  `judged` and `sha` are
the latest verdict or return of the Auditor and the commit a PASS was given for; `card` is the
latest consultation; `iteration` the counter of the fix loop and `chain` the runner's count of
phases run without the Manager.  Tasks carry the brief they were made from, so that a fix task
rewritten in place is told from the plan's.  The dial is chosen anew at each boundary, since the
Manager may change it at any time.

**BuildTask.**  Three variables: whether the row works at the build stage, the status of the task,
and where the dispatch is (at rest, in the loop, in the turn of this task).  A task is worked on by
the dispatch that took it up, done or failed by its turn and by nothing else, and done for good; a
dispatch that ends in any other way leaves it for the next one to begin again.  `BuildRound` implements it
for the task it follows through its attempts (`TaskIsBuilt`), `PhaseBuild` for every task of the plan
among all phases (`PlanIsBuilt`, where a turn at another task or at a fix is, to this one, the round).
So the one action `TaskDone` of `PhaseBuild` and the attempts of `BuildRound` that come to it are two
sides of one promise.  `Conversation` is not among the implementations: a settle that drains a
relayed message is one step there, and in it a dispatch ends and the next one begins.

**The smaller modules** follow the same rule: what lies between two awaits, two commits or two
calls to another store is one action, and every request of another actor may fall in between.
History variables (`outlived` in `AgentTerminal`, `excused` in `Instances`, `overlaps` in
`ReleaseSmoke`, `stale` in `Knowledge`, `strays` in `AgentCall`, `shaken`, `swept`, `mixed`,
`doubled`, ...) record by which way of those the code leaves open a promise may fail, so that the
property can say "never, except by these", and TLC shows that there is no other.  A module's head
comment says what it leaves out.

**The pure modules** have no variables: each is a set of operators translated from functions of
the code, with the claims that compare them with a reference definition or with one another (the
first free block of ports is the least one free; a redeployment keeps the file; what the prober
has heard it does not forget; more text around a status block never changes what it is read as;
a deploy event shows in the matrix).  `PlatformClaims` states them over all small inputs as
assumptions, which TLC evaluates in the run `platform`.

A definition commented as a *slip* is the definition after it with a plausible mistake; it is not
used by the model.  Put in the place of the other, it makes TLC find the property violated that
is about it, which is how each property was shown to depend on the code it talks about.

## 3. What the runs check

Deadlock is checked where it means something (the conversation, the runner, the phases); in
`platform` a slice may come to its end, and so may the violation runs of `Runner` and `Release`.

| Run | Question | Bounds |
|---|---|---|
| `conv_safety` | The register: who may move a version where; what do a completion, a finished version and an offered button vouch for; does it implement `Delivery`? | 2 tasks, 1 queued relay, 2 commits of which one boots, exceptions, restarts, token stop |
| `core_settles` | The register: does every dispatch hand the version back, does a check that was asked for run, is a first signature put under a green run?  The runner: one dispatch a version, one turn a session, one way to lose a dispatch | `Conversation`: 1 task, 1 relay, no exceptions and restarts; `Runner`: 2 versions (one in its build loop), 1 relay and 2 posted requests each, exceptions, restarts |
| `phase_safety` | Who starts a phase, what does a finished version stand on, is a decision read from its own card, what does a fix round cost, how does a task of the plan move, is the backstop out of reach, does every dispatch settle?  And may what reaches a customer's production be something this customer never accepted? | `PhaseBuild`: 1 task in the plan, 1 open fix task, `AUDITOR_LOOP_MAX` 2, 2 commits, exceptions, restarts, both flows; `Release`: 2 versions, 1 customer, 2 numbers, 2 deployments in flight, 4 events |
| `platform` | The promises of thirteen components beside the register, and the claims of the pure modules | below |
| `find_dead_button`, `find_sign_after_recheck`, `find_relay_unpauses`, `find_red_kontrola`, `find_lost_dispatch`, `find_frozen`, `find_pass_over_red`, `find_gate_bypassed` | One statement of the repository each, which the code does not keep (section 6) | as small as shows it |

**The slices of `platform`.**  The components beside the pipeline share no variables with each
other, so their product would say nothing that the components do not say one by one.  `MCPlatform`
has a variable `slice`, chosen in the initial state and never changed; a behaviour is one of the
component the slice names, while the others keep their initial values.  The sets of states add up
instead of multiplying (372 000 states in all), and every property speaks of its own component.
`MCCore` puts the register and the runner side by side in the same way (606 000 states), and
`MCPhaseRelease` the phases and the release of versions (713 000; rows and slots are numbered
there, and of those that are free the first is taken, which of them makes no difference).

| Slice | Module | Properties | Bounds |
|---|---|---|---|
| round | `BuildRound` | `CallsBounded`, `TaskIsBuilt`, `WorkStaysClaimable`, `RoundSettles` | 2 attempts, 1 parse retry, 2 commits |
| terminal | `AgentTerminal` | `OneWriter`, `ViewerIsCurrent`, `ViewerTold` | 2 sessions, 1 viewer with a queue of 1, 2 chunks |
| instance | `Instances` | `KeepsItsData` | 2 cells whose names join to the same, 2 deployments, 2 passwords |
| smoke | `ReleaseSmoke` | `SmokeIsItsOwn` | 2 runs, 2 commits |
| customers | `Customers` | `SecretIsOwn` | 2 customers, slugs and secrets, 1 request between its file and its commit, the others at once |
| project | `ProjectCreation` | `ProjectIsWhole` | 2 slugs, one with a repository, 2 creations, 1 deletion, 2 generations |
| work | `WorkItems` | `ReleasableIsDone` | 2 tasks of one feat of one epic, 2 updates |
| backlog | `Backlog` | `BacklogKept` | 2 versions, 1 consultation, 2 captures |
| call | `AgentCall` | `NoStray` | 4 attempts |
| migration | `Migration` | `CopyIsOneMoment` | 2 projects, 1 change of the source each |
| knowledge | `Knowledge` | `IndexIsDisk` | 1 document, of the project, 2 texts, 2 requests |
| plan | `PlanRound` | `PlanWhole` | 3 feats of which 2 in a plan, 1 retry a pass, 2 rounds |
| board | `Board` | `BoardHeals` | 2 versions with a message each, 1 change of a row or message more, snapshots of the last message only, 1 pending answer |

**Why the bounds are enough.**  The log and the row are finite without a bound.  Two tasks are
enough for one to be done while the other is open, failed or abandoned, and for a resume that must
tell them apart; more tasks repeat this.  One queued relay distinguishes the two outcomes of every
settle; a drained relay can be replaced by a new one, so chains of drained turns do occur.  Two
commits distinguish drift from no drift and a commit that boots from one that does not; the
smoke run of a bootable commit may fail all the same.  In `Runner` two versions are enough to
compete for the session row, and two posted requests for one to be scheduled and the other to
be skipped.  In `PhaseBuild` two fix rounds are the first number at which a counter that is read
too late, not reset or counted twice goes past its limit, and one plan task beside one fix task lets
every reset meet a done and an open task.  In the slices two actors are enough for every
overlap of a pair, and each store has room for one generation to be replaced by a second.  The
bounds that are parameters in the code (attempts, retries, queue and log sizes) are smaller than
the code's: the actions test them for being reached, and nothing else depends on their value.  The
theorems of section 5 hold without any of these bounds; for `Release`, where one customer and two
flights are all TLC can afford beside the rest, the theorem speaks of any number of both, and for
`Customers`, where the slice has one request between its file and its commit at a time, the theorem
speaks of any number that overlap.

**Properties.**  `TurnOwnsRow`: no action of the Manager moves a row under a running turn, except
that the build loop may find itself paused.  `CompleteMeansAllDone`, `OneTaskAtATime`,
`DoneTaskStaysDone`: the plan against completion, resets, the orphan reclaim and restarts.
`DoneIsSigned`, `DoneLeftOnlyOnDrift`: the terminal stage.  `PausedResumesOnPurpose`: with no relay
waiting, only `pokracovat` and `uprav` resume a paused build.  `OfferedIsAccepted`: the board against
the guards.  `DeliversInOrder`: the refinement.  `FirstSignatureOverGreenSmoke`,
`DispatchSettles`, `CheckMarkerFires`: section 4 on fairness.  `SingleFlight`, `OneWriter`,
`LostOnlyBySkip`: the runner.  `PhaseGate`, `DoneIsVerified`, `NeverTrips`, `CardFits`,
`PlanIsBuilt` (no fix round costs finished work, among others): the phases.  `ProdGate`: versions and
their numbers against acceptances and deployments under way.  The properties of the
slices are stated, with the ways out the code leaves, in the comment over each.

## 4. Fairness

Safety properties use no fairness.  In `Conversation` and in `PhaseBuild`, `FairSpec` adds
`WF_vars(Engine)`: the event loop runs a scheduled task, and every wait inside a turn is cut off
(the agent's run has a timeout and bounded retries, the smoke and acceptance runs have theirs), so a
turn in progress eventually takes its next step.  Nothing is assumed of the Manager:
`DispatchSettles` excepts a Manager who queues messages for ever, for every settle then arms
another turn.  `CheckMarkerFires` excepts a message queued before the turn is picked up, which makes
the marker no longer the latest message (see section 6).  `DiligentSpec`, used only by
`find_red_kontrola`, adds strong fairness on three verbs of the Manager: even one who keeps
correcting, resuming and asking for checks is never allowed another check, which makes the
counterexample one of the guards and not of his patience.

The register has neither exceptions nor restarts in `core_settles`, because
`FirstSignatureOverGreenSmoke` fails with them (section 6), and because a restart in every turn
would make every dispatch settle for the wrong reason.  `phase_safety` keeps both: `PhaseDispatchSettles` is checked with them and its
mutant is caught in behaviours without any.

In `MCPlatform` three slices have fairness, each on the steps of its own component only.
`RoundGoes`: a step of the loop over the tasks, weakly fair for the same reason as above
(`RoundSettles`).  `TerminalGoes`: the reader of a terminal and the writers to its viewers are tasks
of the event loop that wait for nothing but their input (`ViewerTold`).  `BoardTicks`: the timer
of 25 seconds in the browser fires while the page is open; `BoardHears`, strongly fair: of
reconciles repeated for ever one is answered, even if the network fails again and again
(`BoardHeals`, which is about a page that the Manager in the end leaves open on one version).

## 5. What is proved

Every theorem is about the specification with every value of the constants, from the named
assumptions of its module (`ConversationAssumption`: at least one task, a natural relay bound,
bootable commits among the commits, three booleans; `PhaseAssumption`, `RunnerAssumption`,
`RoundAssumption` alike) or from those the theorem itself states (`GateHolds`: v1.0.0 is a
number and the placeholder for none is not; `IndexFollowsDisk`: the project's documents are documents; ...).
Each rests on an invariant that is inductive, alone or relative to one proved before; its
statement names what had to be added to the property.  `PROJECT.json` lists the theorems.

**`ConversationProofs`.**  `OwnInv` is inductive by itself: types, `LogOK` (the latest-of order is a
strict total order on the classes seen), `RowOK`, `TurnOwnsRow`.  `RowOK` strengthens `RowConsistent`
by two facts without which it is not inductive: a version not started is at the first stage, and no
turn of this register blocks on a consultation card.  The steps fall into three
shapes, each with a lemma (`RestOwn` for a resting version, `InsideOwn` inside a turn, `SettleOwn` for
the end of one); `GuardIdle` says that the guards let all but three verbs through only when no
dispatch runs.  Theorems `Owned`, `TypeCorrect`, `RowStaysConsistent`, `TurnStaysOwner`.  The second part is about plan
and signature.  `PlanInv`, inductive relative to `OwnInv`, adds to the two plan
properties that a plan turn or its marker is met only with no plan (otherwise a plan could be
written over done tasks) and that the build stage has a plan.  `SignInv`, inductive relative to
`OwnInv`, adds that a re-check presupposes a signature and a signature an approval and a completion
(the re-check signs again without asking for them).  `DoneLeftOnDrift` needs both: `spustit_stavbu`
has no guard on the stage, and what keeps it off a finished version is that a signature implies a
completion, a completion a plan that is done, and a done task a build that started.  Theorems
`Planned`, `CompletionHolds`, `OneTask`, `Signed`, `DoneStaysSigned`, `DoneTaskKept`, `DoneLeftOnDrift`,
`PausedStaysPaused`, `NoDeadButton`.

**`DeliveryProofs`.**  `ImplementsDelivery`: initial states map to initial states and every step to a
step of `Delivery` or a stutter.  `PhaseInv`, inductive relative to the three invariants above, adds
that a completion takes the version off the build stage and that a plan is composed of an approved
specification only.  Most steps are a `HandOver`; seven move the phase.
`FirstSignatureGreen` has a premise, no exceptions and no restarts, without
which it is false (section 6).  `FirstInv`, inductive relative to `OwnInv` and `SignInv`, follows a
kontrola of a version never signed through its three commits: one asked for or under way has not been
reported (else a boot that comes up red would stand beside an older report); past the first commit
the machine's result is recorded; outside the last stretch a check that is done and not noted red
stands over a green result.

**`PhaseProofs`.**  `GateInv` says that a dispatch works on the row of its own phase (`Owned`; only
the loop over the tasks may find its version paused) and that the phases it may still chain fit
its budget (`Budgeted`): the chain so far, two phases for every fix round not started, and one for
each phase ahead of verifikacia never exceed `2 * AUDITOR_LOOP_MAX + 2`, which is below
`auto_chain_limit`.  Both are needed at once, for the budget is spent by the phase the row is in.
`NeverTrips` follows without any appeal to the size of the plan.  `DoneIsVerified` needs `Owned`, which
keeps the steps that write a verdict away from a finished row, and `PhaseGate` that a `new_version`
never continues a chain.  Theorems `Phased`, `DoneStaysVerified`, `ChainFits`, `OnlyTheManagerAdvances`.
`TasksInv`, inductive relative to `GateInv`, is about the shape of the sequence of tasks: the plan
stands first and whole, the fixes behind it, none of them done, and a version at verifikacia has room for the fix of a FAIL.
With the plan in front, replacing an open fix is cutting a sequence short and not filtering it, so it
can be reasoned about without induction. `FixCostsNoFinishedWork` (`FixLeavesPlanAlone`) and, with `CardInv` (what the
Auditor, the critic and the boots left, with `CardFits`), `CardStaysFitting` and `PhasesTyped` follow.
`PlanKeepsPromise` is the refinement of `BuildTask` for every task of the plan: `LoopInv` adds that
nothing is begun before the build stage, that between tasks none is in progress, and that a
dispatch at a task is at one; each action is then, for each task of the plan, a step of `BuildTask`
or none.

**`RunnerProofs`.**  `FlightInv` is `RunnerTypeOK`, `SingleFlight` and `RelayWaits` (a dispatch about to
drain has something to drain: two dispatches of a version would break it, so the three are
inductive only together).  `WriterInv` says that the turn in the agent holds the lock of the session
row, from which `OneWriter` follows.  `LostInv` strengthens `LostOnlyBySkip` at the points where a
dispatch can no longer pick up a row armed behind its back.  Theorems `Flown`, `RunnerTyped`,
`OneDispatch`, `SessionHasOneWriter`, `OneWayToLoseADispatch`.

**`BuildRoundProofs`.** `RoundInv` adds to the three safety properties of a task what they are
inductive by: `Spent`, that the invocations so far are those the earlier attempts, the crash retry
and the parse retries of this turn account for, and `Anchored`, that a task being worked on has a
baseline and the baseline is not newer than HEAD. The products are bounded by lemmas over natural
numbers, since the limits are parameters. Theorems `RoundHolds`, `TaskIsBounded`, `WorkIsNotLost`,
`ToldOnce` (`OneNoticePerBaseline`, proved only). `RoundKeepsPromise` is the refinement of `BuildTask`, and needs besides the types only
that a turn is at a task in progress (`TurnWorks`): every attempt, parse retry and crash retry is a
stutter of the abstract task or the end of it. The second part is about `WorkItems`: `ReleasableStaysDone`. Of an epic whose statuses
all came from roll-ups, one at a time, `Clean` says that what is done stands on what is below, that
no two updates are under way in it, and that what an update has computed and not committed will
still follow from what is below then (`FeatWillStand`, `EpicWillStand`: rows can only have gone
meanwhile, for an addition makes the epic mixed). The theorem supposes the statuses of the code,
one parent a row, and that tasks and feats are told apart (`WorkAssumption`). The third part is
about `Backlog`: `BacklogStaysKept`. A message has one capture at a time, and no requirement until
it is marked (`CapturedAlone`); that no two of its requirements exist follows, and the library's
theorem on singletons turns it into a cardinality. The theorem supposes that the placeholder for
"no version" is neither a version nor a message (`BacklogAssumption`).

**`ReleaseProofs`.** `GateHolds`: a number belongs to one version; an acceptance is found under the
number its version carries, unless that version gave the number up by hand (`AcceptsFollow`);
whoever carries such a number is known (`HeirsAreKnown`); and a deployment in flight to production is
of such an heir or of a version its customer accepted (`FlightsAreCleared`), which is what makes the
gate survive the await.  Nothing is supposed of the requests: a version may be renamed, deleted or
created again while it is accepted or under way.  The exception is the finding of section 6; the
first graduation is no exception, for it takes the events along (`GraduationKeeps`).
`StackKeepsItsData`: unless excused, a stack is one cell's and one deployment's at a time, and its
file has the password of its volume. `FloorIsItsOwn`: a run past its boot that met no other has a
stack of its own build, seeded by itself. `ProjectStaysWhole`: while a creation has inserted the
row of a slug no other has and none is committed (`SlugKept`), so whatever it does to workspace and
repository is done to nobody's; what it has pushed then stands until its commit makes it the
project's. The theorem supposes that the slugs with a repository are slugs of projects
(`ProjectAssumption`).

**`ServiceProofs`.** `StraysAreExplained`: the processes alive are those of the place the call is
at (`InPlace`), and a delay is followed by an attempt there is.  An attempt may break off at any moment
without a kill (`ClaudeBreaks`): what it leaves, the CLI included, is a stray with that cause, and the
theorem says that after every other ending the CLI is gone. `PlanIsOfOneRound`: what a round
has composed is the skeleton's feats that are not left, all of this round (`Composing`); a plan is
never ahead of the round. `IndexFollowsDisk`: two requests that are alone share no document
(`AloneIsAlone`), and one that is alone and has not failed has reached, at each point it waits at,
what its kind was to reach by then (`Reached`). `TerminalHasOneWriter`: a runtime has its row, and
an active row without a runtime has outlived a restart (`RowsAreKnown`). `ViewersStayCurrent`:
the queue of a viewer holds the newest output in order, then perhaps the sentinel, and a sentinel
is put only when the session has left the registry, after which nothing is (`WatchInv`); that
dropping the oldest of a full queue keeps this is a lemma about sequences of any length. `SecretIsOwnHolds`: of a
file that met none of the named causes (`FileKept`), at most one request is at it and one customer
points to it, the one the request is for; its text is the customer's until the request has touched
it, then the request's, so that whichever way the request ends the two agree again. The theorem
supposes that the placeholder for "no file" is neither a slug nor a secret. `CopyStaysOneMoment`:
the numbers of changes only grow, so a first set of rows that compares equal was there already when
the second was copied (`CopyFollows`): the copy is a moment of the source, and it is the comparison
of what was copied first that shows it. `NumbersKnown` carries the largest number taken along,
since that every finite set of numbers has one needs induction.  A run advances the sequence whatever
inserts are open; `behind` says that one stood open above all that were committed, and the theorem is
about the other case. The theorem supposes that deploy
events carry natural numbers (`MigrationAssumption`).

**`ClaimProofs`.** The claims of the pure modules that need no induction, for inputs of every size.
`LogExact` is the one other theorems lean on: appending a row to the table and recording its class
in the log commute, and `Has`, `Newer`, `NotOutrankedBy` and `IsLatest` answer alike on both, whatever
the classes; so what is proved about `Conversation` and `PhaseBuild` over logs is about tables that
grow for ever. `RedeploysKeepFile` supposes that what is minted is no empty string, which
`_synthetic_secret` and `token_hex` never return; `OneDatabaseOneDriver`, `RefusalIsExact`, `NudgesReachTheAbsent`,
`ProbesHear`, `NotesAreDecidedOnce`, `BlocksAskClearly` and `CommitsUnverify` suppose the shape of their
inputs at most.

**Only model-checked.** The liveness properties (`DispatchSettles`, `CheckMarkerFires`,
`PhaseDispatchSettles`, `RoundSettles`, `ViewerTold`, `BoardHeals`) and the counterexample to
`RedKontrolaReopens`: liveness under fairness is out of the provers' reach. Of the pure modules the
claims about searches, filters and folds (the free block of ports, the matrix of deployments, the
terminal's log and its replay, a block among more text): what they compute for every input needs
induction over data; `PlatformClaims` evaluates them over the inputs it lists. Every safety and
action property of the passing runs is a theorem.

## 6. Where the code and its texts disagree

Each of these has a run with a counterexample; `PROJECT.json` quotes the text.

1. `find_dead_button`: the board offers `nahlasit_znova` on a framework issue; the verb is missing
   from `_ACTIONS`, so its handler is unreachable.
2. `find_sign_after_recheck`: a re-check of a drifted version boots red, the partner asks a
   question instead of reporting, no red note is written, and `hotovo` goes by the old report.
3. `find_relay_unpauses`: a message relayed during a task resumes a build paused during that task.
4. `find_red_kontrola`: after a red check every further check is refused, although the note asks
   for one: a correction records no newer completion.
5. `find_lost_dispatch`: a request during the tail of a dispatch is skipped by `schedule_dispatch`;
   the version stays `agent_working` until the next restart.
6. `find_frozen`: two versions of one project take a turn at once; the second waits in a
   synchronous call for a row lock the first holds while it awaits the agent.
7. `find_pass_over_red`: after a PASS a later round boots or tests red and its Auditor's answer is
   unreadable; no verdict is recorded, the old PASS is still the latest, and `schvalit` finishes
   the version over the red floor.
8. `find_gate_bypassed`: a version gives up a number that a customer has accepted (`version.py` 402
   renames and 499 deletes without a look at the events); another version takes the number and goes
   to this customer's production, for `is_accepted` finds acceptances by number only, although the
   gate is "never bypassed".  `ProdGate` and `GateHolds` say which versions can get past it: those
   that came by such a number.

What the models showed besides, without a run of its own.  Where no text is named, none of the
repository says otherwise.

*The register and the runner*

* A restart between the commit of a report and of the note of a red floor leaves a report that
  reads as passed (`orchestrator.py` 5588); `hotovo` is then accepted.
* The signature binds HEAD at the moment of `hotovo`, which may not be the commit that was booted.
* A drained relay turn holds the lock of its pipeline row while it awaits the agent (2611); a
  request on the same version that passes the guards then freezes the loop too.
* A message relayed between the request and the pick-up of its turn makes the marker of a plan or
  a check not the latest message (5295): the turn runs as an ordinary chat.
* An exception in a consultation leaves a finished version blocked at the terminal stage (5275).
* The block of a framework issue is lifted by `ask` and by a correction like any other.
* The relay queue is lost with a restart, and waits for the next dispatch after an exception.

*The phases, the rounds, the agent*

* A fix nobody vetted is run by `ask` on a card that offers guidance only; `schvalit` at programovanie
  passes over failed tasks; the automatic sign-off of a fast fix does not compare the verified
  commit with HEAD.
* A crash is "auto-retried ONCE per dispatch", but the parse retries inside re-invoke the agent
  too; the notice of lost work is keyed on the baseline, not on the attempt.
* The plan round of the conversation register records its report under stage `priprava`, while
  `_fetch_cross_cutting_rules` and `_latest_navrh_gate_report_payload` read stage `navrh` only
  (docstring at 5719).  `_write_task_plan` says that on a failure nothing is written; when
  `task-plan.md` cannot be written the new rows stay.  A plan pass that timed out is invoked again
  when no baseline was armed, though a comment says never.
* A `framework_issue` or a `done` block is recorded as a gate report, so a kontrola turn that met a
  fault of the framework counts as reported.  A plan pass with invalid structured output is refused
  although its fence holds a valid plan, where `invoke_agent` falls back to the fence (a comment at
  3173 says the path is the same).
* Only a timeout kills: an attempt that ends by any other exception out of the stream (a line longer
  than the limit) or by a cancellation leaves the CLI and its helpers at work (`claude_agent.py`
  532-549, 657-670).
* Once the CLI has exited, the kill finds no process group, and its helpers stay; the error branch of
  the sandbox leaves its container; `proc.wait()` after the end of the output has no timeout.

*Deployment*

* A deployment tells from the version as it was read before the await: one that was renamed
  meanwhile is recorded under its old number, and two first deployments that overlap may graduate
  twice, the second landing over events the first has moved.  A clash with an existing v1.0.0
  raises after the stack is up.  HEAD may move between the gate and the build; a patch may take a
  released version back.
* `force_fresh` mints a new password over an existing volume; stack names join customer and
  application without an escape; the smoke stack is one for all versions of a project, and a failed
  teardown is ignored.
* A value filled in for a placeholder is overwritten by each redeployment, while
  `docs/specs/versions/v0.2.0/spec/F-003-uat-environment.md:658` has the director fill it in before
  the deployment; a URL other than `DATABASE_URL` is rendered as in the source although the driver
  check reads it.
* A route that answered, but not at the last attempt, counts as not probed, so UAT passes with a
  warning; the first answer of the release-notes probe is final even when it is a 5xx.
* `suggest_next_port` ignores the reserved ranges that the search for a block keeps to.

*The stores and the browser*

* Overlapping captures of one message may create two requirements ("idempotent per source
  message"); a requirement can be assigned to a released version; deleting a version leaves its
  requirements included in none.  The release gate reads epics only.
* Overlapping updates of a document leave both texts in the index, a failed embedding none; the
  script's `--delete` leaves the file.
* A secret is written before its row is committed; the old slug of a renamed customer cannot be
  created again with a secret.  A project's clean-up comes after its row is gone, and removes the
  workspace and the repository of a successor under the same slug; ports have no unique constraint.
* An interrupted migration does not advance the sequence when it is run again.  `advance_deploy_seq`
  goes by the events it sees: under an insert that is still open above them the sequence is set back,
  and its number given out again, although the next insert "cannot collide" (`copier.py` 374).
* A reconcile of the board brings the last 50 messages: an older one whose frame was missed stays
  missed.
* Deleting a credential through its own API asks for no request that is on its file.
* An answer to a request about a version that the Manager has left is put on the board of the
  next one (`usePipelineWs.ts` 216); `state_changed` carries no offered actions, which lag until the
  next reconcile; the snapshot is read before the socket is registered, so a frame between is lost.
  A connection counts as present until its first presence frame.
* A terminal over the engine's conversation is respawned after a restart without asking whether
  the engine works (the gate of `routes/pipeline.py` 515 is on its creation only); a viewer whose
  queue is full is never told that the session ended.

## 7. Plan

Done: the register, the runner and the abstract machine; the phase automaton; the build and plan
rounds, the agent's invocation and the runtime floor; deployment, instances and terminals; the
stores (customers, projects, work items, backlog, knowledge, migration); the board in the browser;
the pure parts; and the theorems of section 5.

What would add most, in this order:

1. The plan stretch of `PhaseBuild` and `PlanRound` under one abstract plan, as the build loop and
   `BuildRound` are under `BuildTask`.
2. `Runner` and `Conversation` in one specification: the tail of a dispatch against the full set of
   verbs, which needs a coarser log to stay within reach of TLC.
3. The provisioning of `Release` in the steps of `Instances`: an event written over a stack that
   another deployment has replaced.

## 8. Not modelled, and why

`PROJECT.json` says for every part what is modelled.

* Rendering and I/O: the texts of compose files, prompts, briefs, release notes, live documents and
  specifications, the files of a project template, the escalation report, Telegram itself.
* Read-only aggregation: metrics, search ranking, the presentation of the board.
* CRUD over single rows whose rules are database constraints: users and their sessions, settings,
  bugs, notes.  The engine takes the acting user as given.
* The frontend beside the state of the board, the schema migrations, the hooks and operations
  scripts: nothing they do meets a running pipeline.
* Code no caller reaches: `_latest_uat_deploy`, `_project_is_deployable`,
  `_uat_render_needs_reprovision` with `_existing_render_fails_h1`, `_run_release_publish` with
  `_run_publish_step` and `_resolve_pushed_ci_run`, `_reset_tasks_for_surgical_fix` with
  `_resolve_surgical_targets`.
* In the parts that are modelled: the waiting clock and the cost bookkeeping, the refusal of
  `approve_spec` when a checkout lacks its specification file (an extra refusal), editing tasks by hand
  through their CRUD routes while a build runs, more than one project (the sessions of two
  projects do not meet), and what each module's head comment leaves out.
