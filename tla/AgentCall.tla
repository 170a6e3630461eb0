------------------------------ MODULE AgentCall ------------------------------
(***************************************************************************)
(* One invocation of the agent, as invoke_agent makes it: the claude CLI,  *)
(* as a subprocess of the engine or, for a consultation, in a container    *)
(* that a docker client of the engine runs; its timeout, the kill, what    *)
(* else ends the wait, and the retries of a transient error.               *)
(*                                                                         *)
(* The processes are actors of their own: the CLI starts helpers in its    *)
(* process group and may exit before them, the docker client may die while *)
(* the daemon still runs its container, the engine restarts.  Left out:    *)
(* the stream of events, the usage and the turn logs, and the answer       *)
(* itself (module BuildRound has what becomes of it).                      *)
(***************************************************************************)
EXTENDS Naturals

CONSTANT Attempts  \* one more than the delays of _TRANSIENT_BACKOFF

\* claude and its helpers are one process group of the engine's container; the
\* client is the docker run process, the container is the daemon's.
Processes == {"claude", "helper", "client", "container"}
Places    == {"rest", "launch", "claude", "sidecar", "backoff"}
Results   == {"ok", "error", "transient", "unavailable"}
Causes    == {"its call", "leader exited", "client exited", "rm failed", "restart", "no timeout"}

VARIABLES
  call,    \* where the call is, its attempt, whether it is a consultation, and
           \* whether this attempt is to run in a container
  result,  \* what the last process the call waited for has printed
  alive,   \* the processes of this attempt that run
  strays   \* processes that outlived their attempt, with what let them

callVars == <<call, result, alive, strays>>

Call == [at : Places, attempt : 1..Attempts, consult : BOOLEAN, sandbox : BOOLEAN]

At(place) == [call EXCEPT !.at = place]

\* What lets a process outlive an attempt that ends now.
Cause(p) ==
  IF p = "helper" /\ "claude" \notin alive THEN "leader exited"
  ELSE IF p = "container" /\ "client" \notin alive THEN "client exited"
  ELSE "its call"

Left(ps, cause) == {[process |-> p, cause |-> cause] : p \in ps}

\* The attempt is over, and these processes still run.
Over(ps) ==
  /\ alive' = {}
  /\ strays' = strays \cup UNION {Left({p}, Cause(p)) : p \in ps}

-----------------------------------------------------------------------------
(* The engine *)

\* invoke_agent resolves the session and calls invoke_claude.
BeginCall(consult) ==
  /\ call.at = "rest"
  /\ call' = [at |-> "launch", attempt |-> 1, consult |-> consult, sandbox |-> consult]
  /\ UNCHANGED <<result, alive, strays>>

\* _load_charter, or the spawn, raises.
LaunchFails ==
  /\ call.at = "launch" /\ call' = At("rest")
  /\ UNCHANGED <<result, alive, strays>>

\* build_claude_argv, create_subprocess_exec: in a session of its own.
Launch ==
  /\ call.at = "launch" /\ ~call.sandbox
  /\ call' = At("claude") /\ alive' = {"claude"}
  /\ UNCHANGED <<result, strays>>

\* run_consult_in_sandbox: docker run.
LaunchSidecar ==
  /\ call.at = "launch" /\ call.sandbox
  /\ call' = At("sidecar") /\ alive' = {"client"}
  /\ UNCHANGED <<result, strays>>

\* CONSULT_SANDBOX is off, or SidecarUnavailable: the turn runs in-process.
Degrade ==
  /\ call.at = "launch" /\ call.sandbox
  /\ call' = [call EXCEPT !.sandbox = FALSE]
  /\ UNCHANGED <<result, alive, strays>>

\* invoke_claude: an error that looks like an overload is tried again after a
\* delay, any other ends the call.
Raised ==
  IF result = "transient" /\ call.attempt < Attempts THEN At("backoff") ELSE At("rest")

\* The CLI has exited and its output is at its end.
ClaudeAnswers ==
  /\ call.at = "claude" /\ "claude" \notin alive
  /\ call' = IF result = "ok" THEN At("rest") ELSE Raised
  /\ Over(alive) /\ UNCHANGED result

\* The docker client has exited; an error that names the daemon or the image
\* degrades the attempt to an in-process one.
SidecarAnswers ==
  /\ call.at = "sidecar" /\ "client" \notin alive
  /\ call' = CASE result = "ok"          -> At("rest")
               [] result = "unavailable" -> [call EXCEPT !.at = "launch", !.sandbox = FALSE]
               [] OTHER                  -> Raised
  /\ Over(alive) /\ UNCHANGED result

\* Slip: the leader is killed, its group is not.
KillLeader == alive \ {"claude"}

\* _kill_process_tree: the group, as long as its leader is there to name it.
KillTree == IF "claude" \in alive THEN alive \ {"claude", "helper"} ELSE alive

\* asyncio.wait_for around the output ends the attempt and the call.
ClaudeTimesOut ==
  /\ call.at = "claude" /\ call' = At("rest")
  /\ Over(KillTree) /\ UNCHANGED result

\* Anything but the timeout ends the wait - an error of the pipe, a line over the
\* limit of the reader, a cancellation - and with it the call: nothing is killed.
ClaudeBreaks ==
  /\ call.at = "claude" /\ call' = At("rest")
  /\ alive' = {} /\ strays' = strays \cup Left(alive, "no timeout")
  /\ UNCHANGED result

\* Whatever ends the wait for the container, a timeout, a cancellation or an error:
\* the client is killed, and _reap_container removes the container, unless docker
\* rm fails or is late.
SidecarTimesOut ==
  /\ call.at = "sidecar" /\ call' = At("rest")
  /\ \/ Over({})
     \/ alive' = {} /\ strays' = strays \cup Left(alive \cap {"container"}, "rm failed")
  /\ UNCHANGED result

\* The delay is over: the same call once more.
Retry ==
  /\ call.at = "backoff"
  /\ call' = [call EXCEPT !.at = "launch", !.attempt = @ + 1, !.sandbox = call.consult]
  /\ UNCHANGED <<result, alive, strays>>

\* The engine's container restarts, and the processes in it end.
EngineRestarts ==
  /\ call' = At("rest") /\ alive' = {}
  /\ strays' = {s \in strays : s.process = "container"}
               \cup Left(alive \cap {"container"}, "restart")
  /\ UNCHANGED result

-----------------------------------------------------------------------------
(* The processes *)

Exits(ps, outcomes) ==
  /\ alive' = alive \ ps /\ result' \in outcomes
  /\ UNCHANGED <<call, strays>>

HelperStarts ==
  /\ "claude" \in alive /\ alive' = alive \cup {"helper"}
  /\ UNCHANGED <<call, result, strays>>

HelperExits ==
  /\ "helper" \in alive /\ alive' = alive \ {"helper"}
  /\ UNCHANGED <<call, result, strays>>

ClaudeExits == "claude" \in alive /\ Exits({"claude"}, {"ok", "error", "transient"})

\* The daemon starts the container the client asked for.
ContainerStarts ==
  /\ "client" \in alive /\ alive' = alive \cup {"container"}
  /\ UNCHANGED <<call, result, strays>>

\* The CLI in the container exits, and the client with its output.
ContainerExits ==
  "container" \in alive /\ Exits({"container", "client"}, {"ok", "error", "transient"})

\* The client fails by itself: before the container runs, or cut off from it.
ClientExits == "client" \in alive /\ Exits({"client"}, {"error", "unavailable"})

StrayExits ==
  /\ \E s \in strays : strays' = strays \ {s}
  /\ UNCHANGED <<call, result, alive>>

-----------------------------------------------------------------------------

CallInit ==
  /\ call = [at |-> "rest", attempt |-> 1, consult |-> FALSE, sandbox |-> FALSE]
  /\ result = "ok" /\ alive = {} /\ strays = {}

CallNext ==
  \/ \E consult \in BOOLEAN : BeginCall(consult)
  \/ LaunchFails \/ Launch \/ LaunchSidecar \/ Degrade
  \/ ClaudeAnswers \/ SidecarAnswers \/ ClaudeTimesOut \/ ClaudeBreaks \/ SidecarTimesOut
  \/ Retry \/ EngineRestarts
  \/ HelperStarts \/ HelperExits \/ ClaudeExits
  \/ ContainerStarts \/ ContainerExits \/ ClientExits \/ StrayExits

CallSpec == CallInit /\ [][CallNext]_callVars

-----------------------------------------------------------------------------
(* Properties *)

CallTypeOK ==
  /\ call \in Call /\ result \in Results /\ alive \subseteq Processes
  /\ strays \subseteq [process : Processes, cause : Causes]

\* A process that outlives its attempt has a reason for it: nothing outlives a
\* timeout, an answer, a retry or a degraded consultation but a helper whose leader
\* had exited before it, and a container whose client died, whose removal failed
\* or whose engine restarted.  The CLI itself outlives only a wait that something
\* else than its timeout ended, the docker client nothing at all.
Explained(s) ==
  /\ s.cause # "its call" /\ s.process # "client"
  /\ s.process = "claude" => s.cause = "no timeout"

NoStray ==
  /\ \A s \in strays : Explained(s)
  /\ call.at \notin {"claude", "sidecar"} => alive = {}
=============================================================================
