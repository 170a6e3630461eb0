------------------------------ MODULE ServeCheck ------------------------------
(***************************************************************************)
(* How the engine finds out over HTTP whether a stack serves: after a      *)
(* deployment, and in a smoke run.  Pure: a probe is the sequence of what  *)
(* its attempts met, up to the last that the time limit allows.            *)
(***************************************************************************)
EXTENDS Naturals, Sequences, SequencesExt

\* What an attempt meets: an answer by its status, no answer, a probe that was
\* killed or not started, a container that does not run.
Answered == {"2xx", "4xx", "404", "5xx"}
Met      == Answered \cup {"none", "killed", "stopped"}

\* _readiness_probe_src: whatever is not a server error counts as ready.
Ready(tries) == ToSet(tries) \cap {"2xx", "4xx", "404"} # {}

\* _traefik_public_route_probe_src: 404 is the proxy's own, its host rule is missing.
\* The exit status of a probe that could not run tells nothing apart from 1.
RouteExit(met) ==
  IF met \in {"2xx", "4xx"} THEN 0 ELSE IF met \in {"404", "5xx", "stopped"} THEN 1 ELSE 2

\* _verify_public_route: one good attempt is enough, else the last attempt decides.
PublicRoute(tries) ==
  IF \E i \in DOMAIN tries : RouteExit(tries[i]) = 0 THEN "ok"
  ELSE IF RouteExit(Last(tries)) = 1 THEN "down" ELSE "skip"

\* _compose_backend_port and _compose_frontend_port: of the first entry of "ports".
ComposePort(ports, default) ==
  IF ports = <<>> \/ ports[1].container = "unreadable" THEN default ELSE ports[1].container

-----------------------------------------------------------------------------
(* Deployment *)

\* The probe that the instance at hand admits: none without its compose file, a source
\* that can be read, and a backend to probe from.
Probed(inst) == inst.compose /\ inst.source /\ inst.backend

\* _verify_uat_serves
Serves(env, inst, be, fe, route) ==
  IF ~Probed(inst) THEN "ok"
  ELSE IF ~Ready(be) THEN "failed"
  ELSE IF ~inst.frontend THEN "ok"
  ELSE IF ~Ready(fe) \/ PublicRoute(route) = "down" THEN "failed"
  ELSE IF PublicRoute(route) = "ok" THEN "ok"
  ELSE IF env = "prod" THEN "failed" ELSE "warned"

-----------------------------------------------------------------------------
(* Smoke *)

\* _run_app_starts_smoke: a backend without a readable port is not probed, a lone
\* worker not at all.
Boots(inst, ports, be, fe) ==
  /\ ComposePort(ports, "unknown") # "unknown" => Ready(be)
  /\ inst.frontend /\ inst.backend => Ready(fe)

\* _check_aktualizacie_frontend: the page, a route to it, a way to it in the menu.
FrontendShowsNotes(src) == (src.page \/ src.import) /\ src.route /\ src.nav

\* _evaluate_release_notes, of an answer [status, list] whose body lists versions.
NotesListed(answer, version) == answer.status = "2xx" /\ version \in answer.list

\* _probe_release_notes: the first answer is the verdict, only its absence is retried.
NotesServed(answers, version) ==
  LET heard == {i \in DOMAIN answers : answers[i].status \in Answered} IN
  \E i \in heard : (\A j \in heard : i <= j) /\ NotesListed(answers[i], version)

\* _run_aktualizacie_gate
NotesGate(inst, src, ports, answers, version) ==
  inst.frontend /\ inst.backend =>
    /\ FrontendShowsNotes(src)
    /\ ComposePort(ports, "unknown") # "unknown" => NotesServed(answers, version)

-----------------------------------------------------------------------------
(* Claims *)

\* A web app whose compose file shows the backend's port is not taken for booted, nor
\* its notes for served, unless the backend answered.
SmokeHeardIt(inst, src, ports, be, fe, answers, version) ==
  inst.frontend /\ inst.backend /\ ComposePort(ports, "unknown") # "unknown" =>
    /\ Boots(inst, ports, be, fe) => Ready(be) /\ Ready(fe)
    /\ NotesGate(inst, src, ports, answers, version) => \E i \in DOMAIN answers : answers[i].status = "2xx"

\* PROD is only reported deployed when backend, frontend and public address answered.
ProdIsReachable(inst, be, fe, route) ==
  Serves("prod", inst, be, fe, route) = "ok" /\ Probed(inst) =>
    /\ Ready(be)
    /\ inst.frontend => Ready(fe) /\ PublicRoute(route) = "ok"

\* UAT is reported deployed over a public address that did not answer well only with
\* a warning, and PROD never is where UAT failed.
UatWarnsAboutItsRoute(inst, be, fe, route) ==
  /\ Serves("uat", inst, be, fe, route) = "ok" /\ Probed(inst) /\ inst.frontend
       => PublicRoute(route) = "ok"
  /\ Serves("uat", inst, be, fe, route) = "failed" => Serves("prod", inst, be, fe, route) = "failed"

\* What a probe has heard well stays heard: an outage after it changes nothing.
HeardStaysHeard(tries, met) ==
  /\ Ready(tries) => Ready(Append(tries, met))
  /\ PublicRoute(tries) = "ok" => PublicRoute(Append(tries, met)) = "ok"

\* Notes that are served wrongly at first are never mended by waiting, notes that are
\* served late are.
FirstNotesDecide(answers, later, version) ==
  IF \E i \in DOMAIN answers : answers[i].status \in Answered
  THEN NotesServed(Append(answers, later), version) = NotesServed(answers, version)
  ELSE NotesServed(Append(answers, later), version) = NotesListed(later, version)
=============================================================================
