------------------------------- MODULE Release -------------------------------
(***************************************************************************)
(* The versions of one project and their deployment to its customers:      *)
(* create, change, release and delete a version; deploy it to a customer's *)
(* UAT, accept it there, deploy it to PROD; the first PROD deployment of   *)
(* the project graduates the version to v1.0.0 in place.                   *)
(*                                                                         *)
(* A deployment reads its gates, awaits the provisioning, and writes its   *)
(* event after it: every other request may run in between, and what it     *)
(* writes is told from the version as it was read before.  Events name a   *)
(* version by its number, and nothing keeps a number from being given up   *)
(* and taken again; the field "of" remembers the row that carried it,      *)
(* which the code does not store.  Left out: failed attempts and the order *)
(* of the events, which only the deploy matrix shows, the date of a        *)
(* release, and the gates that read no state of this module:               *)
(* version_verified, a missing administrator password, the epics that      *)
(* release and delete ask for (module WorkItems has them).  A refused      *)
(* request is no step.                                                     *)
(***************************************************************************)
EXTENDS Naturals, FiniteSets

CONSTANTS
  VersionIds,       \* version rows
  Customers,  \* customers of the project
  Numbers,    \* version numbers
  V1,         \* FIRST_PROD_VERSION, one of them
  Flights,    \* slots for deployments under way at once
  MaxEvents   \* bound: events on record at once

VersionStatuses == {"planned", "active", "released"}
VersionRow      == [number : Numbers, status : VersionStatuses]
NoVersion       == [number |-> "none", status |-> "planned"]   \* not created yet
Deleted         == [number |-> "none", status |-> "released"]  \* ids are not given out twice

Environments == {"uat", "prod"}
Events   == [customer : Customers, number : Numbers, env : Environments,
             type : {"deploy", "accept"}, of : VersionIds]
\* number and released: the version as the session has read it; the status matters
\* to a first PROD deployment only.
Deploys  == [customer : Customers, row : VersionIds, env : Environments,
             number : Numbers, first : BOOLEAN, released : BOOLEAN]
NoFlight == [number |-> "none"]

VARIABLES
  versions,  \* the row's version, NoVersion or Deleted
  events,    \* deploy events on record
  flights,   \* deployments that await their runner
  disowned,  \* history: numbers a version gave up by hand, an acceptance left behind
  heirs      \* history: rows that came by a disowned number

releaseVars == <<versions, events, flights, disowned, heirs>>

-----------------------------------------------------------------------------
(* Queries *)

Exists(r) == versions[r].number # "none"
Named(n)  == {r \in VersionIds : Exists(r) /\ versions[r].number = n}

Accepts          == {e \in events : e.type = "accept"}
AcceptedBy(c, r) == \E a \in Accepts : a.customer = c /\ a.of = r
LeftUnder(n)     == \E a \in Accepts : a.number = n

RoomForEvent == Cardinality(events) < MaxEvents

\* The versions change, and the acceptances under these numbers are left behind.
Disowns(numbers) ==
  /\ disowned' = disowned \cup {n \in numbers : LeftUnder(n)}
  /\ heirs' = heirs \cup {r \in VersionIds : versions'[r].number \in disowned'}

\* Whether the customer has an event of this kind for the number.
HasEvent(c, n, env, type) ==
  \E e \in events : e.customer = c /\ e.number = n /\ e.env = env /\ e.type = type

is_accepted(c, n) == HasEvent(c, n, "uat", "accept")

project_had_prod_deploy == \E e \in events : e.env = "prod"

-----------------------------------------------------------------------------
(* Versions *)

CreateVersion(r, n) ==
  /\ versions[r] = NoVersion /\ Named(n) = {}
  /\ versions' = [versions EXCEPT ![r] = [number |-> n, status |-> "planned"]]
  /\ Disowns({})
  /\ UNCHANGED <<events, flights>>

Status(r, status) ==
  /\ versions' = [versions EXCEPT ![r].status = status]
  /\ UNCHANGED <<events, flights, disowned, heirs>>

\* update: any status but released may be set, from released too.
UpdateStatus(r, status) ==
  Exists(r) /\ status \notin {"released", versions[r].status} /\ Status(r, status)

\* update of the number: whatever is on record or under way for the old one.
Rename(r, n) ==
  /\ Exists(r) /\ Named(n) = {}
  /\ versions' = [versions EXCEPT ![r].number = n]
  /\ Disowns({versions[r].number})
  /\ UNCHANGED <<events, flights>>

release(r) == Exists(r) /\ versions[r].status # "released" /\ Status(r, "released")

DeleteVersion(r) ==
  /\ Exists(r) /\ versions[r].status # "released"
  /\ versions' = [versions EXCEPT ![r] = Deleted]
  /\ Disowns({versions[r].number})
  /\ UNCHANGED <<events, flights>>

\* The first epic of the plan is taken up.
auto_activate(r) == Exists(r) /\ versions[r].status = "planned" /\ Status(r, "active")

-----------------------------------------------------------------------------
(* Deployment *)

Event(c, n, env, type, r) ==
  [customer |-> c, number |-> n, env |-> env, type |-> type, of |-> r]

\* accept: the number has been deployed to this customer's UAT.
accept(c, n) ==
  /\ HasEvent(c, n, "uat", "deploy") /\ RoomForEvent
  /\ \E r \in Named(n) : events' = events \cup {Event(c, n, "uat", "accept", r)}
  /\ UNCHANGED <<versions, flights, disowned, heirs>>

\* deploy up to its await: resolve the version, check the acceptance for PROD,
\* and decide whether this is the first PROD deployment.
DeployStarts(f, c, n, env) ==
  LET first == env = "prod" /\ ~project_had_prod_deploy IN
  /\ flights[f] = NoFlight
  /\ env = "prod" => is_accepted(c, n)
  /\ \E r \in Named(n) :
       flights' = [flights EXCEPT ![f] =
         [customer |-> c, row |-> r, env |-> env, number |-> n, first |-> first,
          released |-> first /\ versions[r].status = "released"]]
  /\ UNCHANGED <<versions, events, disowned, heirs>>

Lands(f) == flights[f] # NoFlight /\ flights' = [flights EXCEPT ![f] = NoFlight]

\* A later deployment: its event names the number that was asked for.
DeployLands(f) ==
  LET d == flights[f] IN
  /\ Lands(f) /\ ~d.first /\ RoomForEvent
  /\ events' = events \cup {Event(d.customer, d.number, d.env, "deploy", d.row)}
  /\ UNCHANGED <<versions, disowned, heirs>>

\* Slip: the graduated version takes its new number, its events keep the old one.
RepointNothing(old) == events

\* The events of the project follow the version to its new number.
Repointed(old) == {IF e.number = old THEN [e EXCEPT !.number = V1] ELSE e : e \in events}

\* Another version carries v1.0.0.
Clash(d) == d.number # V1 /\ Named(V1) \ {d.row} # {}

\* A number or a status that is as it was read is not written again.
Graduated(d) ==
  [versions EXCEPT ![d.row] = [number |-> IF d.number = V1 THEN @.number ELSE V1,
                               status |-> IF d.released THEN @.status ELSE "released"]]

\* What a graduation leaves behind when its version was renamed under it, and
\* when it takes along the acceptances of another version.
Muddled(d) ==
  IF d.number = V1 THEN {}
  ELSE {n \in Numbers : \/ n = versions[d.row].number /\ n \notin {d.number, V1} /\ LeftUnder(n)
                        \/ n = V1 /\ \E a \in Accepts : a.number = d.number /\ a.of # d.row}

\* The first PROD deployment graduates its version in place.  The row must be
\* there to be written; a v1.0.0 that was released as it was read has nothing to
\* be written but the date.
FirstProdLands(f) ==
  LET d == flights[f] IN
  /\ Lands(f) /\ d.first /\ ~Clash(d) /\ RoomForEvent
  /\ Exists(d.row) \/ (d.number = V1 /\ d.released)
  /\ versions' = Graduated(d)
  /\ events' = Repointed(d.number) \cup {Event(d.customer, V1, d.env, "deploy", d.row)}
  /\ disowned' = disowned \cup Muddled(d)
  /\ heirs' = heirs \cup {r \in VersionIds : versions'[r].number \in disowned'}

\* It raises, and all it wrote is rolled back: the instance stays deployed.
GraduationRaises(f) ==
  /\ Lands(f) /\ flights[f].first /\ (Clash(flights[f]) \/ ~Exists(flights[f].row))
  /\ UNCHANGED <<versions, events, disowned, heirs>>

\* The runner failed: only a failed attempt is recorded.
DeployFails(f) == Lands(f) /\ UNCHANGED <<versions, events, disowned, heirs>>

\* The customer is deleted; its events go with it, and a deployment under way for
\* it finds nobody to record its event for.
CustomerGone(c) ==
  LET its(f) == flights[f] # NoFlight /\ flights[f].customer = c IN
  /\ (\E e \in events : e.customer = c) \/ (\E f \in Flights : its(f))
  /\ events' = {e \in events : e.customer # c}
  /\ flights' = [f \in Flights |-> IF its(f) THEN NoFlight ELSE flights[f]]
  /\ UNCHANGED <<versions, disowned, heirs>>

\* The process restarts: what awaited its runner leaves no event.
ReleaseRestart ==
  /\ \E f \in Flights : flights[f] # NoFlight
  /\ flights' = [f \in Flights |-> NoFlight]
  /\ UNCHANGED <<versions, events, disowned, heirs>>

ReleaseInit ==
  /\ versions = [r \in VersionIds |-> NoVersion] /\ events = {} /\ flights = [f \in Flights |-> NoFlight]
  /\ disowned = {} /\ heirs = {}

ReleaseNext ==
  \/ \E r \in VersionIds, n \in Numbers : CreateVersion(r, n) \/ Rename(r, n)
  \/ \E r \in VersionIds : release(r) \/ DeleteVersion(r) \/ auto_activate(r)
  \/ \E r \in VersionIds, status \in VersionStatuses : UpdateStatus(r, status)
  \/ \E c \in Customers, n \in Numbers : accept(c, n)
  \/ \E f \in Flights, c \in Customers, n \in Numbers, env \in Environments :
       DeployStarts(f, c, n, env)
  \/ \E f \in Flights :
       DeployLands(f) \/ FirstProdLands(f) \/ GraduationRaises(f) \/ DeployFails(f)
  \/ \E c \in Customers : CustomerGone(c)
  \/ ReleaseRestart

ReleaseSpec == ReleaseInit /\ [][ReleaseNext]_releaseVars

-----------------------------------------------------------------------------
(* Properties *)

ReleaseTypeOK ==
  /\ versions \in [VersionIds -> VersionRow \cup {NoVersion, Deleted}]
  /\ events \subseteq Events
  /\ flights \in [Flights -> Deploys \cup {NoFlight}]
  /\ disowned \subseteq Numbers /\ heirs \subseteq VersionIds

\* Whatever is deployed to a customer's PROD is a version that this customer has
\* accepted on its UAT - over the renaming of the first graduation, numbers that
\* are free again, overlapping deployments, deletions and restarts - unless the
\* version came by a number that an accepted version had given up by hand, or took
\* the acceptances of another one along in a second landing of its graduation.
ProdGate ==
  \A e \in events : e.env = "prod" /\ e.of \notin heirs => AcceptedBy(e.customer, e.of)

\* The PROD gate as deploy states it, without that exception: "PROD opens for a
\* customer/version ONLY once the Manazer has accepted that customer's UAT of that
\* version", "never bypassed".
NeverBypassed ==
  \A e \in events : e.env = "prod" => AcceptedBy(e.customer, e.of)
=============================================================================
