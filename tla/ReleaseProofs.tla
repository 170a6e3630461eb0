---------------------------- MODULE ReleaseProofs ----------------------------
(***************************************************************************)
(* What is promised of a version on its way to the customer, for any       *)
(* number of versions, customers, stacks and deployments at once: a        *)
(* version reaches PROD only accepted, as long as no accepted number was   *)
(* given up and taken again, a stack reaches its own database, and a green *)
(* floor was measured on the run's own build. And what is                  *)
(* promised of a project: its ports, workspace and repository stay its own *)
(* while others are created and deleted. The four components share no      *)
(* state.                                                                  *)
(***************************************************************************)
EXTENDS Release, Instances, ReleaseSmoke, ProjectCreation, TLAPS

\* No two versions carry one number.
NumbersAreOwn ==
  \A r, s \in VersionIds : Exists(r) /\ versions[r].number = versions[s].number => r = s

\* An acceptance goes with its version, whatever number that takes, until the
\* number is given up by hand.
AcceptsFollow ==
  \A a \in Accepts : a.number \notin disowned => versions[a.of].number = a.number

HeirsAreKnown ==
  \A r \in VersionIds : versions[r].number \in disowned => r \in heirs

\* A deployment to PROD that awaits its runner passed the gate, and still would.
FlightsAreCleared ==
  \A f \in Flights :
    flights[f] # NoFlight /\ flights[f].env = "prod" /\ flights[f].row \notin heirs
      => AcceptedBy(flights[f].customer, flights[f].row)

ReleaseInv ==
  /\ ReleaseTypeOK
  /\ NumbersAreOwn /\ AcceptsFollow /\ HeirsAreKnown /\ FlightsAreCleared
  /\ ProdGate

-----------------------------------------------------------------------------
(* Rows *)

LEMMA ReleaseInitial == ReleaseInit => ReleaseInv
<1> SUFFICES ASSUME ReleaseInit PROVE ReleaseInv OBVIOUS
<1>1. ReleaseTypeOK BY DEF ReleaseInit, ReleaseTypeOK
<1>2. NumbersAreOwn BY DEF ReleaseInit, NumbersAreOwn, Exists, NoVersion
<1>3. AcceptsFollow /\ HeirsAreKnown BY DEF ReleaseInit, AcceptsFollow, HeirsAreKnown, Accepts
<1>4. FlightsAreCleared /\ ProdGate BY DEF ReleaseInit, FlightsAreCleared, ProdGate
<1> QED BY <1>1, <1>2, <1>3, <1>4 DEF ReleaseInv

LEMMA RowIsTyped ==
  ASSUME "none" \notin Numbers, ReleaseTypeOK, NEW r \in VersionIds
  PROVE  /\ versions[r].number \in Numbers \cup {"none"}
         /\ Exists(r) => versions[r] \in VersionRow
<1>1. versions[r] \in VersionRow \/ versions[r] = NoVersion \/ versions[r] = Deleted BY DEF ReleaseTypeOK
<1>2. CASE versions[r] \in VersionRow BY <1>2 DEF VersionRow
<1>3. NoVersion.number = "none" /\ Deleted.number = "none" BY DEF NoVersion, Deleted
<1> QED BY <1>1, <1>2, <1>3 DEF Exists

\* One row is written.
LEMMA RowWritten ==
  ASSUME ReleaseTypeOK, NEW r \in VersionIds, NEW v \in VersionRow \cup {NoVersion, Deleted},
         versions' = [versions EXCEPT ![r] = v]
  PROVE  /\ versions' \in [VersionIds -> VersionRow \cup {NoVersion, Deleted}]
         /\ versions'[r] = v /\ \A s \in VersionIds : s # r => versions'[s] = versions[s]
<1> DEFINE S == VersionRow \cup {NoVersion, Deleted}
<1>1. versions \in [VersionIds -> S] /\ v \in S BY DEF ReleaseTypeOK
<1> HIDE DEF S
<1>2. [versions EXCEPT ![r] = v] \in [VersionIds -> S] BY <1>1
<1> QED BY <1>1, <1>2 DEF S

\* A number of its own keeps the numbers apart.
LEMMA NumbersStayOwn ==
  ASSUME NumbersAreOwn, NEW r \in VersionIds,
         \A s \in VersionIds : s # r => versions'[s] = versions[s],
         versions'[r].number = "none" \/ \A s \in VersionIds : s # r => versions[s].number # versions'[r].number
  PROVE  NumbersAreOwn'
BY DEF NumbersAreOwn, Exists

\* Versions change their numbers, and those under which an acceptance stands are
\* disowned.
LEMMA VersionsMayChange ==
  ASSUME "none" \notin Numbers, ReleaseInv, UNCHANGED <<events, flights>>,
         versions' \in [VersionIds -> VersionRow \cup {NoVersion, Deleted}], NumbersAreOwn',
         disowned \subseteq disowned', disowned' \subseteq Numbers,
         heirs' = heirs \cup {r \in VersionIds : versions'[r].number \in disowned'},
         \A r \in VersionIds : \/ versions'[r].number = versions[r].number
                               \/ LeftUnder(versions[r].number) => versions[r].number \in disowned'
  PROVE  ReleaseInv'
<1> USE DEF ReleaseInv
<1>1. ReleaseTypeOK' BY DEF ReleaseTypeOK
<1>2. AcceptsFollow'
  <2> SUFFICES ASSUME NEW a \in Accepts, a.number \notin disowned'
               PROVE  versions'[a.of].number = a.number
    BY DEF AcceptsFollow, Accepts
  <2>1. a.of \in VersionIds /\ versions[a.of].number = a.number
    BY DEF Accepts, ReleaseTypeOK, Events, AcceptsFollow
  <2> QED BY <2>1 DEF LeftUnder
<1>3. HeirsAreKnown' BY DEF HeirsAreKnown
<1>4. \A c, r : AcceptedBy(c, r) => AcceptedBy(c, r)' BY DEF AcceptedBy, Accepts
<1>5. FlightsAreCleared' BY <1>4 DEF FlightsAreCleared
<1>6. ProdGate' BY <1>4 DEF ProdGate
<1> QED BY <1>1, <1>2, <1>3, <1>5, <1>6

\* A status changes: numbers and rows stay.
LEMMA StatusMayChange ==
  ASSUME "none" \notin Numbers, ReleaseInv, NEW r \in VersionIds, Exists(r), NEW status \in VersionStatuses,
         Status(r, status)
  PROVE  ReleaseInv'
<1> DEFINE v == [versions[r] EXCEPT !.status = status]
<1>1. v \in VersionRow /\ v.number = versions[r].number BY RowIsTyped DEF VersionRow, ReleaseInv
<1>2. versions' = [versions EXCEPT ![r] = v] /\ UNCHANGED <<events, flights, disowned, heirs>>
  BY DEF Status
<1> HIDE DEF v
<1>3. /\ versions' \in [VersionIds -> VersionRow \cup {NoVersion, Deleted}]
      /\ \A s \in VersionIds : versions'[s].number = versions[s].number
  BY <1>1, <1>2, RowWritten DEF ReleaseInv
<1>4. NumbersAreOwn' BY <1>3 DEF ReleaseInv, NumbersAreOwn, Exists
<1>5. heirs' = heirs \cup {s \in VersionIds : versions'[s].number \in disowned'}
  BY <1>2, <1>3 DEF ReleaseInv, HeirsAreKnown
<1>6. disowned' \subseteq Numbers BY <1>2 DEF ReleaseInv, ReleaseTypeOK
<1> QED BY <1>2, <1>3, <1>4, <1>5, <1>6, VersionsMayChange

-----------------------------------------------------------------------------
(* Events and flights *)

\* An event is added: an acceptance of a row that carries its number, a deployment
\* to PROD as the gate allows it.  Deployments end.
LEMMA EventsMayGrow ==
  ASSUME ReleaseInv, NEW e \in Events, events' = events \cup {e},
         UNCHANGED <<versions, disowned, heirs>>, ReleaseTypeOK',
         e.type = "accept" => versions[e.of].number = e.number,
         e.env = "prod" /\ e.of \notin heirs => AcceptedBy(e.customer, e.of),
         \A f \in Flights : flights'[f] # NoFlight => flights'[f] = flights[f]
  PROVE  ReleaseInv'
<1> USE DEF ReleaseInv
<1>1. NumbersAreOwn' /\ HeirsAreKnown' BY DEF NumbersAreOwn, HeirsAreKnown, Exists
<1>2. AcceptsFollow' BY DEF AcceptsFollow, Accepts
<1>3. \A c, r : AcceptedBy(c, r) => AcceptedBy(c, r)' BY DEF AcceptedBy, Accepts
<1>4. FlightsAreCleared' BY <1>3 DEF FlightsAreCleared
<1>5. ProdGate' BY <1>3 DEF ProdGate
<1> QED BY <1>1, <1>2, <1>4, <1>5

\* Flights end, or begin as the gate lets them; nothing else changes.
LEMMA FlightsMayChange ==
  ASSUME ReleaseInv, ReleaseTypeOK', UNCHANGED <<versions, events, disowned, heirs>>,
         \A f \in Flights : flights'[f] # NoFlight =>
           \/ flights'[f] = flights[f]
           \/ flights'[f].env = "prod" /\ flights'[f].row \notin heirs
                => AcceptedBy(flights'[f].customer, flights'[f].row)
  PROVE  ReleaseInv'
<1> USE DEF ReleaseInv
<1>1. NumbersAreOwn' /\ HeirsAreKnown' /\ AcceptsFollow' /\ ProdGate'
  BY DEF NumbersAreOwn, HeirsAreKnown, AcceptsFollow, ProdGate, Accepts, AcceptedBy, Exists
<1>2. FlightsAreCleared' BY DEF FlightsAreCleared, AcceptedBy, Accepts
<1> QED BY <1>1, <1>2

\* The gate asks for a number, and lets through the version it was accepted as.
LEMMA IsAcceptedBy ==
  ASSUME ReleaseInv, NEW c \in Customers, NEW n \in Numbers, is_accepted(c, n), NEW r \in Named(n),
         r \notin heirs
  PROVE  AcceptedBy(c, r)
<1>1. PICK a \in Accepts : a.customer = c /\ a.number = n BY DEF is_accepted, HasEvent, Accepts
<1>2. r \in VersionIds /\ Exists(r) /\ versions[r].number = n BY DEF Named
<1>3. n \notin disowned BY <1>2 DEF ReleaseInv, HeirsAreKnown
<1>4. a.of \in VersionIds /\ versions[a.of].number = n
  BY <1>1, <1>3 DEF ReleaseInv, AcceptsFollow, ReleaseTypeOK, Events, Accepts
<1>5. a.of = r BY <1>2, <1>4 DEF ReleaseInv, NumbersAreOwn
<1> QED BY <1>1, <1>5 DEF AcceptedBy

LEMMA LandingKeepsTypes ==
  ASSUME ReleaseTypeOK, NEW f \in Flights, Lands(f)
  PROVE  /\ flights[f] \in Deploys
         /\ flights' \in [Flights -> Deploys \cup {NoFlight}]
         /\ \A g \in Flights : flights'[g] # NoFlight => flights'[g] = flights[g]
BY DEF ReleaseTypeOK, Lands

\* A first PROD deployment lands: its version becomes v1.0.0, and everything the
\* project has on record of its number goes along.
LEMMA GraduationKeeps ==
  ASSUME "none" \notin Numbers, V1 \in Numbers, ReleaseInv, NEW f \in Flights, FirstProdLands(f)
  PROVE  ReleaseInv'
<1> USE DEF ReleaseInv
<1> DEFINE d == flights[f]
           moved(e) == IF e.number = d.number THEN [e EXCEPT !.number = V1] ELSE e
           new == Event(d.customer, V1, d.env, "deploy", d.row)
           v == [number |-> IF d.number = V1 THEN versions[d.row].number ELSE V1,
                 status |-> IF d.released THEN versions[d.row].status ELSE "released"]
<1>1. /\ d \in Deploys /\ d # NoFlight
      /\ flights' \in [Flights -> Deploys \cup {NoFlight}]
      /\ \A g \in Flights : flights'[g] # NoFlight => flights'[g] = flights[g]
  BY LandingKeepsTypes DEF FirstProdLands, Lands
<1>2. d.row \in VersionIds /\ d.customer \in Customers /\ d.env \in Environments /\ d.number \in Numbers
  BY <1>1 DEF Deploys
<1>3. /\ versions' = [versions EXCEPT ![d.row] = v]
      /\ events' = {moved(e) : e \in events} \cup {new}
      /\ disowned' = disowned \cup Muddled(d)
      /\ heirs' = heirs \cup {r \in VersionIds : versions'[r].number \in disowned'}
      /\ ~Clash(d)
      /\ Exists(d.row) \/ (d.number = V1 /\ d.released)
  BY <1>2 DEF FirstProdLands, Graduated, Repointed, ReleaseTypeOK
<1>4. v \in VersionRow \cup {NoVersion, Deleted}
  <2>1. CASE Exists(d.row)
    <3>1. versions[d.row] \in VersionRow BY <1>2, <2>1, RowIsTyped
    <3> QED BY <3>1 DEF VersionRow, VersionStatuses
  <2>2. CASE ~Exists(d.row)
    <3>1. versions[d.row] \in {NoVersion, Deleted}
      BY <1>2, <2>2 DEF Exists, ReleaseTypeOK, VersionRow
    <3>2. v = [number |-> versions[d.row].number, status |-> versions[d.row].status]
      BY <1>3, <2>2
    <3> QED BY <3>1, <3>2 DEF NoVersion, Deleted
  <2> QED BY <2>1, <2>2
<1>5. v.number = IF d.number = V1 THEN versions[d.row].number ELSE V1 OBVIOUS
<1> HIDE DEF v
<1>6. /\ versions' \in [VersionIds -> VersionRow \cup {NoVersion, Deleted}]
      /\ versions'[d.row] = v /\ \A s \in VersionIds : s # d.row => versions'[s] = versions[s]
  BY <1>2, <1>3, <1>4, RowWritten
<1>7. \A e \in events : moved(e) \in Events /\ moved(e).of = e.of /\ moved(e).customer = e.customer
        /\ moved(e).type = e.type /\ moved(e).env = e.env
        /\ moved(e).number = IF e.number = d.number THEN V1 ELSE e.number
  BY DEF ReleaseTypeOK, Events
<1>8. new \in Events /\ new.type = "deploy" /\ new.env = d.env /\ new.customer = d.customer /\ new.of = d.row
  BY <1>2 DEF Event, Events
<1> HIDE DEF moved, new
<1>9. ReleaseTypeOK'
  <2>1. events' \subseteq Events
    <3> SUFFICES ASSUME NEW p \in events' PROVE p \in Events OBVIOUS
    <3>1. p = new \/ \E e \in events : p = moved(e) BY <1>3
    <3> QED BY <1>7, <1>8, <3>1
  <2>2. disowned' \subseteq Numbers BY <1>3 DEF Muddled, ReleaseTypeOK
  <2>3. heirs' \subseteq VersionIds BY <1>3 DEF ReleaseTypeOK
  <2> QED BY <1>1, <1>6, <2>1, <2>2, <2>3 DEF ReleaseTypeOK
<1>10. NumbersAreOwn'
  <2>1. CASE d.number = V1
    <3>1. \A s \in VersionIds : versions'[s].number = versions[s].number BY <1>5, <1>6, <2>1
    <3> QED BY <3>1 DEF NumbersAreOwn, Exists
  <2>2. CASE d.number # V1
    <3>1. \A s \in VersionIds : s # d.row => versions[s].number # V1
      BY <1>3, <2>2 DEF Clash, Named, Exists
    <3> QED BY <1>2, <1>5, <1>6, <2>2, <3>1, NumbersStayOwn
  <2> QED BY <2>1, <2>2
<1>11. HeirsAreKnown' BY <1>3 DEF HeirsAreKnown
<1>12. AcceptsFollow'
  <2> SUFFICES ASSUME NEW a \in events', a.type = "accept", a.number \notin disowned'
               PROVE  versions'[a.of].number = a.number
    BY DEF AcceptsFollow, Accepts
  <2>1. PICK e \in events : a = moved(e) BY <1>3, <1>8
  <2>2. /\ e \in Accepts /\ a.of = e.of /\ e.of \in VersionIds /\ e.number \in Numbers
        /\ a.number = IF e.number = d.number THEN V1 ELSE e.number
    BY <1>7, <2>1 DEF ReleaseTypeOK, Events, Accepts
  <2>3. e.number \notin disowned => versions[e.of].number = e.number BY <2>2 DEF AcceptsFollow
  <2>4. CASE d.number = V1 BY <1>3, <1>5, <1>6, <2>2, <2>3, <2>4
  <2>5. CASE d.number # V1 /\ e.number = d.number
    <3>1. V1 \notin Muddled(d) BY <1>3, <2>2, <2>5
    <3>2. e.of = d.row BY <2>2, <2>5, <3>1 DEF Muddled
    <3> QED BY <1>5, <1>6, <2>2, <2>5, <3>2
  <2>6. CASE d.number # V1 /\ e.number # d.number
    <3>1. versions[e.of].number = e.number /\ e.number \notin Muddled(d) BY <1>3, <2>2, <2>3, <2>6
    <3>2. CASE e.of = d.row
      <4>1. e.number = V1 BY <2>2, <2>6, <3>1, <3>2 DEF Muddled, LeftUnder
      <4> QED BY <1>5, <1>6, <2>2, <2>6, <3>2, <4>1
    <3>3. CASE e.of # d.row BY <1>6, <2>2, <2>6, <3>1, <3>3
    <3> QED BY <3>2, <3>3
  <2> QED BY <2>4, <2>5, <2>6
<1>13. \A c, r : AcceptedBy(c, r) => AcceptedBy(c, r)'
  <2> SUFFICES ASSUME NEW c, NEW r, AcceptedBy(c, r) PROVE AcceptedBy(c, r)'
    OBVIOUS
  <2>1. PICK a \in events : a.customer = c /\ a.type = "accept" /\ a.of = r BY DEF AcceptedBy, Accepts
  <2>2. moved(a) \in events' /\ moved(a).customer = c /\ moved(a).type = "accept" /\ moved(a).of = r
    BY <1>3, <1>7, <2>1
  <2> QED BY <2>2 DEF AcceptedBy, Accepts
<1>14. heirs \subseteq heirs' BY <1>3
<1>15. FlightsAreCleared' BY <1>1, <1>13, <1>14 DEF FlightsAreCleared
<1>16. ProdGate'
  <2> SUFFICES ASSUME NEW p \in events', p.env = "prod", p.of \notin heirs'
               PROVE  AcceptedBy(p.customer, p.of)'
    BY DEF ProdGate
  <2>1. CASE p = new BY <2>1, <1>1, <1>8, <1>13, <1>14 DEF FlightsAreCleared
  <2>2. ASSUME NEW e \in events, p = moved(e) PROVE AcceptedBy(p.customer, p.of)'
    <3>1. e.env = "prod" /\ p.customer = e.customer /\ p.of = e.of /\ e.of \notin heirs
      BY <1>7, <1>14, <2>2
    <3>2. AcceptedBy(e.customer, e.of) BY <3>1 DEF ProdGate
    <3> QED BY <3>1, <3>2, <1>13
  <2> QED BY <2>1, <2>2, <1>3
<1> QED BY <1>9, <1>10, <1>11, <1>12, <1>15, <1>16

-----------------------------------------------------------------------------
(* The steps *)

LEMMA ReleaseInductive ==
  ASSUME "none" \notin Numbers, V1 \in Numbers, ReleaseInv, [ReleaseNext]_releaseVars
  PROVE  ReleaseInv'
<1>1. ASSUME NEW r \in VersionIds, NEW n \in Numbers, CreateVersion(r, n) PROVE ReleaseInv'
  <2> DEFINE v == [number |-> n, status |-> "planned"]
  <2>1. v \in VersionRow /\ v.number = n BY DEF VersionRow, VersionStatuses
  <2>2. /\ versions' = [versions EXCEPT ![r] = v] /\ UNCHANGED <<events, flights>>
        /\ versions[r].number = "none" /\ Named(n) = {} /\ disowned' = disowned
        /\ heirs' = heirs \cup {s \in VersionIds : versions'[s].number \in disowned'}
    <3>1. Disowns({}) /\ versions[r] = NoVersion BY <1>1 DEF CreateVersion
    <3>2. disowned' = disowned BY <3>1 DEF Disowns
    <3>3. heirs' = heirs \cup {s \in VersionIds : versions'[s].number \in disowned'} BY <3>1 DEF Disowns
    <3>4. versions[r].number = "none" BY <3>1 DEF NoVersion
    <3>5. versions' = [versions EXCEPT ![r] = v] /\ UNCHANGED <<events, flights>> /\ Named(n) = {}
      BY <1>1 DEF CreateVersion
    <3> QED BY <3>2, <3>3, <3>4, <3>5
  <2> HIDE DEF v
  <2>3. /\ versions' \in [VersionIds -> VersionRow \cup {NoVersion, Deleted}]
        /\ versions'[r] = v /\ \A s \in VersionIds : s # r => versions'[s] = versions[s]
    BY <2>1, <2>2, RowWritten DEF ReleaseInv
  <2>4. NumbersAreOwn'
    <3>1. \A s \in VersionIds : versions[s].number # n BY <2>2 DEF Named, Exists
    <3> QED BY <2>1, <2>3, <3>1, NumbersStayOwn DEF ReleaseInv
  <2>5. ~LeftUnder("none") BY DEF LeftUnder, Accepts, ReleaseInv, ReleaseTypeOK, Events
  <2>6. disowned' \subseteq Numbers BY <2>2 DEF ReleaseInv, ReleaseTypeOK
  <2>7. disowned \subseteq disowned' /\ UNCHANGED <<events, flights>> BY <2>2
  <2>8. \A s \in VersionIds : \/ versions'[s].number = versions[s].number
                              \/ LeftUnder(versions[s].number) => versions[s].number \in disowned'
    BY <2>2, <2>3, <2>5
  <2> QED BY <2>2, <2>3, <2>4, <2>6, <2>7, <2>8, VersionsMayChange
<1>2. ASSUME NEW r \in VersionIds, NEW n \in Numbers, Rename(r, n) PROVE ReleaseInv'
  <2> DEFINE v == [versions[r] EXCEPT !.number = n]
             old == versions[r].number
  <2>1. v \in VersionRow /\ v.number = n /\ old \in Numbers
    BY <1>2, RowIsTyped DEF Rename, ReleaseInv, VersionRow
  <2>2. /\ versions' = [versions EXCEPT ![r] = v] /\ UNCHANGED <<events, flights>> /\ Named(n) = {}
        /\ disowned' = disowned \cup {m \in {old} : LeftUnder(m)}
        /\ heirs' = heirs \cup {s \in VersionIds : versions'[s].number \in disowned'}
    BY <1>2 DEF Rename, Disowns
  <2> HIDE DEF v
  <2>3. /\ versions' \in [VersionIds -> VersionRow \cup {NoVersion, Deleted}]
        /\ versions'[r] = v /\ \A s \in VersionIds : s # r => versions'[s] = versions[s]
    BY <2>1, <2>2, RowWritten DEF ReleaseInv
  <2>4. NumbersAreOwn'
    <3>1. \A s \in VersionIds : versions[s].number # n BY <2>2 DEF Named, Exists
    <3> QED BY <2>1, <2>3, <3>1, NumbersStayOwn DEF ReleaseInv
  <2>5. disowned' \subseteq Numbers BY <2>1, <2>2 DEF ReleaseInv, ReleaseTypeOK
  <2>6. disowned \subseteq disowned' /\ UNCHANGED <<events, flights>> BY <2>2
  <2>7. \A s \in VersionIds : \/ versions'[s].number = versions[s].number
                              \/ LeftUnder(versions[s].number) => versions[s].number \in disowned'
    BY <2>2, <2>3
  <2> QED BY <2>2, <2>3, <2>4, <2>5, <2>6, <2>7, VersionsMayChange
<1>3. ASSUME NEW r \in VersionIds, DeleteVersion(r) PROVE ReleaseInv'
  <2> DEFINE old == versions[r].number
  <2>1. /\ versions' = [versions EXCEPT ![r] = Deleted] /\ UNCHANGED <<events, flights>>
        /\ disowned' = disowned \cup {m \in {old} : LeftUnder(m)}
        /\ heirs' = heirs \cup {s \in VersionIds : versions'[s].number \in disowned'}
    BY <1>3 DEF DeleteVersion, Disowns
  <2>2. /\ versions' \in [VersionIds -> VersionRow \cup {NoVersion, Deleted}]
        /\ versions'[r] = Deleted /\ \A s \in VersionIds : s # r => versions'[s] = versions[s]
    BY <2>1, RowWritten DEF ReleaseInv
  <2>3. NumbersAreOwn' BY <2>2, NumbersStayOwn, Deleted.number = "none" DEF ReleaseInv, Deleted
  <2>4. old \in Numbers BY <1>3, RowIsTyped DEF DeleteVersion, ReleaseInv, Exists
  <2>5. disowned' \subseteq Numbers BY <2>1, <2>4 DEF ReleaseInv, ReleaseTypeOK
  <2>6. disowned \subseteq disowned' /\ UNCHANGED <<events, flights>> BY <2>1
  <2>7. \A s \in VersionIds : \/ versions'[s].number = versions[s].number
                              \/ LeftUnder(versions[s].number) => versions[s].number \in disowned'
    BY <2>1, <2>2
  <2> QED BY <2>1, <2>2, <2>3, <2>5, <2>6, <2>7, VersionsMayChange
<1>4. ASSUME NEW r \in VersionIds, release(r) PROVE ReleaseInv'
  BY <1>4, StatusMayChange, "released" \in VersionStatuses DEF release, VersionStatuses
<1>5. ASSUME NEW r \in VersionIds, auto_activate(r) PROVE ReleaseInv'
  BY <1>5, StatusMayChange, "active" \in VersionStatuses DEF auto_activate, VersionStatuses
<1>6. ASSUME NEW r \in VersionIds, NEW status \in VersionStatuses, UpdateStatus(r, status) PROVE ReleaseInv'
  BY <1>6, StatusMayChange DEF UpdateStatus
<1>7. ASSUME NEW c \in Customers, NEW n \in Numbers, accept(c, n) PROVE ReleaseInv'
  <2>1. PICK r \in Named(n) : events' = events \cup {Event(c, n, "uat", "accept", r)} BY <1>7 DEF accept
  <2> DEFINE e == Event(c, n, "uat", "accept", r)
  <2>2. r \in VersionIds /\ versions[r].number = n BY DEF Named
  <2>3. e \in Events /\ e.of = r /\ e.number = n /\ e.env = "uat" BY <2>2 DEF Event, Events, Environments
  <2>4. UNCHANGED <<versions, flights, disowned, heirs>> BY <1>7 DEF accept
  <2> HIDE DEF e
  <2>5. events' = events \cup {e} BY <2>1 DEF e
  <2>6. ReleaseTypeOK' BY <2>3, <2>4, <2>5 DEF ReleaseInv, ReleaseTypeOK
  <2> QED BY <2>2, <2>3, <2>4, <2>5, <2>6, EventsMayGrow
<1>8. ASSUME NEW f \in Flights, NEW c \in Customers, NEW n \in Numbers, NEW env \in Environments,
             DeployStarts(f, c, n, env)
      PROVE  ReleaseInv'
  <2> DEFINE first == env = "prod" /\ ~project_had_prod_deploy
             released(r) == first /\ versions[r].status = "released"
  <2>1. PICK r \in Named(n) :
          flights' = [flights EXCEPT ![f] = [customer |-> c, row |-> r, env |-> env, number |-> n,
                                             first |-> first, released |-> released(r)]]
    BY <1>8 DEF DeployStarts
  <2> DEFINE d == [customer |-> c, row |-> r, env |-> env, number |-> n,
                   first |-> first, released |-> released(r)]
  <2>2. r \in VersionIds BY DEF Named
  <2>3. first \in BOOLEAN /\ released(r) \in BOOLEAN OBVIOUS
  <2> HIDE DEF first, released
  <2>4. d \in Deploys /\ d.row = r /\ d.env = env /\ d.customer = c BY <2>2, <2>3 DEF Deploys
  <2>5. env = "prod" /\ r \notin heirs => AcceptedBy(c, r) BY <1>8, IsAcceptedBy DEF DeployStarts
  <2>6. UNCHANGED <<versions, events, disowned, heirs>> BY <1>8 DEF DeployStarts
  <2>7. flights' = [flights EXCEPT ![f] = d] BY <2>1
  <2> HIDE DEF d
  <2>8. ReleaseTypeOK'
    <3> DEFINE S == Deploys \cup {NoFlight}
    <3>1. flights \in [Flights -> S] /\ d \in S BY <2>4 DEF ReleaseInv, ReleaseTypeOK
    <3> HIDE DEF S
    <3>2. [flights EXCEPT ![f] = d] \in [Flights -> S] BY <3>1
    <3> QED BY <2>6, <2>7, <3>2 DEF S, ReleaseInv, ReleaseTypeOK
  <2>9. \A g \in Flights : flights'[g] = IF g = f THEN d ELSE flights[g]
    BY <2>7 DEF ReleaseInv, ReleaseTypeOK
  <2> QED BY <2>2, <2>4, <2>5, <2>6, <2>8, <2>9, FlightsMayChange
<1>9. ASSUME NEW f \in Flights, Lands(f), UNCHANGED <<versions, events, disowned, heirs>>
      PROVE  ReleaseInv'
  <2>1. ReleaseTypeOK' BY <1>9, LandingKeepsTypes DEF ReleaseInv, ReleaseTypeOK
  <2> QED BY <1>9, <2>1, LandingKeepsTypes, FlightsMayChange DEF ReleaseInv
<1>10. ASSUME NEW f \in Flights, DeployLands(f) PROVE ReleaseInv'
  <2> DEFINE d == flights[f]
             e == Event(d.customer, d.number, d.env, "deploy", d.row)
  <2>1. /\ events' = events \cup {e} /\ UNCHANGED <<versions, disowned, heirs>>
        /\ Lands(f) /\ d # NoFlight
    BY <1>10 DEF DeployLands, Lands
  <2>2. /\ d \in Deploys /\ flights' \in [Flights -> Deploys \cup {NoFlight}]
        /\ \A g \in Flights : flights'[g] # NoFlight => flights'[g] = flights[g]
    BY <2>1, LandingKeepsTypes DEF ReleaseInv
  <2>3. e \in Events /\ e.type = "deploy" /\ e.env = d.env /\ e.customer = d.customer /\ e.of = d.row
    BY <2>2 DEF Event, Events, Deploys
  <2>4. d.env = "prod" /\ d.row \notin heirs => AcceptedBy(d.customer, d.row)
    BY <2>1 DEF ReleaseInv, FlightsAreCleared
  <2> HIDE DEF e, d
  <2>5. ReleaseTypeOK' BY <2>1, <2>2, <2>3 DEF ReleaseInv, ReleaseTypeOK
  <2> QED BY <2>1, <2>2, <2>3, <2>4, <2>5, EventsMayGrow
<1>11. ASSUME NEW f \in Flights, GraduationRaises(f) \/ DeployFails(f) PROVE ReleaseInv'
  BY <1>9, <1>11 DEF GraduationRaises, DeployFails
<1>12. ASSUME NEW c \in Customers, CustomerGone(c) PROVE ReleaseInv'
  <2>1. /\ events' = {e \in events : e.customer # c} /\ UNCHANGED <<versions, disowned, heirs>>
        /\ flights' \in [Flights -> Deploys \cup {NoFlight}]
        /\ \A f \in Flights : flights'[f] # NoFlight =>
             flights'[f] = flights[f] /\ flights[f] # NoFlight /\ flights[f].customer # c
    BY <1>12 DEF CustomerGone, ReleaseInv, ReleaseTypeOK
  <2>2. ReleaseTypeOK' /\ NumbersAreOwn' /\ HeirsAreKnown' /\ AcceptsFollow'
    BY <2>1 DEF ReleaseInv, ReleaseTypeOK, NumbersAreOwn, HeirsAreKnown, AcceptsFollow, Accepts, Exists
  <2>3. \A k, r : k # c /\ AcceptedBy(k, r) => AcceptedBy(k, r)' BY <2>1 DEF AcceptedBy, Accepts
  <2>4. ProdGate' BY <2>1, <2>3 DEF ReleaseInv, ProdGate
  <2>5. FlightsAreCleared' BY <2>1, <2>3 DEF ReleaseInv, FlightsAreCleared
  <2> QED BY <2>2, <2>4, <2>5 DEF ReleaseInv
<1>13. CASE ReleaseRestart
  <2>1. flights' \in [Flights -> Deploys \cup {NoFlight}] /\ \A f \in Flights : flights'[f] = NoFlight
    BY <1>13 DEF ReleaseRestart
  <2>2. ReleaseTypeOK' BY <1>13, <2>1 DEF ReleaseRestart, ReleaseInv, ReleaseTypeOK
  <2> QED BY <1>13, <2>1, <2>2, FlightsMayChange DEF ReleaseRestart
<1>14. CASE UNCHANGED releaseVars
  <2>1. UNCHANGED <<versions, events, flights, disowned, heirs>> BY <1>14 DEF releaseVars
  <2>2. ReleaseTypeOK' BY <2>1 DEF ReleaseInv, ReleaseTypeOK
  <2> QED BY <2>1, <2>2, FlightsMayChange
<1> QED
  BY <1>1, <1>2, <1>3, <1>4, <1>5, <1>6, <1>7, <1>8, <1>10, <1>11, <1>12, <1>13, <1>14,
     GraduationKeeps DEF ReleaseNext

\* Whatever is deployed to a customer's PROD was accepted by that customer on its
\* UAT, for any number of versions, customers and overlapping deployments, unless
\* its version came by a number an accepted version had given up
\* (services/deploy.py: deploy, accept, _graduate_version_in_place).
THEOREM GateHolds ==
  ASSUME "none" \notin Numbers, V1 \in Numbers
  PROVE  ReleaseSpec => []ProdGate
<1>1. ReleaseInv /\ [ReleaseNext]_releaseVars => ReleaseInv' BY ReleaseInductive
<1>2. ReleaseInv => ProdGate BY DEF ReleaseInv
<1> QED BY <1>1, <1>2, ReleaseInitial, PTL DEF ReleaseSpec

-----------------------------------------------------------------------------
(* Instances *)

Job == [at : {"rendered", "writing", "written"}, cell : Cells, pw : 1..MaxMint]

InstanceTyped ==
  /\ minted \in 0..MaxMint
  /\ envfile \in [Cells -> 0..MaxMint + 1]
  /\ volume \in [Stacks -> 0..MaxMint + 1] /\ running \in [Stacks -> 0..MaxMint + 1]
  /\ jobs \in [Jobs -> Job \cup {NoJob}]

\* The cells that share the name of a stack.
CellsOf(st) == {c \in Cells : name_base(c) = st}

\* A stack nothing excuses is one cell's, has one deployment at a time, and its
\* files and deployments carry the password of its volume.
OneCell(st) ==
  \A c, d \in CellsOf(st) : envfile[c] # Absent /\ envfile[d] # Absent => c = d

OneJob(st) ==
  \A j \in Under(st) :
    /\ \A i \in Under(st) : i = j
    /\ \A d \in CellsOf(st) : d # jobs[j].cell => envfile[d] = Absent
    /\ volume[st] # Absent => jobs[j].pw = volume[st]
    /\ jobs[j].at = "written" => envfile[jobs[j].cell] = jobs[j].pw

FileIsVolumes(st) ==
  volume[st] # Absent =>
    /\ volume[st] # Blank
    /\ \E c \in CellsOf(st) : envfile[c] # Absent
    /\ \A c \in CellsOf(st) :
         \/ envfile[c] \in {Absent, volume[st]}
         \/ \E j \in Jobs : jobs[j] # NoJob /\ jobs[j].at = "writing" /\ jobs[j].cell = c

StackKept(st) ==
  /\ OneCell(st) /\ OneJob(st) /\ FileIsVolumes(st)
  /\ running[st] # Absent => running[st] = volume[st]

InstanceInv == InstanceTyped /\ \A st \in Stacks \ excused : StackKept(st)

LEMMA InstanceInitial == ASSUME MaxMint \in Nat, InstanceInit PROVE InstanceInv
<1> USE DEF InstanceInit
<1>1. InstanceTyped BY DEF InstanceTyped, Absent
<1>2. \A st \in Stacks : Under(st) = {} BY DEF Under
<1>3. \A st \in Stacks : StackKept(st)
  BY <1>2 DEF StackKept, OneCell, OneJob, FileIsVolumes, CellsOf
<1> QED BY <1>1, <1>3 DEF InstanceInv

LEMMA JobIsTyped ==
  ASSUME InstanceTyped, NEW j \in Jobs, jobs[j] # NoJob
  PROVE  /\ jobs[j] \in Job /\ jobs[j].cell \in Cells /\ jobs[j].pw \in 1..MaxMint
         /\ name_base(jobs[j].cell) \in Stacks /\ jobs[j].cell \in CellsOf(name_base(jobs[j].cell))
<1>1. jobs[j] \in Job BY DEF InstanceTyped
<1>2. jobs[j].cell \in Cells /\ jobs[j].pw \in 1..MaxMint BY <1>1 DEF Job
<1> QED BY <1>1, <1>2 DEF Stacks, CellsOf

LEMMA NoJobIsNone == ASSUME NEW w \in {"rendered", "writing", "written"} PROVE NoJob.at # w
BY DEF NoJob

\* A step elsewhere: the stack, its cells and its deployments stay.
LEMMA Elsewhere ==
  ASSUME NEW st, StackKept(st), volume'[st] = volume[st], running'[st] = running[st],
         \A c \in CellsOf(st) : envfile'[c] = envfile[c],
         \A j \in Jobs : \/ jobs'[j] = jobs[j]
                        \/ /\ jobs[j] = NoJob \/ name_base(jobs[j].cell) # st
                           /\ jobs'[j] = NoJob \/ name_base(jobs'[j].cell) # st,
         \A j \in Under(st) : jobs[j].cell \in CellsOf(st)
  PROVE  StackKept(st)'
<1>1. Under(st)' = Under(st) /\ \A j \in Under(st) : jobs'[j] = jobs[j] BY DEF Under
<1>2. OneCell(st)' BY DEF StackKept, OneCell, CellsOf
<1>3. OneJob(st)'
  <2> SUFFICES ASSUME NEW j \in Under(st)
               PROVE  /\ \A i \in Under(st) : i = j
                      /\ \A d \in CellsOf(st) : d # jobs[j].cell => envfile'[d] = Absent
                      /\ volume'[st] # Absent => jobs[j].pw = volume'[st]
                      /\ jobs[j].at = "written" => envfile'[jobs[j].cell] = jobs[j].pw
    BY <1>1 DEF OneJob, CellsOf
  <2> QED BY DEF StackKept, OneJob
<1>4. FileIsVolumes(st)'
  <2>1. ASSUME NEW c \in CellsOf(st), NEW j \in Jobs, jobs[j] # NoJob, jobs[j].cell = c
        PROVE  jobs'[j] = jobs[j]
    BY <2>1 DEF CellsOf
  <2> QED BY <2>1 DEF StackKept, FileIsVolumes, CellsOf
<1> QED BY <1>2, <1>3, <1>4 DEF StackKept

\* What a deployment of a stack that nothing excuses may rely on.
LEMMA JobsOwn ==
  ASSUME InstanceTyped, NEW j \in Jobs, jobs[j] # NoJob, NEW st, st = name_base(jobs[j].cell),
         StackKept(st)
  PROVE  /\ j \in Under(st) /\ \A i \in Under(st) : i = j
         /\ jobs[j].cell \in CellsOf(st) /\ jobs[j].pw \in 1..MaxMint
         /\ \A d \in CellsOf(st) : d # jobs[j].cell => envfile[d] = Absent
         /\ volume[st] # Absent => jobs[j].pw = volume[st]
         /\ jobs[j].at = "written" => envfile[jobs[j].cell] = jobs[j].pw
         /\ volume[st] # Absent => \E c \in CellsOf(st) : envfile[c] # Absent
BY JobIsTyped DEF Under, StackKept, OneJob, FileIsVolumes

\* A deployment is over: the files stay as they are.
LEMMA JobEnds ==
  ASSUME MaxMint \in Nat, InstanceTyped, NEW j \in Jobs, jobs[j] # NoJob, jobs[j].at # "writing",
         jobs' = [jobs EXCEPT ![j] = NoJob], UNCHANGED envfile,
         NEW st, st = name_base(jobs[j].cell), StackKept(st),
         \/ UNCHANGED volume
         \/ jobs[j].at = "written" /\ DatabaseUp(st, envfile[jobs[j].cell]),
         volume \in [Stacks -> 0..MaxMint + 1],
         \/ running'[st] = running[st]
         \/ jobs[j].at = "written" /\ running'[st] = envfile[jobs[j].cell]
             /\ DatabaseUp(st, envfile[jobs[j].cell])
  PROVE  StackKept(st)'
<1> DEFINE c == jobs[j].cell
           pw == jobs[j].pw
<1>1. /\ \A i \in Under(st) : i = j
      /\ c \in CellsOf(st) /\ pw \in 1..MaxMint
      /\ \A d \in CellsOf(st) : d # c => envfile[d] = Absent
      /\ volume[st] # Absent => pw = volume[st]
      /\ jobs[j].at = "written" => envfile[c] = pw
  BY JobsOwn
<1>2. st \in Stacks BY JobIsTyped
<1> HIDE DEF c, pw
<1>3. jobs'[j] = NoJob /\ \A i \in Jobs \ {j} : jobs'[i] = jobs[i] BY DEF InstanceTyped
<1>4. Under(st)' = {} BY <1>1, <1>3 DEF Under
<1>5. pw # Absent /\ pw # Blank BY <1>1 DEF Absent, Blank
<1>6. volume'[st] = volume[st] \/ (volume[st] = Absent /\ volume'[st] = pw /\ envfile[c] = pw)
  BY <1>1, <1>2 DEF DatabaseUp, c
<1>7. OneCell(st)' /\ OneJob(st)' BY <1>4 DEF StackKept, OneCell, OneJob, CellsOf
<1>8. FileIsVolumes(st)'
  <2>1. CASE volume'[st] = volume[st]
    <3>1. ASSUME NEW d \in CellsOf(st), NEW i \in Jobs, jobs[i] # NoJob, jobs[i].at = "writing", jobs[i].cell = d
          PROVE  FALSE
      BY <1>1, <3>1 DEF Under, CellsOf
    <3> QED BY <2>1, <3>1 DEF StackKept, FileIsVolumes, CellsOf
  <2>2. CASE volume[st] = Absent /\ volume'[st] = pw /\ envfile[c] = pw
    BY <1>1, <1>5, <2>2 DEF FileIsVolumes, CellsOf
  <2> QED BY <1>6, <2>1, <2>2
<1>9. running'[st] # Absent => running'[st] = volume'[st]
  <2>1. CASE running'[st] = running[st] BY <1>6, <2>1 DEF StackKept
  <2>2. CASE jobs[j].at = "written" /\ running'[st] = envfile[c] /\ DatabaseUp(st, envfile[c])
    BY <1>1, <1>2, <1>5, <2>2 DEF DatabaseUp
  <2> QED BY <2>1, <2>2 DEF c
<1> QED BY <1>7, <1>8, <1>9 DEF StackKept

\* A deployment goes on to write its file: Blank on the way, then its password.
LEMMA JobWrites ==
  ASSUME MaxMint \in Nat, InstanceTyped, NEW j \in Jobs, jobs[j] # NoJob,
         NEW st, st = name_base(jobs[j].cell), StackKept(st), UNCHANGED <<volume, running>>,
         NEW where \in {"writing", "written"}, jobs' = [jobs EXCEPT ![j].at = where],
         envfile' = [envfile EXCEPT ![jobs[j].cell] = IF where = "writing" THEN Blank ELSE jobs[j].pw]
  PROVE  StackKept(st)'
<1> DEFINE c == jobs[j].cell
           pw == jobs[j].pw
<1>1. /\ j \in Under(st) /\ \A i \in Under(st) : i = j
      /\ c \in CellsOf(st) /\ pw \in 1..MaxMint
      /\ \A d \in CellsOf(st) : d # c => envfile[d] = Absent
      /\ volume[st] # Absent => pw = volume[st]
  BY JobsOwn
<1>2. /\ jobs'[j].cell = c /\ jobs'[j].pw = pw /\ jobs'[j].at = where /\ jobs'[j] # NoJob
      /\ \A i \in Jobs \ {j} : jobs'[i] = jobs[i]
  <2>1. jobs[j] \in Job BY JobIsTyped
  <2>2. jobs'[j] = [jobs[j] EXCEPT !.at = where] BY DEF InstanceTyped
  <2>3. jobs'[j].at = where /\ jobs'[j].cell = c /\ jobs'[j].pw = pw BY <2>1, <2>2 DEF Job
  <2> QED BY <2>3, NoJobIsNone DEF InstanceTyped
<1>3. /\ envfile'[c] = IF where = "writing" THEN Blank ELSE pw
      /\ \A d \in CellsOf(st) : d # c => envfile'[d] = Absent
  BY <1>1 DEF InstanceTyped, CellsOf
<1> HIDE DEF c, pw
<1>4. \A i \in Under(st)' : i = j BY <1>1, <1>2 DEF Under
<1>5. envfile'[c] # Absent BY <1>1, <1>3 DEF Absent, Blank
<1>6. OneCell(st)' BY <1>3 DEF OneCell, CellsOf
<1>7. OneJob(st)' BY <1>1, <1>2, <1>3, <1>4 DEF OneJob, CellsOf
<1>8. FileIsVolumes(st)' BY <1>1, <1>2, <1>3, <1>5 DEF StackKept, FileIsVolumes, CellsOf
<1> QED BY <1>6, <1>7, <1>8 DEF StackKept

\* The password of a deployment, where the stack has one cell and no other job.
LEMMA ProvisionKeeps ==
  ASSUME MaxMint \in Nat, InstanceTyped, NEW j \in Jobs, NEW c \in Cells, NEW fresh \in BOOLEAN,
         Provision(j, c, fresh), NEW st, st = name_base(c), StackKept(st), st \notin excused'
  PROVE  StackKept(st)'
<1> DEFINE pw == shared_db_password(c, fresh)
           new == [at |-> "rendered", cell |-> c, pw |-> pw]
<1>1. /\ ~(fresh /\ volume[st] # Absent) /\ Under(st) = {} /\ ~Foreign(c)
      /\ jobs[j] = NoJob /\ jobs' = [jobs EXCEPT ![j] = new]
      /\ UNCHANGED <<envfile, volume, running>>
  BY DEF Provision
<1>2. \A d \in CellsOf(st) : d # c => envfile[d] = Absent BY <1>1 DEF Foreign, CellsOf
<1>3. volume[st] # Absent => pw = volume[st]
  <2>1. HAVE volume[st] # Absent
  <2>2. envfile[c] # Absent BY <1>2, <2>1 DEF StackKept, FileIsVolumes
  <2>3. c \in CellsOf(st) BY DEF CellsOf
  <2>4. \A i \in Jobs : jobs[i] # NoJob => jobs[i].cell # c BY <1>1 DEF Under
  <2>5. envfile[c] = volume[st] /\ volume[st] # Blank BY <2>1, <2>2, <2>3, <2>4 DEF StackKept, FileIsVolumes
  <2> QED BY <1>1, <2>1, <2>2, <2>5 DEF shared_db_password, IsRedeploy
<1> HIDE DEF pw
<1>4. new # NoJob /\ new.at = "rendered" /\ new.cell = c /\ new.pw = pw BY NoJobIsNone
<1> HIDE DEF new
<1>5. jobs'[j] = new /\ \A i \in Jobs \ {j} : jobs'[i] = jobs[i] BY <1>1 DEF InstanceTyped
<1>6. Under(st)' = {j} BY <1>1, <1>4, <1>5 DEF Under
<1>7. OneCell(st)' BY <1>1 DEF StackKept, OneCell, CellsOf
<1>8. OneJob(st)' BY <1>1, <1>2, <1>3, <1>4, <1>5, <1>6 DEF OneJob, CellsOf
<1>9. FileIsVolumes(st)'
  <2>1. \A i \in Jobs : jobs[i] # NoJob => jobs'[i] = jobs[i] BY <1>1, <1>5
  <2> QED BY <1>1, <2>1 DEF StackKept, FileIsVolumes, CellsOf
<1> QED BY <1>1, <1>7, <1>8, <1>9 DEF StackKept

LEMMA InstanceTypes == ASSUME MaxMint \in Nat, InstanceTyped, [InstanceNext]_instanceVars PROVE InstanceTyped'
<1>1. ASSUME NEW j \in Jobs, NEW c \in Cells, NEW fresh \in BOOLEAN, Provision(j, c, fresh)
      PROVE  InstanceTyped'
  <2> DEFINE pw == shared_db_password(c, fresh)
             new == [at |-> "rendered", cell |-> c, pw |-> pw]
  <2>1. pw \in 1..MaxMint
    BY <1>1 DEF InstanceTyped, Provision, shared_db_password, IsRedeploy, Absent, Blank
  <2> HIDE DEF pw
  <2>2. new \in Job BY <2>1 DEF Job
  <2>3. jobs' = [jobs EXCEPT ![j] = new] /\ minted' \in 0..MaxMint
    BY <1>1, <2>1 DEF Provision, InstanceTyped, pw
  <2> HIDE DEF new
  <2> QED BY <1>1, <2>2, <2>3 DEF Provision, InstanceTyped
<1>2. ASSUME NEW j \in Jobs, Rejected(j) PROVE InstanceTyped' BY <1>2 DEF Rejected, InstanceTyped
<1>3. ASSUME NEW j \in Jobs, Truncate(j) \/ Write(j) PROVE InstanceTyped'
  <2>1. jobs[j] # NoJob BY <1>3, NoJobIsNone DEF Truncate, Write
  <2>2. PICK where \in {"writing", "written"} : jobs' = [jobs EXCEPT ![j].at = where]
    BY <1>3 DEF Truncate, Write
  <2>3. jobs[j] \in Job BY <2>1, JobIsTyped
  <2> DEFINE new == [jobs[j] EXCEPT !.at = where]
  <2>4. new \in Job BY <2>3 DEF Job
  <2>5. jobs' = [jobs EXCEPT ![j] = new] BY <2>2 DEF InstanceTyped
  <2> HIDE DEF new
  <2>6. jobs' \in [Jobs -> Job \cup {NoJob}] BY <2>4, <2>5 DEF InstanceTyped
  <2>7. jobs[j].pw \in 0..MaxMint + 1 /\ Blank \in 0..MaxMint + 1 BY <2>1, JobIsTyped DEF Blank
  <2>8. envfile' \in [Cells -> 0..MaxMint + 1] BY <1>3, <2>7 DEF Truncate, Write, InstanceTyped
  <2> QED BY <1>3, <2>6, <2>8 DEF Truncate, Write, InstanceTyped
<1>4. ASSUME NEW j \in Jobs, ComposeUp(j) \/ ComposeFails(j) PROVE InstanceTyped'
  <2>1. jobs[j] # NoJob BY <1>4, NoJobIsNone DEF ComposeUp, ComposeFails
  <2>2. envfile[jobs[j].cell] \in 0..MaxMint + 1 BY <2>1, JobIsTyped DEF InstanceTyped
  <2>3. volume' \in [Stacks -> 0..MaxMint + 1]
    BY <1>4, <2>2 DEF ComposeUp, ComposeFails, DatabaseUp, InstanceTyped
  <2>4. running' \in [Stacks -> 0..MaxMint + 1] BY <1>4, <2>2 DEF ComposeUp, ComposeFails, InstanceTyped
  <2>5. jobs' \in [Jobs -> Job \cup {NoJob}] BY <1>4 DEF ComposeUp, ComposeFails, InstanceTyped
  <2> QED BY <1>4, <2>3, <2>4, <2>5 DEF ComposeUp, ComposeFails, InstanceTyped
<1>5. CASE InstanceRestart BY <1>5 DEF InstanceRestart, InstanceTyped
<1>6. CASE UNCHANGED instanceVars BY <1>6 DEF instanceVars, InstanceTyped
<1> QED BY <1>1, <1>2, <1>3, <1>4, <1>5, <1>6 DEF InstanceNext

LEMMA InstanceStep ==
  ASSUME MaxMint \in Nat, InstanceInv, [InstanceNext]_instanceVars
  PROVE  InstanceInv'
<1>t. InstanceTyped /\ InstanceTyped' BY InstanceTypes DEF InstanceInv
<1>e. excused \subseteq excused'
  BY DEF InstanceNext, instanceVars, Provision, Rejected, Truncate, Write, ComposeUp, ComposeFails, InstanceRestart
<1> SUFFICES ASSUME NEW st \in Stacks, st \notin excused' PROVE StackKept(st)'
  BY <1>t DEF InstanceInv, Stacks
<1>k. StackKept(st) BY <1>e DEF InstanceInv
<1>c. \A j \in Under(st) : jobs[j].cell \in CellsOf(st) BY <1>t, JobIsTyped DEF Under
<1>1. ASSUME NEW j \in Jobs, NEW c \in Cells, NEW fresh \in BOOLEAN, Provision(j, c, fresh)
      PROVE  StackKept(st)'
  <2>1. CASE st = name_base(c) BY <1>1, <1>k, <1>t, <2>1, ProvisionKeeps
  <2>2. CASE st # name_base(c)
    <3> DEFINE new == [at |-> "rendered", cell |-> c, pw |-> shared_db_password(c, fresh)]
    <3>1. jobs[j] = NoJob /\ jobs' = [jobs EXCEPT ![j] = new] /\ UNCHANGED <<envfile, volume, running>>
      BY <1>1 DEF Provision
    <3>2. new.cell = c OBVIOUS
    <3> HIDE DEF new
    <3>3. jobs'[j] = new /\ \A i \in Jobs \ {j} : jobs'[i] = jobs[i] BY <1>t, <3>1 DEF InstanceTyped
    <3> QED BY <1>c, <1>k, <2>2, <3>1, <3>2, <3>3, Elsewhere
  <2> QED BY <2>1, <2>2
<1>2. ASSUME NEW j \in Jobs, Rejected(j) \/ ComposeUp(j) \/ ComposeFails(j) PROVE StackKept(st)'
  <2>1. jobs[j] # NoJob /\ jobs[j].at # "writing" /\ jobs' = [jobs EXCEPT ![j] = NoJob] /\ UNCHANGED envfile
    BY <1>2, NoJobIsNone DEF Rejected, ComposeUp, ComposeFails
  <2>2. jobs'[j] = NoJob /\ \A i \in Jobs \ {j} : jobs'[i] = jobs[i] BY <1>t, <2>1 DEF InstanceTyped
  <2>3. CASE st = name_base(jobs[j].cell)
    <3>1. \/ UNCHANGED volume
          \/ jobs[j].at = "written" /\ DatabaseUp(st, envfile[jobs[j].cell])
      BY <1>2, <2>3 DEF Rejected, ComposeUp, ComposeFails
    <3>2. \/ running'[st] = running[st]
          \/ jobs[j].at = "written" /\ running'[st] = envfile[jobs[j].cell]
              /\ DatabaseUp(st, envfile[jobs[j].cell])
      BY <1>2, <1>t, <2>3 DEF Rejected, ComposeUp, ComposeFails, InstanceTyped
    <3> QED BY <1>k, <1>t, <2>1, <2>3, <3>1, <3>2, JobEnds DEF InstanceTyped
  <2>4. CASE st # name_base(jobs[j].cell)
    <3>1. volume'[st] = volume[st] /\ running'[st] = running[st]
      BY <1>2, <1>t, <2>4 DEF Rejected, ComposeUp, ComposeFails, DatabaseUp, InstanceTyped
    <3> QED BY <1>c, <1>k, <2>1, <2>2, <2>4, <3>1, Elsewhere
  <2> QED BY <2>3, <2>4
<1>3. ASSUME NEW j \in Jobs, Truncate(j) \/ Write(j) PROVE StackKept(st)'
  <2>1. jobs[j] # NoJob /\ UNCHANGED <<volume, running>> BY <1>3, NoJobIsNone DEF Truncate, Write
  <2>2. PICK where \in {"writing", "written"} :
          /\ jobs' = [jobs EXCEPT ![j].at = where]
          /\ envfile' = [envfile EXCEPT ![jobs[j].cell] = IF where = "writing" THEN Blank ELSE jobs[j].pw]
    BY <1>3 DEF Truncate, Write
  <2>3. CASE st = name_base(jobs[j].cell) BY <1>k, <1>t, <2>1, <2>2, <2>3, JobWrites
  <2>4. CASE st # name_base(jobs[j].cell)
    <3>1. jobs[j].cell \in Cells /\ jobs[j] \in Job BY <1>t, <2>1, JobIsTyped
    <3>2. \A c \in CellsOf(st) : envfile'[c] = envfile[c] BY <1>t, <2>2, <2>4 DEF CellsOf, InstanceTyped
    <3>3. jobs'[j].cell = jobs[j].cell /\ \A i \in Jobs \ {j} : jobs'[i] = jobs[i]
      BY <1>t, <2>2, <3>1 DEF InstanceTyped, Job
    <3> QED BY <1>c, <1>k, <2>1, <2>4, <3>2, <3>3, Elsewhere
  <2> QED BY <2>3, <2>4
<1>4. CASE InstanceRestart
  <2>1. /\ \A j \in Jobs : jobs'[j] = NoJob
        /\ \A j \in Jobs : jobs[j].at = "writing" => name_base(jobs[j].cell) # st
        /\ UNCHANGED <<envfile, volume, running>>
    BY <1>4 DEF InstanceRestart
  <2>2. Under(st)' = {} BY <2>1 DEF Under
  <2>3. OneCell(st)' /\ OneJob(st)' BY <1>k, <2>1, <2>2 DEF StackKept, OneCell, OneJob, CellsOf
  <2>4. FileIsVolumes(st)' BY <1>k, <2>1 DEF StackKept, FileIsVolumes, CellsOf
  <2> QED BY <1>k, <2>1, <2>3, <2>4 DEF StackKept
<1>5. CASE UNCHANGED instanceVars
  BY <1>5, <1>k, <1>c, Elsewhere DEF instanceVars
<1> QED BY <1>1, <1>2, <1>3, <1>4, <1>5 DEF InstanceNext

\* A stack reaches its own database, whatever deployments of it or of others fail,
\* overlap elsewhere or are cut off (services/uat_provisioner.py: provision_uat).
THEOREM StackKeepsItsData == ASSUME MaxMint \in Nat PROVE InstanceSpec => []KeepsItsData
<1>1. InstanceInv => KeepsItsData BY DEF InstanceInv, StackKept, KeepsItsData
<1>2. InstanceInv /\ [InstanceNext]_instanceVars => InstanceInv' BY InstanceStep
<1> QED BY <1>1, <1>2, InstanceInitial, PTL DEF InstanceSpec

-----------------------------------------------------------------------------
(* Smoke runs *)

Places == {"rest", "up", "probe", "notes", "script", "down"}
Smoke  == [at : Places, kind : Kinds, built : Nat, tested : SUBSET Nat, stale : BOOLEAN,
           boot : Floors, acceptance : Floors]

\* A run that nothing overlaps has the stack to itself, and as it made it.
OwnStack(r) ==
  /\ runs[r].at \in {"up", "probe", "notes", "script", "down"} => \A q \in Busy : q = r
  /\ runs[r].at = "up" => runs[r].tested = {} /\ ~runs[r].stale
  /\ runs[r].at \in {"probe", "notes", "script"} => stack = runs[r].built
  /\ runs[r].at # "rest" \/ runs[r].boot = "green" =>
       runs[r].tested \subseteq {runs[r].built} /\ ~runs[r].stale

\* Data without an owner was left behind.
SeededByRun == seeded /\ ~orphan => \E q \in Runs : runs[q].at \in {"probe", "notes", "script", "down"}

SmokeInv ==
  /\ runs \in [Runs -> Smoke] /\ checkout \in Nat /\ stack \in Nat
  /\ seeded \in BOOLEAN /\ orphan \in BOOLEAN
  /\ \A r \in Runs \ overlaps : OwnStack(r)
  /\ \A r \in Runs : runs[r].acceptance = "green" => runs[r].tested # {}
  /\ SeededByRun

LEMMA RestIsTyped ==
  Rest \in Smoke /\ Rest.at = "rest" /\ Rest.boot = "none" /\ Rest.acceptance = "none" /\ Rest.tested = {} /\ ~Rest.stale
BY DEF Rest, Smoke, Places, Kinds, Floors, Down

LEMMA SmokeInitial == SmokeInit => SmokeInv
<1> SUFFICES ASSUME SmokeInit PROVE SmokeInv OBVIOUS
<1> USE DEF SmokeInit
<1>1. runs \in [Runs -> Smoke] /\ \A r \in Runs : runs[r] = Rest BY RestIsTyped
<1>2. \A r \in Runs : OwnStack(r) BY <1>1, RestIsTyped DEF OwnStack
<1> QED BY <1>1, <1>2, RestIsTyped DEF SmokeInv, SeededByRun, Down

\* One run goes on, the others stay: what has to be shown of it.
LEMMA RunGoes ==
  ASSUME SmokeInv, NEW r \in Runs, NEW new \in Smoke, runs' = [runs EXCEPT ![r] = new],
         runs[r].at # "rest", overlaps' = overlaps, checkout' \in Nat, stack' \in Nat,
         seeded' \in BOOLEAN, orphan' \in BOOLEAN,
         r \notin overlaps =>
           /\ new.at = "up" => new.tested = {} /\ ~new.stale
           /\ new.at \in {"probe", "notes", "script"} => stack' = new.built
           /\ new.at # "rest" \/ new.boot = "green" => new.tested \subseteq {new.built} /\ ~new.stale,
         new.acceptance = "green" => new.tested # {},
         seeded' /\ ~orphan' /\ new.at \notin {"probe", "notes", "script", "down"} =>
           \E q \in Runs \ {r} : runs[q].at \in {"probe", "notes", "script", "down"}
  PROVE  SmokeInv'
<1>1. runs'[r] = new /\ \A q \in Runs \ {r} : runs'[q] = runs[q] BY DEF SmokeInv
<1>2. runs' \in [Runs -> Smoke] BY DEF SmokeInv
<1>3. r \in Busy /\ Busy' \subseteq Busy BY <1>1 DEF Busy
<1>4. \A q \in Runs \ overlaps : OwnStack(q)'
  <2> SUFFICES ASSUME NEW q \in Runs \ overlaps PROVE OwnStack(q)' OBVIOUS
  <2>1. OwnStack(q) BY DEF SmokeInv
  <2>2. CASE q = r
    <3>1. \A p \in Busy : p = r
      <4>1. runs[r].at \in {"up", "probe", "notes", "script", "down"} BY DEF SmokeInv, Smoke, Places
      <4> QED BY <2>1, <2>2, <4>1 DEF OwnStack
    <3> QED BY <1>1, <1>3, <2>2, <3>1 DEF OwnStack
  <2>3. CASE q # r
    <3>1. runs[q].at \notin {"up", "probe", "notes", "script", "down"} BY <1>3, <2>1, <2>3 DEF OwnStack
    <3> QED BY <1>1, <2>1, <2>3, <3>1 DEF OwnStack
  <2> QED BY <2>2, <2>3
<1>5. \A q \in Runs : runs'[q].acceptance = "green" => runs'[q].tested # {} BY <1>1 DEF SmokeInv
<1>6. SeededByRun'
  <2>1. CASE new.at \in {"probe", "notes", "script", "down"} BY <1>1, <2>1 DEF SeededByRun
  <2>2. CASE new.at \notin {"probe", "notes", "script", "down"} BY <1>1, <2>2 DEF SeededByRun
  <2> QED BY <2>1, <2>2
<1> QED BY <1>2, <1>4, <1>5, <1>6 DEF SmokeInv

LEMMA SmokeStep == SmokeInv /\ [SmokeNext]_smokeVars => SmokeInv'
<1> SUFFICES ASSUME SmokeInv, [SmokeNext]_smokeVars PROVE SmokeInv' OBVIOUS
<1>t. /\ runs \in [Runs -> Smoke] /\ checkout \in Nat /\ stack \in Nat
      /\ seeded \in BOOLEAN /\ orphan \in BOOLEAN
  BY DEF SmokeInv
<1>o. \A r \in Runs \ overlaps : OwnStack(r) BY DEF SmokeInv
<1>g. \A r \in Runs : runs[r].acceptance = "green" => runs[r].tested # {} BY DEF SmokeInv
<1>d. Down \in Nat BY DEF Down
<1>1. ASSUME NEW r \in Runs, NEW kind \in Kinds, Begin(r, kind) PROVE SmokeInv'
  <2> DEFINE new == CASE kind = "no compose"   -> [Rest EXCEPT !.boot = "skipped", !.acceptance = "skipped"]
                      [] kind = "lone backend" -> [Rest EXCEPT !.boot = "red", !.kind = kind]
                      [] OTHER                 -> [Rest EXCEPT !.at = "up", !.kind = kind]
  <2>1. /\ runs[r].at = "rest" /\ runs' = [runs EXCEPT ![r] = new]
        /\ overlaps' = IF Busy # {} /\ kind \in {"web app", "worker"}
                       THEN overlaps \cup Busy \cup {r} ELSE overlaps \ {r}
        /\ UNCHANGED <<checkout, stack, seeded, orphan>>
    BY <1>1 DEF Begin
  <2>2. /\ new \in Smoke /\ new.tested = {} /\ ~new.stale /\ new.acceptance # "green" /\ new.boot # "green"
        /\ new.at \in {"rest", "up"}
        /\ new.at = "up" => kind \in {"web app", "worker"}
    <3>1. CASE kind = "no compose"
      <4>1. new = [Rest EXCEPT !.boot = "skipped", !.acceptance = "skipped"] BY <3>1
      <4> QED BY <4>1, <3>1 DEF Rest, Smoke, Places, Kinds, Floors, Down
    <3>2. CASE kind = "lone backend"
      <4>1. new = [Rest EXCEPT !.boot = "red", !.kind = kind] BY <3>2
      <4> QED BY <4>1, <3>2 DEF Rest, Smoke, Places, Kinds, Floors, Down
    <3>3. CASE kind \in {"web app", "worker"}
      <4>1. new = [Rest EXCEPT !.at = "up", !.kind = kind] BY <3>3
      <4> QED BY <4>1, <3>3 DEF Rest, Smoke, Places, Kinds, Floors, Down
    <3> QED BY <3>1, <3>2, <3>3 DEF Kinds
  <2> HIDE DEF new
  <2>3. runs'[r] = new /\ \A q \in Runs \ {r} : runs'[q] = runs[q] BY <1>t, <2>1
  <2>4. runs' \in [Runs -> Smoke] BY <1>t, <2>1, <2>2
  <2>5. Busy' = IF new.at = "up" THEN Busy \cup {r} ELSE Busy BY <2>1, <2>2, <2>3 DEF Busy
  <2>6. \A q \in Runs \ overlaps' : OwnStack(q)'
    <3> SUFFICES ASSUME NEW q \in Runs, q \notin overlaps' PROVE OwnStack(q)' OBVIOUS
    <3>1. CASE q = r
      <4>1. CASE new.at = "rest" BY <2>2, <2>3, <3>1, <4>1 DEF OwnStack
      <4>2. CASE new.at = "up"
        <5>1. Busy = {} BY <2>1, <2>2, <3>1, <4>2
        <5>2. Busy' = {r} BY <2>5, <4>2, <5>1
        <5>3. runs'[q] = new BY <2>3, <3>1
        <5> QED BY <2>2, <3>1, <4>2, <5>2, <5>3 DEF OwnStack
      <4> QED BY <2>2, <4>1, <4>2
    <3>2. CASE q # r
      <4>1. OwnStack(q) BY <1>o, <2>1, <3>2
      <4>2. runs'[q] = runs[q] /\ stack' = stack BY <2>1, <2>3, <3>2
      <4>3. runs[q].at \in {"up", "probe", "notes", "script", "down"} => Busy' = Busy
        BY <2>1, <2>2, <2>5, <3>2 DEF Busy
      <4> QED BY <4>1, <4>2, <4>3 DEF OwnStack
    <3> QED BY <3>1, <3>2
  <2>7. \A q \in Runs : runs'[q].acceptance = "green" => runs'[q].tested # {} BY <1>g, <2>2, <2>3
  <2>8. SeededByRun' BY <2>1, <2>3 DEF SmokeInv, SeededByRun
  <2> QED BY <1>t, <2>1, <2>4, <2>6, <2>7, <2>8 DEF SmokeInv
<1>2. ASSUME NEW r \in Runs, Up(r) PROVE SmokeInv'
  <2> DEFINE new == [runs[r] EXCEPT !.at = "probe", !.built = checkout, !.stale = seeded /\ ~orphan]
  <2>1. /\ runs[r].at = "up" /\ runs' = [runs EXCEPT ![r] = new] /\ stack' = checkout /\ seeded' = TRUE
        /\ UNCHANGED <<checkout, orphan, overlaps>>
    BY <1>2, <1>t DEF Up
  <2>2. /\ new \in Smoke /\ new.at = "probe" /\ new.built = checkout /\ new.stale = (seeded /\ ~orphan)
        /\ new.tested = runs[r].tested /\ new.acceptance = runs[r].acceptance
    BY <1>t DEF Smoke, Places
  <2> HIDE DEF new
  <2>3. r \notin overlaps => runs[r].tested = {} /\ ~(seeded /\ ~orphan)
    <3>1. HAVE r \notin overlaps
    <3>2. OwnStack(r) BY <1>o, <3>1
    <3>3. \A q \in Runs : runs[q].at # "rest" => q = r BY <2>1, <3>2 DEF OwnStack, Busy
    <3>4. ~(seeded /\ ~orphan) BY <2>1, <3>3 DEF SmokeInv, SeededByRun
    <3> QED BY <2>1, <3>2, <3>4 DEF OwnStack
  <2> QED BY <1>g, <1>t, <2>1, <2>2, <2>3, RunGoes
<1>3. ASSUME NEW r \in Runs, UpFails(r) PROVE SmokeInv'
  <2> DEFINE new == [runs[r] EXCEPT !.at = "down", !.boot = "red"]
  <2>1. runs[r].at = "up" /\ runs' = [runs EXCEPT ![r] = new] BY <1>3, <1>t DEF UpFails, BootRed
  <2>2. /\ new \in Smoke /\ new.at = "down" /\ new.tested = runs[r].tested /\ new.stale = runs[r].stale
        /\ new.built = runs[r].built /\ new.acceptance = runs[r].acceptance
    BY <1>t DEF Smoke, Places, Floors
  <2> HIDE DEF new
  <2>3. UNCHANGED <<checkout, orphan, overlaps>> /\ stack' \in Nat /\ seeded' \in BOOLEAN
    BY <1>3, <1>t DEF UpFails
  <2> QED BY <1>g, <1>o, <1>t, <2>1, <2>2, <2>3, RunGoes DEF OwnStack
\* A run in the middle moves on, its verdicts aside.
<1>4. ASSUME NEW r \in Runs, Probe(r) \/ Notes(r) \/ NoScript(r)
             \/ (\E total, feature, negative \in Counts, declared \in Counts \X Counts :
                  Script(r, total, feature, negative, declared))
      PROVE  SmokeInv'
  <2>1. runs[r].at \in {"probe", "notes", "script"} /\ UNCHANGED <<checkout, stack, seeded, orphan, overlaps>>
    BY <1>4 DEF Probe, Notes, NoScript, Script
  <2>2. PICK new \in Smoke :
          /\ runs' = [runs EXCEPT ![r] = new]
          /\ new.at \in {"notes", "script", "down"} /\ new.built = runs[r].built /\ new.stale = runs[r].stale
          /\ new.tested \in {runs[r].tested, runs[r].tested \cup {stack}}
          /\ new.acceptance = "green" => new.tested # {}
    <3> DEFINE red == [runs[r] EXCEPT !.at = "down", !.boot = "red"]
               green == [runs[r] EXCEPT !.at = "notes", !.tested = @ \cup {stack}]
               noted == [runs[r] EXCEPT !.at = "script"]
               done(floor) == [runs[r] EXCEPT !.at = "down", !.boot = "green", !.acceptance = floor,
                                              !.tested = IF floor = "skipped" THEN @ ELSE @ \cup {stack}]
    <3>1. \/ runs' = [runs EXCEPT ![r] = red] \/ runs' = [runs EXCEPT ![r] = green]
          \/ runs' = [runs EXCEPT ![r] = noted]
          \/ \E floor \in {"red", "skipped", "green"} : runs' = [runs EXCEPT ![r] = done(floor)]
      <4>1. /\ BootRed(r) = [runs EXCEPT ![r] = red] /\ BootGreen(r) = [runs EXCEPT ![r] = green]
            /\ [runs EXCEPT ![r].at = "script"] = [runs EXCEPT ![r] = noted]
        BY <1>t DEF BootRed, BootGreen
      <4>2. ASSUME NEW floor PROVE Accepted(r, floor) = [runs EXCEPT ![r] = done(floor)]
        BY <1>t DEF Accepted
      <4> HIDE DEF red, green, noted, done
      <4>3. \/ runs' = BootRed(r) \/ runs' = BootGreen(r) \/ runs' = [runs EXCEPT ![r].at = "script"]
            \/ \E floor \in {"red", "skipped", "green"} : runs' = Accepted(r, floor)
        BY <1>4 DEF Probe, Notes, NoScript, Script
      <4> QED BY <4>1, <4>2, <4>3
    <3>2. /\ red \in Smoke /\ red.at = "down" /\ red.built = runs[r].built /\ red.stale = runs[r].stale
          /\ red.tested = runs[r].tested /\ red.acceptance = runs[r].acceptance
      BY <1>t DEF Smoke, Places, Floors
    <3>3. /\ green \in Smoke /\ green.at = "notes" /\ green.built = runs[r].built /\ green.stale = runs[r].stale
          /\ green.tested = runs[r].tested \cup {stack} /\ green.acceptance = runs[r].acceptance
      BY <1>t DEF Smoke, Places, Floors
    <3>4. /\ noted \in Smoke /\ noted.at = "script" /\ noted.built = runs[r].built /\ noted.stale = runs[r].stale
          /\ noted.tested = runs[r].tested /\ noted.acceptance = runs[r].acceptance
      BY <1>t DEF Smoke, Places, Floors
    <3>5. ASSUME NEW floor \in {"red", "skipped", "green"}
          PROVE  /\ done(floor) \in Smoke /\ done(floor).at = "down" /\ done(floor).built = runs[r].built
                 /\ done(floor).stale = runs[r].stale /\ done(floor).acceptance = floor
                 /\ done(floor).tested = IF floor = "skipped" THEN runs[r].tested ELSE runs[r].tested \cup {stack}
      BY <1>t DEF Smoke, Places, Floors
    <3> HIDE DEF red, green, noted, done
    <3>6. CASE runs' = [runs EXCEPT ![r] = red] BY <1>g, <3>2, <3>6
    <3>7. CASE runs' = [runs EXCEPT ![r] = green] BY <1>g, <3>3, <3>7
    <3>8. CASE runs' = [runs EXCEPT ![r] = noted] BY <1>g, <3>4, <3>8
    <3>9. ASSUME NEW floor \in {"red", "skipped", "green"}, runs' = [runs EXCEPT ![r] = done(floor)]
          PROVE  \E new \in Smoke :
                   /\ runs' = [runs EXCEPT ![r] = new]
                   /\ new.at \in {"notes", "script", "down"} /\ new.built = runs[r].built /\ new.stale = runs[r].stale
                   /\ new.tested \in {runs[r].tested, runs[r].tested \cup {stack}}
                   /\ new.acceptance = "green" => new.tested # {}
      BY <3>5, <3>9
    <3> QED BY <3>1, <3>6, <3>7, <3>8, <3>9
  <2>3. r \notin overlaps =>
          /\ new.at \in {"probe", "notes", "script"} => stack' = new.built
          /\ new.tested \subseteq {new.built} /\ ~new.stale
    BY <1>o, <2>1, <2>2 DEF OwnStack
  <2>4. new.at \notin {"probe", "notes", "script", "down"} => FALSE BY <2>2
  <2> QED BY <1>t, <2>1, <2>2, <2>3, <2>4, RunGoes
<1>5. ASSUME NEW r \in Runs, TearDown(r) PROVE SmokeInv'
  <2> DEFINE new == [runs[r] EXCEPT !.at = "rest", !.kind = Rest.kind]
  <2>1. runs[r].at = "down" /\ runs' = [runs EXCEPT ![r] = new] /\ UNCHANGED <<checkout, overlaps>>
    BY <1>5, <1>t DEF TearDown
  <2>2. /\ new \in Smoke /\ new.at = "rest" /\ new.tested = runs[r].tested /\ new.stale = runs[r].stale
        /\ new.built = runs[r].built /\ new.acceptance = runs[r].acceptance
    BY <1>t DEF Smoke, Places, Rest, Kinds
  <2> HIDE DEF new
  <2>3. stack' \in Nat /\ seeded' \in BOOLEAN /\ orphan' \in BOOLEAN /\ ~(seeded' /\ ~orphan')
    BY <1>5, <1>t, <1>d DEF TearDown, Removed
  <2> QED BY <1>g, <1>o, <2>1, <2>2, <2>3, <1>t, RunGoes DEF OwnStack
<1>6. CASE SmokeRestart
  <2>1. /\ \A r \in Runs : runs'[r] = IF r \in Busy THEN Rest ELSE runs[r]
        /\ runs' = [r \in Runs |-> IF r \in Busy THEN Rest ELSE runs[r]]
        /\ orphan' = TRUE /\ UNCHANGED <<checkout, stack, seeded, overlaps>>
    BY <1>6 DEF SmokeRestart
  <2>2. runs' \in [Runs -> Smoke] BY <1>t, <2>1, RestIsTyped
  <2>3. \A r \in Runs : runs'[r].at = "rest" BY <2>1, RestIsTyped DEF Busy
  <2>4. \A r \in Runs \ overlaps : OwnStack(r)' BY <1>o, <2>1, <2>3, RestIsTyped DEF OwnStack
  <2>5. \A r \in Runs : runs'[r].acceptance = "green" => runs'[r].tested # {} BY <1>g, <2>1, RestIsTyped
  <2> QED BY <1>t, <2>1, <2>2, <2>4, <2>5 DEF SmokeInv, SeededByRun
<1>7. CASE SmokeCommit BY <1>7 DEF SmokeCommit, SmokeInv, OwnStack, SeededByRun, Busy
<1>8. CASE UNCHANGED smokeVars BY <1>8 DEF smokeVars, SmokeInv, OwnStack, SeededByRun, Busy
<1> QED BY <1>1, <1>2, <1>3, <1>4, <1>5, <1>6, <1>7, <1>8 DEF SmokeNext

\* A green floor is about the build its run booted, whatever other versions, commits
\* and restarts come between (services/orchestrator.py: _run_release_smoke).
THEOREM FloorIsItsOwn == SmokeSpec => []SmokeIsItsOwn
<1>1. SmokeInv => SmokeIsItsOwn BY DEF SmokeInv, OwnStack, SmokeIsItsOwn
<1>2. SmokeInv /\ [SmokeNext]_smokeVars => SmokeInv' BY SmokeStep
<1> QED BY <1>1, <1>2, SmokeInitial, PTL DEF SmokeSpec

-----------------------------------------------------------------------------
(* Projects *)

ProjectAssumption == Hosted \subseteq ProjectSlugs

ProjectRows  == [block : Blocks, pushed : Nat, vouched : BOOLEAN]
CreationRows == [at : {"repo", "insert", "scaffold", "push", "finish"}, slug : ProjectSlugs, block : Blocks,
                 pushed : Nat, vouched : BOOLEAN]
DeletionRows == [at : {"workspace", "github"}, slug : Hosted, github : BOOLEAN]

ProjectTyped ==
  /\ projects \in [ProjectSlugs -> ProjectRows \cup {NoProject}] /\ creations \in [Creations -> CreationRows \cup {Idle}]
  /\ deletions \in [Deletions -> DeletionRows \cup {Idle}]
  /\ git \in [Hosted -> Nat] /\ remote \in [Hosted -> Nat] /\ gens \in Nat /\ hosted \subseteq ProjectSlugs

\* Who holds a block that a creation still has for itself was given it by an update.
PortsKept ==
  /\ PortsAreOwn
  /\ \A c \in Creations, s \in ProjectSlugs :
       creations[c] # Idle /\ creations[c].vouched /\ HasRow(s) /\ projects[s].block = creations[c].block
         => ~projects[s].vouched

\* A creation has pushed only where it finishes.
PushedLast == \A c \in Creations : creations[c] # Idle /\ creations[c].at # "finish" => creations[c].pushed = Nothing

\* Workspace and repository have the history h.
Stands(s, h) == h # Nothing => git[s] = h /\ s \in hosted /\ remote[s] = h

\* One creation has inserted the row of a slug, while no row is committed; what either has
\* pushed stands.
SlugKept(s) ==
  /\ \A c, d \in Inserted(s) : c = d
  /\ Inserted(s) # {} => ~HasRow(s)
  /\ s \in Hosted \ swept =>
       /\ HasRow(s) => Stands(s, projects[s].pushed)
       /\ \A c \in Inserted(s) : creations[c].at = "finish" => Stands(s, creations[c].pushed)

ProjectInv == ProjectTyped /\ PortsKept /\ PushedLast /\ \A s \in ProjectSlugs : SlugKept(s)

LEMMA NoProjects == ASSUME ProjectInit PROVE ProjectInv
<1> USE DEF ProjectInit
<1>1. ProjectTyped BY DEF ProjectTyped, Nothing
<1>2. \A s \in ProjectSlugs : ~HasRow(s) /\ Inserted(s) = {} BY DEF HasRow, Inserted
<1>3. PortsKept BY <1>2 DEF PortsKept, PortsAreOwn
<1>4. PushedLast BY DEF PushedLast
<1>5. \A s \in ProjectSlugs : SlugKept(s) BY <1>2 DEF SlugKept
<1> QED BY <1>1, <1>3, <1>4, <1>5 DEF ProjectInv

\* Of a slug no creation inserts a row or comes to its end, and nothing it stands on is taken.
LEMMA SlugUntouched ==
  ASSUME NEW s \in ProjectSlugs, SlugKept(s), Inserted(s)' \subseteq Inserted(s),
         \A c \in Inserted(s)' :
           creations'[c].at = "finish" =>
             \/ creations'[c].pushed = Nothing
             \/ creations[c].at = "finish" /\ creations'[c].pushed = creations[c].pushed,
         HasRow(s)' => HasRow(s) /\ projects'[s].pushed = projects[s].pushed,
         s \in Hosted \ swept' =>
           /\ s \notin swept
           /\ HasRow(s)' \/ Inserted(s)' # {} =>
                git'[s] = git[s] /\ remote'[s] = remote[s] /\ (s \in hosted => s \in hosted')
  PROVE  SlugKept(s)'
<1>1. (\A c, d \in Inserted(s)' : c = d) /\ (Inserted(s)' # {} => ~HasRow(s)') BY DEF SlugKept
<1>2. ASSUME s \in Hosted \ swept', HasRow(s)' PROVE Stands(s, projects[s].pushed)'
  <2>1. Stands(s, projects[s].pushed) BY <1>2 DEF SlugKept
  <2> QED BY <1>2, <2>1 DEF Stands
<1>3. ASSUME s \in Hosted \ swept', NEW c \in Inserted(s)', creations'[c].at = "finish"
      PROVE  Stands(s, creations[c].pushed)'
  <2>1. CASE creations'[c].pushed = Nothing BY <2>1 DEF Stands
  <2>2. CASE creations[c].at = "finish" /\ creations'[c].pushed = creations[c].pushed
    <3>1. Stands(s, creations[c].pushed) BY <1>3, <2>2 DEF SlugKept
    <3> QED BY <1>3, <2>2, <3>1 DEF Stands
  <2> QED BY <1>3, <2>1, <2>2
<1> QED BY <1>1, <1>2, <1>3 DEF SlugKept

\* A step of a creation that commits no row: what it does to its own slug is the caller's.
LEMMA CreationMoves ==
  ASSUME ProjectInv, NEW c \in Creations, creations[c] # Idle, NEW s, s = creations[c].slug,
         NEW r, r = Idle \/ r \in CreationRows, creations' = [creations EXCEPT ![c] = r],
         r # Idle => /\ r.slug = s /\ r.block = creations[c].block
                     /\ r.vouched = creations[c].vouched /\ (r.at # "finish" => r.pushed = Nothing),
         UNCHANGED <<projects, deletions, swept>>,
         git' \in [Hosted -> Nat], remote' \in [Hosted -> Nat], gens' \in Nat, hosted \subseteq hosted',
         hosted' \subseteq ProjectSlugs,
         \A t \in Hosted : t # s => git'[t] = git[t] /\ remote'[t] = remote[t],
         SlugKept(s)'
  PROVE  ProjectInv'
<1>t. ProjectTyped BY DEF ProjectInv
<1>1. creations'[c] = r /\ \A d \in Creations \ {c} : creations'[d] = creations[d] BY <1>t DEF ProjectTyped
<1>2. ProjectTyped' BY <1>t DEF ProjectTyped
<1>3. \A t \in ProjectSlugs : HasRow(t)' = HasRow(t) BY DEF HasRow
<1>4. PortsAreOwn' BY <1>3 DEF ProjectInv, PortsKept, PortsAreOwn
<1>5. PortsKept'
  <2>1. SUFFICES ASSUME NEW d \in Creations, NEW t \in ProjectSlugs, creations'[d] # Idle, creations'[d].vouched,
                        HasRow(t), projects[t].block = creations'[d].block
                 PROVE  ~projects[t].vouched
    BY <1>3, <1>4 DEF PortsKept
  <2>2. creations[d] # Idle /\ creations[d].vouched /\ creations[d].block = creations'[d].block
    BY <1>1, <2>1
  <2> QED BY <2>1, <2>2 DEF ProjectInv, PortsKept
<1>6. PushedLast' BY <1>1 DEF ProjectInv, PushedLast
<1>7. ASSUME NEW t \in ProjectSlugs, t # s PROVE SlugKept(t)'
  <2>1. Inserted(t)' \subseteq Inserted(t) /\ \A d \in Inserted(t)' : creations'[d] = creations[d]
    BY <1>1, <1>7 DEF Inserted
  <2> QED BY <1>3, <1>7, <2>1, SlugUntouched DEF ProjectInv
<1> QED BY <1>2, <1>5, <1>6, <1>7 DEF ProjectInv

\* The row of a creation under way, and its slug.
LEMMA Creating ==
  ASSUME ProjectInv, NEW c \in Creations, creations[c].at \in {"repo", "insert", "scaffold", "push", "finish"}
  PROVE  /\ creations[c] # Idle /\ creations[c] \in CreationRows /\ creations[c].slug \in ProjectSlugs
         /\ creations[c].at # "finish" => creations[c].pushed = Nothing
         /\ creations[c].at \in {"scaffold", "push", "finish"} =>
              Inserted(creations[c].slug) = {c} /\ ~HasRow(creations[c].slug)
<1>1. creations[c] # Idle BY DEF Idle
<1>2. creations[c] \in CreationRows BY <1>1 DEF ProjectInv, ProjectTyped
<1>3. creations[c].slug \in ProjectSlugs BY <1>2 DEF CreationRows
<1>4. ASSUME creations[c].at \in {"scaffold", "push", "finish"}
      PROVE  Inserted(creations[c].slug) = {c} /\ ~HasRow(creations[c].slug)
  <2>1. c \in Inserted(creations[c].slug) BY <1>1, <1>4 DEF Inserted
  <2>2. SlugKept(creations[c].slug) BY <1>3 DEF ProjectInv
  <2> QED BY <2>1, <2>2 DEF SlugKept
<1> QED BY <1>1, <1>2, <1>3, <1>4 DEF ProjectInv, PushedLast

\* A creation that has its slug to itself, and pushed nothing yet, may do to it what it likes.
LEMMA OwnSlug ==
  ASSUME ProjectInv, NEW c \in Creations, NEW s \in ProjectSlugs, ~HasRow(s)', Inserted(s)' \subseteq {c},
         c \in Inserted(s)' /\ creations'[c].at = "finish" => Stands(s, creations[c].pushed)'
  PROVE  SlugKept(s)'
BY DEF SlugKept

\* The steps up to the insert: the slug is not this creation's yet.
LEMMA EarlyKeeps ==
  ASSUME ProjectInv, NEW c \in Creations, RepoReady(c) \/ RepoFails(c) \/ Insert(c)
  PROVE  ProjectInv'
<1>s. PICK s : s = creations[c].slug OBVIOUS
<1>t. ProjectTyped BY DEF ProjectInv
<1>1. creations[c].at \in {"repo", "insert"} BY DEF RepoReady, RepoFails, Insert
<1>2. /\ creations[c] # Idle /\ creations[c] \in CreationRows /\ s \in ProjectSlugs /\ creations[c].pushed = Nothing
  BY <1>s, <1>1, Creating
<1>3. /\ UNCHANGED <<projects, deletions, swept, git, remote, gens>>
      /\ hosted \subseteq hosted' /\ hosted' \subseteq hosted \cup {s}
  BY <1>s DEF RepoReady, RepoFails, Insert
<1>4. /\ git' \in [Hosted -> Nat] /\ remote' \in [Hosted -> Nat] /\ gens' \in Nat /\ hosted' \subseteq ProjectSlugs
  BY <1>t, <1>2, <1>3 DEF ProjectTyped
<1>5. HasRow(s)' = HasRow(s) BY <1>3 DEF HasRow
<1>6. ASSUME NEW r, r = Idle \/ r = [creations[c] EXCEPT !.at = "insert"], creations' = [creations EXCEPT ![c] = r]
      PROVE  ProjectInv'
  <2>1. r = Idle \/ (r \in CreationRows /\ r.slug = s /\ r.block = creations[c].block
                     /\ r.vouched = creations[c].vouched /\ r.at = "insert" /\ r.pushed = Nothing)
    BY <1>s, <1>2, <1>6 DEF CreationRows
  <2>2. creations'[c] = r /\ \A d \in Creations \ {c} : creations'[d] = creations[d]
    BY <1>t, <1>6 DEF ProjectTyped
  <2>3. Inserted(s)' \subseteq Inserted(s) /\ \A d \in Inserted(s)' : creations'[d] = creations[d]
    BY <2>1, <2>2 DEF Inserted
  <2>4. SlugKept(s)' BY <1>2, <1>3, <1>5, <2>3, SlugUntouched DEF ProjectInv
  <2> QED BY <1>s, <1>2, <1>3, <1>4, <1>6, <2>1, <2>4, CreationMoves
<1>7. CASE RepoReady(c)
  <2>1. creations' = [creations EXCEPT ![c] = [creations[c] EXCEPT !.at = "insert"]]
    BY <1>7 DEF RepoReady
  <2> QED BY <1>6, <2>1
<1>8. CASE RepoFails(c) BY <1>6, <1>8 DEF RepoFails, Abort
<1>9. CASE Insert(c)
  <2>1. CASE HasRow(s) BY <1>s, <1>6, <1>9, <2>1 DEF Insert, Abort
  <2>2. CASE ~HasRow(s)
    <3> DEFINE r == [creations[c] EXCEPT !.at = "scaffold"]
    <3>1. Inserted(s) = {} /\ creations' = [creations EXCEPT ![c] = r] BY <1>s, <1>9, <2>2 DEF Insert
    <3>2. r \in CreationRows /\ r.slug = s /\ r.block = creations[c].block
          /\ r.vouched = creations[c].vouched /\ r.at = "scaffold" /\ r.pushed = Nothing
      BY <1>s, <1>2 DEF CreationRows
    <3> HIDE DEF r
    <3>3. creations'[c] = r /\ \A d \in Creations \ {c} : creations'[d] = creations[d]
      BY <1>t, <3>1 DEF ProjectTyped
    <3>4. Inserted(s)' \subseteq {c} BY <3>1, <3>3 DEF Inserted
    <3>5. SlugKept(s)' BY <1>2, <1>5, <2>2, <3>2, <3>3, <3>4, OwnSlug
    <3> QED BY <1>s, <1>2, <1>3, <1>4, <3>1, <3>2, <3>5, CreationMoves
  <2> QED BY <2>1, <2>2
<1> QED BY <1>7, <1>8, <1>9

\* The steps after the insert: no row of the slug is committed, no other creation has it.
LEMMA LateKeeps ==
  ASSUME ProjectAssumption, ProjectInv, NEW c \in Creations,
         \/ Scaffold(c) \/ NoBootstrap(c) \/ ScaffoldFails(c)
         \/ Push(c) \/ PushFails(c) \/ NoPush(c) \/ FinishFails(c)
  PROVE  ProjectInv'
<1>s. PICK s : s = creations[c].slug OBVIOUS
<1>t. ProjectTyped BY DEF ProjectInv
<1>1. creations[c].at \in {"scaffold", "push", "finish"}
  BY DEF Scaffold, NoBootstrap, ScaffoldFails, Push, PushFails, NoPush, FinishFails
<1>2. /\ creations[c] # Idle /\ creations[c] \in CreationRows /\ s \in ProjectSlugs
      /\ Inserted(s) = {c} /\ ~HasRow(s) /\ (creations[c].at # "finish" => creations[c].pushed = Nothing)
  BY <1>s, <1>1, Creating
<1>3. UNCHANGED <<projects, deletions, swept, hosted>> /\ gens' \in Nat
  BY <1>t DEF ProjectTyped, Scaffold, NoBootstrap, ScaffoldFails, Push, PushFails, NoPush, FinishFails
<1>4. ASSUME NEW r, r = Idle \/ r \in CreationRows, creations' = [creations EXCEPT ![c] = r],
             git' \in [Hosted -> Nat], remote' \in [Hosted -> Nat],
             \A t \in Hosted : t # s => git'[t] = git[t] /\ remote'[t] = remote[t],
             r # Idle => /\ r.slug = s /\ r.block = creations[c].block /\ r.vouched = creations[c].vouched
                         /\ r.at # "finish" => r.pushed = Nothing
                         /\ r.at = "finish" /\ r.pushed # Nothing =>
                              git'[s] = r.pushed /\ s \in hosted' /\ remote'[s] = r.pushed
      PROVE  ProjectInv'
  <2>1. creations'[c] = r /\ \A d \in Creations \ {c} : creations'[d] = creations[d]
    BY <1>t, <1>4 DEF ProjectTyped
  <2>2. Inserted(s)' \subseteq {c} BY <1>2, <2>1 DEF Inserted
  <2>3. ~HasRow(s)' BY <1>2, <1>3 DEF HasRow
  <2>4. c \in Inserted(s)' => r # Idle BY <2>1 DEF Inserted
  <2>5. c \in Inserted(s)' /\ creations'[c].at = "finish" => Stands(s, creations[c].pushed)'
    BY <1>4, <2>1, <2>4 DEF Stands
  <2>6. SlugKept(s)' BY <1>2, <2>2, <2>3, <2>5, OwnSlug
  <2>7. hosted \subseteq hosted' /\ hosted' \subseteq ProjectSlugs BY <1>t, <1>3 DEF ProjectTyped
  <2> QED BY <1>s, <1>2, <1>3, <1>4, <2>6, <2>7, CreationMoves
<1>5. CASE Scaffold(c) \/ NoBootstrap(c)
  <2> DEFINE r == [creations[c] EXCEPT !.at = "push"]
  <2>1. creations[c].at = "scaffold" /\ creations' = [creations EXCEPT ![c] = r] /\ remote' = remote
    BY <1>5 DEF Scaffold, NoBootstrap
  <2>2. r \in CreationRows /\ r.slug = s /\ r.block = creations[c].block
        /\ r.vouched = creations[c].vouched /\ r.at = "push" /\ r.pushed = Nothing
    BY <1>s, <1>2, <2>1 DEF CreationRows
  <2>3. git' \in [Hosted -> Nat] /\ \A t \in Hosted : t # s => git'[t] = git[t]
    <3>1. CASE Scaffold(c)
      <4>1. s \in Hosted /\ git[s] \in Nat /\ gens + 1 \in Nat BY <1>s, <1>t, <3>1 DEF Scaffold, ProjectTyped
      <4>2. PICK h \in Nat : git' = [git EXCEPT ![s] = h] BY <1>s, <3>1, <4>1 DEF Scaffold
      <4> QED BY <1>t, <4>2 DEF ProjectTyped
    <3>2. CASE NoBootstrap(c) BY <1>t, <3>2 DEF NoBootstrap, ProjectTyped
    <3> QED BY <1>5, <3>1, <3>2
  <2>4. remote' \in [Hosted -> Nat] BY <1>t, <2>1 DEF ProjectTyped
  <2> HIDE DEF r
  <2> QED BY <1>4, <2>1, <2>2, <2>3, <2>4
<1>6. CASE ScaffoldFails(c) \/ FinishFails(c)
  <2>1. creations' = [creations EXCEPT ![c] = Idle] /\ remote' = remote
    BY <1>6 DEF ScaffoldFails, FinishFails, Abort
  <2>2. git' = git \/ \E h \in Nat : git' = [git EXCEPT ![s] = h]
    <3>1. gens + 1 \in Nat BY <1>t DEF ProjectTyped
    <3> QED BY <1>s, <1>6, <3>1 DEF ScaffoldFails, FinishFails
  <2>3. git' \in [Hosted -> Nat] /\ \A t \in Hosted : t # s => git'[t] = git[t]
    BY <1>t, <2>2 DEF ProjectTyped
  <2>4. remote' \in [Hosted -> Nat] BY <1>t, <2>1 DEF ProjectTyped
  <2> QED BY <1>4, <2>1, <2>3, <2>4
<1>7. CASE Push(c)
  <2> DEFINE r == [creations[c] EXCEPT !.at = "finish", !.pushed = git[s]]
  <2>1. /\ s \in Hosted /\ s \in hosted /\ git' = git /\ remote' = [remote EXCEPT ![s] = git[s]]
        /\ creations' = [creations EXCEPT ![c] = r]
    BY <1>s, <1>7 DEF Push, Stage4
  <2>2. git[s] \in Nat BY <1>t, <2>1 DEF ProjectTyped
  <2>3. r \in CreationRows /\ r.slug = s /\ r.block = creations[c].block
        /\ r.vouched = creations[c].vouched /\ r.at = "finish" /\ r.pushed = git[s]
    BY <1>s, <1>2, <2>2 DEF CreationRows
  <2>4. /\ git' \in [Hosted -> Nat] /\ remote' \in [Hosted -> Nat] /\ git'[s] = git[s] /\ remote'[s] = git[s]
        /\ \A t \in Hosted : t # s => git'[t] = git[t] /\ remote'[t] = remote[t]
    BY <1>t, <2>1, <2>2 DEF ProjectTyped
  <2> HIDE DEF r
  <2> QED BY <1>3, <1>4, <2>1, <2>3, <2>4
<1>8. CASE PushFails(c)
  <2>1. creations' = [creations EXCEPT ![c] = Idle] /\ s \in Hosted BY <1>s, <1>8 DEF PushFails, Stage4, Abort
  <2>2. git[s] \in Nat /\ Nothing \in Nat BY <1>t, <2>1 DEF ProjectTyped, Nothing
  <2>3. remote' = remote \/ remote' = [remote EXCEPT ![s] = git[s]] BY <1>s, <1>8 DEF PushFails
  <2>4. git' = git \/ git' = [git EXCEPT ![s] = Nothing] BY <1>s, <1>8 DEF PushFails
  <2>5. /\ git' \in [Hosted -> Nat] /\ remote' \in [Hosted -> Nat]
        /\ \A t \in Hosted : t # s => git'[t] = git[t] /\ remote'[t] = remote[t]
    BY <1>t, <2>2, <2>3, <2>4 DEF ProjectTyped
  <2> QED BY <1>4, <2>1, <2>5
<1>9. CASE NoPush(c)
  <2> DEFINE r == [creations[c] EXCEPT !.at = "finish"]
  <2>1. creations[c].at = "push" /\ git' = git /\ remote' = remote /\ creations' = [creations EXCEPT ![c] = r]
    BY <1>9 DEF NoPush
  <2>2. r \in CreationRows /\ r.slug = s /\ r.block = creations[c].block
        /\ r.vouched = creations[c].vouched /\ r.at = "finish" /\ r.pushed = Nothing
    BY <1>s, <1>2, <2>1 DEF CreationRows
  <2>3. git' \in [Hosted -> Nat] /\ remote' \in [Hosted -> Nat] BY <1>t, <2>1 DEF ProjectTyped
  <2> HIDE DEF r
  <2> QED BY <1>4, <2>1, <2>2, <2>3
<1> QED BY <1>5, <1>6, <1>7, <1>8, <1>9

\* The commit: what the creation has pushed is the project's, and its block is nobody else's.
LEMMA CommitKeepsProjects == ASSUME ProjectInv, NEW c \in Creations, Commit(c) PROVE ProjectInv'
<1>s. PICK s : s = creations[c].slug OBVIOUS
<1> DEFINE r == creations[c]
           row == [block |-> r.block, pushed |-> r.pushed, vouched |-> r.vouched]
<1>t. ProjectTyped BY DEF ProjectInv
<1>1. /\ r.at = "finish" /\ projects' = [projects EXCEPT ![s] = row]
      /\ creations' = [d \in Creations |->
           IF d = c THEN Idle
           ELSE IF creations[d] # Idle /\ creations[d].block = r.block
                THEN [creations[d] EXCEPT !.vouched = FALSE] ELSE creations[d]]
      /\ UNCHANGED <<deletions, git, hosted, remote, gens, swept>>
  BY <1>s DEF Commit
<1>2. r # Idle /\ r \in CreationRows /\ s \in ProjectSlugs /\ Inserted(s) = {c} /\ ~HasRow(s) BY <1>s, <1>1, Creating
<1>3. row \in ProjectRows /\ row.block = r.block /\ row.pushed = r.pushed /\ row.vouched = r.vouched
  BY <1>2 DEF CreationRows, ProjectRows
<1> HIDE DEF row
<1>4. \A t \in ProjectSlugs : projects'[t] = IF t = s THEN row ELSE projects[t] BY <1>t, <1>1 DEF ProjectTyped
<1>5. ASSUME NEW d \in Creations
      PROVE  /\ creations'[d] \in CreationRows \cup {Idle}
             /\ creations'[d] # Idle =>
                  /\ d # c /\ creations[d] # Idle /\ creations'[d].slug = creations[d].slug
                  /\ creations'[d].at = creations[d].at /\ creations'[d].pushed = creations[d].pushed
                  /\ creations'[d].block = creations[d].block
                  /\ creations'[d].vouched => creations[d].vouched /\ creations[d].block # r.block
  <2>1. CASE d = c BY <1>1, <2>1
  <2>2. CASE d # c /\ creations[d] # Idle /\ creations[d].block = r.block
    <3>1. creations'[d] = [creations[d] EXCEPT !.vouched = FALSE] BY <1>1, <2>2
    <3>2. creations[d] \in CreationRows BY <1>t, <2>2 DEF ProjectTyped
    <3> QED BY <2>2, <3>1, <3>2 DEF CreationRows
  <2>3. CASE d # c /\ ~(creations[d] # Idle /\ creations[d].block = r.block)
    <3>1. creations'[d] = creations[d] BY <1>1, <2>3
    <3> QED BY <1>t, <2>3, <3>1 DEF ProjectTyped
  <2> QED BY <2>1, <2>2, <2>3
<1>6. ProjectTyped'
  <2>1. projects' \in [ProjectSlugs -> ProjectRows \cup {NoProject}] BY <1>t, <1>1, <1>3 DEF ProjectTyped
  <2>2. creations' \in [Creations -> CreationRows \cup {Idle}]
    <3>1. \A d \in Creations : creations'[d] \in CreationRows \cup {Idle} BY <1>5
    <3> QED BY <1>1, <3>1
  <2> QED BY <1>t, <1>1, <2>1, <2>2 DEF ProjectTyped
<1>7. PortsAreOwn'
  <2>1. SUFFICES ASSUME NEW a \in ProjectSlugs, NEW b \in ProjectSlugs, a # b, HasRow(a)', HasRow(b)',
                        projects'[a].block = projects'[b].block
                 PROVE  ~projects'[a].vouched \/ ~projects'[b].vouched
    BY DEF PortsAreOwn
  <2>2. \A t \in ProjectSlugs : t # s /\ HasRow(t)' => HasRow(t) BY <1>4 DEF HasRow
  <2>3. \A t \in ProjectSlugs : HasRow(t) /\ projects[t].block = r.block /\ r.vouched => ~projects[t].vouched
    BY <1>2 DEF ProjectInv, PortsKept
  <2>4. CASE a # s /\ b # s BY <1>4, <2>1, <2>2, <2>4 DEF ProjectInv, PortsKept, PortsAreOwn
  <2>5. CASE a = s BY <1>3, <1>4, <2>1, <2>2, <2>3, <2>5
  <2>6. CASE b = s BY <1>3, <1>4, <2>1, <2>2, <2>3, <2>6
  <2> QED BY <2>4, <2>5, <2>6
<1>8. PortsKept'
  <2>1. SUFFICES ASSUME NEW d \in Creations, NEW t \in ProjectSlugs, creations'[d] # Idle, creations'[d].vouched,
                        HasRow(t)', projects'[t].block = creations'[d].block
                 PROVE  ~projects'[t].vouched
    BY <1>7 DEF PortsKept
  <2>2. t # s BY <1>3, <1>4, <1>5, <2>1
  <2>3. HasRow(t) /\ projects'[t] = projects[t] BY <1>4, <2>1, <2>2 DEF HasRow
  <2> QED BY <1>5, <2>1, <2>3 DEF ProjectInv, PortsKept
<1>9. PushedLast' BY <1>5 DEF ProjectInv, PushedLast
<1>10. SlugKept(s)'
  <2>1. Inserted(s)' = {} BY <1>2, <1>5 DEF Inserted
  <2>2. s \in Hosted \ swept => Stands(s, r.pushed) BY <1>1, <1>2 DEF ProjectInv, SlugKept
  <2>3. s \in Hosted \ swept' => Stands(s, projects[s].pushed)'
    BY <1>1, <1>2, <1>3, <1>4, <2>2 DEF Stands
  <2> QED BY <2>1, <2>3 DEF SlugKept
<1>11. ASSUME NEW t \in ProjectSlugs, t # s PROVE SlugKept(t)'
  <2>1. Inserted(t)' \subseteq Inserted(t) BY <1>5 DEF Inserted
  <2>2. \A d \in Inserted(t)' : creations'[d].at = creations[d].at /\ creations'[d].pushed = creations[d].pushed
    BY <1>5 DEF Inserted
  <2>3. HasRow(t)' => HasRow(t) /\ projects'[t].pushed = projects[t].pushed BY <1>4, <1>11 DEF HasRow
  <2> QED BY <1>1, <2>1, <2>2, <2>3, SlugUntouched DEF ProjectInv
<1> QED BY <1>6, <1>8, <1>9, <1>10, <1>11 DEF ProjectInv

\* A creation is requested: nobody has its block.
LEMMA RequestKeeps ==
  ASSUME ProjectInv, NEW c \in Creations, NEW s \in ProjectSlugs, NEW b \in Blocks, Request(c, s, b)
  PROVE  ProjectInv'
<1> DEFINE r == [at |-> IF s \in Hosted THEN "repo" ELSE "insert", slug |-> s, block |-> b,
                 pushed |-> Nothing, vouched |-> TRUE]
<1>t. ProjectTyped BY DEF ProjectInv
<1>1. /\ Holders(b) = {} /\ creations' = [creations EXCEPT ![c] = r]
      /\ UNCHANGED <<projects, deletions, git, hosted, remote, gens, swept>>
  BY DEF Request, Available
<1>2. r \in CreationRows /\ r.at \in {"repo", "insert"} /\ r.pushed = Nothing /\ r.block = b
  BY DEF CreationRows, Nothing
<1> HIDE DEF r
<1>3. creations'[c] = r /\ \A d \in Creations \ {c} : creations'[d] = creations[d] BY <1>t, <1>1 DEF ProjectTyped
<1>4. ProjectTyped' BY <1>t, <1>1, <1>2 DEF ProjectTyped
<1>5. \A t \in ProjectSlugs : HasRow(t)' = HasRow(t) BY <1>1 DEF HasRow
<1>6. PortsKept'
  <2>1. PortsAreOwn' BY <1>1, <1>5 DEF ProjectInv, PortsKept, PortsAreOwn
  <2>2. SUFFICES ASSUME NEW d \in Creations, NEW t \in ProjectSlugs, creations'[d] # Idle, creations'[d].vouched,
                        HasRow(t), projects[t].block = creations'[d].block
                 PROVE  ~projects[t].vouched
    BY <1>1, <1>5, <2>1 DEF PortsKept
  <2>3. d # c BY <1>1, <1>2, <1>3, <2>2 DEF Holders
  <2> QED BY <1>3, <2>2, <2>3 DEF ProjectInv, PortsKept
<1>7. PushedLast' BY <1>2, <1>3 DEF ProjectInv, PushedLast
<1>8. ASSUME NEW t \in ProjectSlugs PROVE SlugKept(t)'
  <2>1. Inserted(t)' \subseteq Inserted(t) /\ \A d \in Inserted(t)' : creations'[d] = creations[d]
    BY <1>2, <1>3 DEF Inserted
  <2> QED BY <1>1, <1>5, <2>1, SlugUntouched DEF ProjectInv
<1> QED BY <1>4, <1>6, <1>7, <1>8 DEF ProjectInv

\* Ports set by an update are not vouched for; a deletion takes the row first.
LEMMA RowsKeep ==
  ASSUME ProjectAssumption, ProjectInv, NEW s \in ProjectSlugs,
         \/ \E b \in Blocks : SetPorts(s, b)
         \/ \E d \in Deletions, github \in BOOLEAN : DeleteRow(d, s, github)
  PROVE  ProjectInv'
<1>t. ProjectTyped BY DEF ProjectInv
<1>1. UNCHANGED <<creations, git, hosted, remote, gens, swept>> BY DEF SetPorts, DeleteRow
<1>2. ASSUME projects' \in [ProjectSlugs -> ProjectRows \cup {NoProject}], deletions' \in [Deletions -> DeletionRows \cup {Idle}],
             \A t \in ProjectSlugs : HasRow(t)' =>
               /\ HasRow(t) /\ projects'[t].pushed = projects[t].pushed
               /\ projects'[t].vouched => projects'[t] = projects[t]
      PROVE  ProjectInv'
  <2>1. ProjectTyped' BY <1>t, <1>1, <1>2 DEF ProjectTyped
  <2>2. PortsAreOwn' BY <1>2 DEF ProjectInv, PortsKept, PortsAreOwn
  <2>3. PortsKept' BY <1>1, <1>2, <2>2 DEF ProjectInv, PortsKept
  <2>4. PushedLast' BY <1>1 DEF ProjectInv, PushedLast
  <2>5. ASSUME NEW t \in ProjectSlugs PROVE SlugKept(t)'
    <3>1. Inserted(t)' = Inserted(t) BY <1>1 DEF Inserted
    <3> QED BY <1>1, <1>2, <3>1, SlugUntouched DEF ProjectInv
  <2> QED BY <2>1, <2>3, <2>4, <2>5 DEF ProjectInv
<1>3. ASSUME NEW b \in Blocks, SetPorts(s, b) PROVE ProjectInv'
  <2> DEFINE row == [projects[s] EXCEPT !.block = b, !.vouched = FALSE]
  <2>1. HasRow(s) /\ projects' = [projects EXCEPT ![s].block = b, ![s].vouched = FALSE] /\ deletions' = deletions
    BY <1>3 DEF SetPorts
  <2>2. projects[s] \in ProjectRows BY <1>t, <2>1 DEF ProjectTyped, HasRow
  <2>3. row \in ProjectRows /\ row.pushed = projects[s].pushed /\ ~row.vouched BY <2>2 DEF ProjectRows
  <2>4. projects' = [projects EXCEPT ![s] = row] BY <1>t, <2>1, <2>2 DEF ProjectTyped, ProjectRows
  <2> HIDE DEF row
  <2>5. \A t \in ProjectSlugs : projects'[t] = IF t = s THEN row ELSE projects[t] BY <1>t, <2>4 DEF ProjectTyped
  <2>6. projects' \in [ProjectSlugs -> ProjectRows \cup {NoProject}] BY <1>t, <2>3, <2>4 DEF ProjectTyped
  <2>7. deletions' \in [Deletions -> DeletionRows \cup {Idle}] BY <1>t, <2>1 DEF ProjectTyped
  <2> QED BY <1>2, <2>1, <2>3, <2>5, <2>6, <2>7 DEF HasRow
<1>4. ASSUME NEW d \in Deletions, NEW github \in BOOLEAN, DeleteRow(d, s, github) PROVE ProjectInv'
  <2> DEFINE row == [at |-> "workspace", slug |-> s, github |-> github]
  <2>1. /\ projects' = [projects EXCEPT ![s] = NoProject]
        /\ deletions' = IF s \in Hosted THEN [deletions EXCEPT ![d] = row] ELSE deletions
    BY <1>4 DEF DeleteRow
  <2>2. s \in Hosted => row \in DeletionRows BY DEF DeletionRows
  <2> HIDE DEF row
  <2>3. deletions' \in [Deletions -> DeletionRows \cup {Idle}] BY <1>t, <2>1, <2>2 DEF ProjectTyped
  <2>4. \A t \in ProjectSlugs : projects'[t] = IF t = s THEN NoProject ELSE projects[t] BY <1>t, <2>1 DEF ProjectTyped
  <2>5. projects' \in [ProjectSlugs -> ProjectRows \cup {NoProject}] BY <1>t, <2>1 DEF ProjectTyped
  <2> QED BY <1>2, <2>3, <2>4, <2>5 DEF HasRow
<1> QED BY <1>3, <1>4

\* A clean-up takes nothing from a slug that is in use and that it does not name late.
LEMMA SweepKeeps ==
  ASSUME ProjectAssumption, ProjectInv, NEW d \in Deletions,
         SweepWorkspace(d) \/ SweepGithub(d) \/ SweepFails(d)
  PROVE  ProjectInv'
<1> DEFINE s == deletions[d].slug
<1>t. ProjectTyped BY DEF ProjectInv
<1>1. UNCHANGED <<projects, creations, gens>> /\ NextSweep(d) BY DEF SweepWorkspace, SweepGithub, SweepFails
<1>2. deletions[d] # Idle BY DEF SweepWorkspace, SweepGithub, SweepFails, Idle
<1>3. deletions[d] \in DeletionRows BY <1>t, <1>2 DEF ProjectTyped
<1>4. s \in Hosted /\ s \in ProjectSlugs BY <1>3 DEF DeletionRows, ProjectAssumption
<1>5. deletions' \in [Deletions -> DeletionRows \cup {Idle}]
  <2> DEFINE row == [deletions[d] EXCEPT !.at = "github"]
  <2>1. row \in DeletionRows BY <1>3 DEF DeletionRows
  <2>2. deletions' = [deletions EXCEPT ![d] = row] \/ deletions' = [deletions EXCEPT ![d] = Idle]
    BY <1>1 DEF NextSweep
  <2> HIDE DEF row
  <2> QED BY <1>t, <2>1, <2>2 DEF ProjectTyped
<1>6. /\ git' \in [Hosted -> Nat] /\ remote' \in [Hosted -> Nat] /\ hosted' \subseteq ProjectSlugs
      /\ swept' = swept \/ swept' = Late(s)
      /\ swept' # Late(s) => UNCHANGED <<git, remote, hosted>>
      /\ \A t \in Hosted : t # s => git'[t] = git[t] /\ remote'[t] = remote[t] /\ (t \in hosted => t \in hosted')
  <2>1. CASE SweepWorkspace(d)
    <3>1. git' = [git EXCEPT ![s] = Nothing] /\ swept' = Late(s) /\ UNCHANGED <<hosted, remote>>
      BY <2>1 DEF SweepWorkspace
    <3> QED BY <1>t, <1>4, <3>1 DEF ProjectTyped, Nothing
  <2>2. CASE SweepGithub(d)
    <3>1. remote' = [remote EXCEPT ![s] = Nothing] /\ hosted' = hosted \ {s} /\ swept' = Late(s) /\ git' = git
      BY <2>2 DEF SweepGithub
    <3> QED BY <1>t, <1>4, <3>1 DEF ProjectTyped, Nothing
  <2>3. CASE SweepFails(d) BY <1>t, <2>3 DEF SweepFails, ProjectTyped
  <2> QED BY <2>1, <2>2, <2>3
<1>7. \A t \in ProjectSlugs : HasRow(t)' = HasRow(t) /\ Inserted(t)' = Inserted(t) BY <1>1 DEF HasRow, Inserted
<1>8. ProjectTyped' BY <1>t, <1>1, <1>5, <1>6 DEF ProjectTyped
<1>9. PortsKept' /\ PushedLast' BY <1>1, <1>7 DEF ProjectInv, PortsKept, PortsAreOwn, PushedLast
<1>10. ASSUME NEW t \in ProjectSlugs PROVE SlugKept(t)'
  <2>1. swept \subseteq swept' BY <1>6 DEF Late
  <2>2. ASSUME t \in Hosted \ swept', HasRow(t) \/ Inserted(t) # {}
        PROVE  git'[t] = git[t] /\ remote'[t] = remote[t] /\ (t \in hosted => t \in hosted')
    <3>1. CASE t # s BY <1>6, <2>2, <3>1
    <3>2. CASE t = s
      <4>1. swept' # Late(s) BY <2>2, <3>2 DEF Late
      <4> QED BY <1>6, <4>1
    <3> QED BY <3>1, <3>2
  <2> QED BY <1>1, <1>7, <2>1, <2>2, SlugUntouched DEF ProjectInv
<1> QED BY <1>8, <1>9, <1>10 DEF ProjectInv

LEMMA RestartKeepsProjects == ASSUME ProjectInv, ProjectRestart PROVE ProjectInv'
<1>t. ProjectTyped BY DEF ProjectInv
<1>1. /\ creations' = [c \in Creations |-> Idle] /\ deletions' = [d \in Deletions |-> Idle]
      /\ UNCHANGED <<projects, git, hosted, remote, gens, swept>>
  BY DEF ProjectRestart
<1>2. ProjectTyped' BY <1>t, <1>1 DEF ProjectTyped
<1>3. \A t \in ProjectSlugs : HasRow(t)' = HasRow(t) /\ Inserted(t)' = {} BY <1>1 DEF HasRow, Inserted
<1>4. PortsKept' /\ PushedLast' BY <1>1, <1>3 DEF ProjectInv, PortsKept, PortsAreOwn, PushedLast
<1>5. \A t \in ProjectSlugs : SlugKept(t)'
  <2>1. SUFFICES ASSUME NEW t \in ProjectSlugs PROVE SlugKept(t)' OBVIOUS
  <2> QED BY <1>1, <1>3, SlugUntouched DEF ProjectInv
<1> QED BY <1>2, <1>4, <1>5 DEF ProjectInv

LEMMA ProjectStep == ASSUME ProjectAssumption, ProjectInv, [ProjectNext]_projectVars PROVE ProjectInv'
<1>1. ASSUME NEW c \in Creations, NEW s \in ProjectSlugs, NEW b \in Blocks, Request(c, s, b) PROVE ProjectInv'
  BY <1>1, RequestKeeps
<1>2. ASSUME NEW c \in Creations, Creates(c) PROVE ProjectInv'
  BY <1>2, EarlyKeeps, LateKeeps, CommitKeepsProjects DEF Creates
<1>3. ASSUME NEW s \in ProjectSlugs, \/ \E b \in Blocks : SetPorts(s, b)
                              \/ \E d \in Deletions, github \in BOOLEAN : DeleteRow(d, s, github)
      PROVE  ProjectInv'
  BY <1>3, RowsKeep
<1>4. ASSUME NEW d \in Deletions, SweepWorkspace(d) \/ SweepGithub(d) \/ SweepFails(d) PROVE ProjectInv'
  BY <1>4, SweepKeeps
<1>5. ASSUME ProjectRestart PROVE ProjectInv' BY <1>5, RestartKeepsProjects
<1>6. ASSUME UNCHANGED projectVars PROVE ProjectInv'
  <2>1. UNCHANGED <<projects, creations, deletions, git, hosted, remote, gens, swept>> BY <1>6 DEF projectVars
  <2>2. \A t \in ProjectSlugs : HasRow(t)' = HasRow(t) /\ Inserted(t)' = Inserted(t) BY <2>1 DEF HasRow, Inserted
  <2>3. ProjectTyped' /\ PortsKept' /\ PushedLast'
    BY <2>1, <2>2 DEF ProjectInv, ProjectTyped, PortsKept, PortsAreOwn, PushedLast
  <2>4. ASSUME NEW t \in ProjectSlugs PROVE SlugKept(t)' BY <2>1, <2>2, SlugUntouched DEF ProjectInv
  <2> QED BY <2>3, <2>4 DEF ProjectInv
<1> QED BY <1>1, <1>2, <1>3, <1>4, <1>5, <1>6 DEF ProjectNext

LEMMA ProjectFollows == ASSUME ProjectAssumption, ProjectInv PROVE ProjectIsWhole
<1>1. \A s \in Hosted : SlugKept(s) BY DEF ProjectInv, ProjectAssumption
<1>2. WorkspaceIsOwn BY <1>1 DEF SlugKept, Stands, WorkspaceIsOwn
<1> QED BY <1>2 DEF ProjectInv, PortsKept, ProjectIsWhole

\* Creating and deleting projects (create_project, delete_project): ports, workspace and
\* repository stay the project's own, the named exceptions aside - for any slugs, blocks and
\* requests under way, however they fail.
THEOREM ProjectStaysWhole == ASSUME ProjectAssumption PROVE ProjectSpec => []ProjectIsWhole
<1>1. ProjectInit => ProjectInv BY NoProjects
<1>2. ProjectInv /\ [ProjectNext]_projectVars => ProjectInv' BY ProjectStep
<1>3. ProjectInv => ProjectIsWhole BY ProjectFollows
<1> QED BY <1>1, <1>2, <1>3, PTL DEF ProjectSpec
=============================================================================
