--------------------------- MODULE MCPhaseRelease ---------------------------
(* The phases of a version and the release of versions, checked in one run.   *)
(* They share no state: a behaviour belongs to the component that slice       *)
(* names, and the variables of the other keep an initial value.               *)
EXTENDS MCPhaseBuild, Release

VARIABLE slice

phaseReleaseVars == <<slice, vars, releaseVars>>

PhaseReleaseInit ==
  /\ slice \in {"phases", "release"} /\ Init /\ ReleaseInit
  /\ slice = "release" => head = c1

\* Ids of versions are not given out twice, and all of this instance are used up:
\* a bound, not a deadlock.
RowsUsedUp ==
  /\ slice = "release" /\ \A r \in VersionIds : versions[r] = Deleted
  /\ UNCHANGED phaseReleaseVars

\* Rows and slots are interchangeable and numbered here: of the free ones the
\* first is taken.
TakesFirst ==
  /\ \A q, r \in VersionIds :
       q < r /\ versions[r] = NoVersion /\ versions'[r] # NoVersion => versions[q] # NoVersion
  /\ \A f, g \in Flights :
       f < g /\ flights[g] = NoFlight /\ flights'[g] # NoFlight => flights[f] # NoFlight

PhaseReleaseNext ==
  \/ slice = "phases" /\ Next /\ UNCHANGED <<slice, releaseVars>>
  \/ slice = "release" /\ ReleaseNext /\ TakesFirst /\ UNCHANGED <<slice, vars>>
  \/ RowsUsedUp

PhaseReleaseSpec ==
  PhaseReleaseInit /\ [][PhaseReleaseNext]_phaseReleaseVars /\ WF_vars(Engine)
=============================================================================
