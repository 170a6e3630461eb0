------------------------------- MODULE Backlog -------------------------------
(***************************************************************************)
(* A project's backlog: requirements that are written down, taken into a   *)
(* version, and realized when it is released; and the change requests a    *)
(* consultation over a finished version marks, each captured once as a     *)
(* requirement and a draft version made for it.                            *)
(*                                                                         *)
(* A capture reads the marker in its message, numbers what it creates and  *)
(* writes the marker back with the rest; two of them may run beside each   *)
(* other.  Titles, priorities and the zadanie are left out.                *)
(***************************************************************************)
EXTENDS Naturals, FiniteSets

CONSTANTS
  Versions,  \* slots for versions
  Consults,  \* messages with a change_request marker
  Captures,  \* slots for captures under way
  MaxNumber  \* bound: requirements

ItemNumbers == 1..MaxNumber
Nil         == "none"
NoItem      == [status |-> "absent"]
NoCapture   == [at |-> "idle"]

VARIABLES
  items,     \* requirements by number
  drafts,    \* versions: "absent", "open" (planned or active) or "released"
  markers,   \* per message, the version its marker names
  captures,
  doubled,   \* messages whose captures ran beside each other, or lost their version
  strayed    \* items put into, or left in, a version past its release

backlogVars == <<items, drafts, markers, captures, doubled, strayed>>

-----------------------------------------------------------------------------
Present(n)   == items[n] # NoItem
Unused(v)    == drafts[v] = "absent" /\ \A c \in Captures : captures[c] # NoCapture => captures[c].version # v
Capturing(m) == {c \in Captures : captures[c] # NoCapture /\ captures[c].consult = m}

\* _next_number: one past the highest.
NextNumber == 1 + Cardinality({n \in ItemNumbers : \E k \in n..MaxNumber : Present(k)})

\* backlog.create; the number is unique, so its insert waits for a capture's of it.
Create ==
  /\ NextNumber \in ItemNumbers
  /\ \A c \in Captures : captures[c].at = "commit" => captures[c].number # NextNumber
  /\ items' = [items EXCEPT ![NextNumber] = [status |-> "open", version |-> Nil, consult |-> Nil]]
  /\ UNCHANGED <<drafts, markers, captures, doubled, strayed>>

\* backlog.update sets any status (rejected is as good as realized here); the
\* version stays.
SetStatus(n, status) ==
  /\ Present(n) /\ items[n].status # status
  /\ items' = [items EXCEPT ![n].status = status]
  /\ strayed' = IF status = "included" THEN strayed \cup {n} ELSE strayed
  /\ UNCHANGED <<drafts, markers, captures, doubled>>

\* assign_to_version asks the version for its project, not for its status.
Assign(n, v) ==
  /\ Present(n) /\ drafts[v] # "absent"
  /\ items' = [items EXCEPT ![n].status = "included", ![n].version = v]
  /\ strayed' = IF drafts[v] = "released" THEN strayed \cup {n} ELSE strayed \ {n}
  /\ UNCHANGED <<drafts, markers, captures, doubled>>

\* backlog.delete: an open item only.
DeleteItem(n) ==
  /\ Present(n) /\ items[n].status = "open"
  /\ items' = [items EXCEPT ![n] = NoItem]
  /\ strayed' = strayed \ {n}
  /\ UNCHANGED <<drafts, markers, captures, doubled>>

-----------------------------------------------------------------------------
CreateDraft(v) ==
  /\ Unused(v)
  /\ drafts' = [drafts EXCEPT ![v] = "open"]
  /\ UNCHANGED <<items, markers, captures, doubled, strayed>>

\* Slip: the items of the version are left where they are.
RealizeNone(v) == items

\* realize_for_version
Realized(v) ==
  [n \in ItemNumbers |-> IF Present(n) /\ items[n].status = "included" /\ items[n].version = v
                     THEN [items[n] EXCEPT !.status = "realized"] ELSE items[n]]

\* version.release (its gate: module WorkItems)
ReleaseDraft(v) ==
  /\ drafts[v] = "open"
  /\ drafts' = [drafts EXCEPT ![v] = "released"]
  /\ items' = Realized(v)
  /\ UNCHANGED <<markers, captures, doubled, strayed>>

\* version.delete: the items lose their version, and keep their status.
DeleteDraft(v) ==
  /\ drafts[v] = "open"
  /\ drafts' = [drafts EXCEPT ![v] = "absent"]
  /\ items' = [n \in ItemNumbers |-> IF Present(n) /\ items[n].version = v
                                 THEN [items[n] EXCEPT !.version = Nil] ELSE items[n]]
  /\ strayed' = strayed \cup {n \in ItemNumbers : Present(n) /\ items[n].version = v /\ items[n].status = "included"}
  /\ doubled' = doubled \cup {m \in Consults : markers[m] = v}
  /\ markers' = [m \in Consults |-> IF markers[m] = v THEN Nil ELSE markers[m]]
  /\ UNCHANGED captures

-----------------------------------------------------------------------------
\* capture: the marker is read; one that names a version that exists is answered
\* with it.
CaptureReads(c, m, v) ==
  /\ captures[c] = NoCapture /\ markers[m] = Nil
  /\ Unused(v)
  /\ captures' = [captures EXCEPT ![c] = [at |-> "number", consult |-> m, number |-> 0, version |-> v]]
  /\ doubled' = IF Capturing(m) # {} THEN doubled \cup {m} ELSE doubled
  /\ UNCHANGED <<items, drafts, markers, strayed>>

\* The requirement is numbered ...
CaptureNumbers(c) ==
  /\ captures[c].at = "number" /\ NextNumber \in ItemNumbers
  /\ captures' = [captures EXCEPT ![c].at = "insert", ![c].number = NextNumber]
  /\ UNCHANGED <<items, drafts, markers, doubled, strayed>>

\* ... and inserted: the number is unique, so an insert waits for another one of
\* it and fails when that commits.
CaptureInserts(c) ==
  LET r == captures[c]
  IN /\ r.at = "insert"
     /\ \A d \in Captures : captures[d].at = "commit" => captures[d].number # r.number
     /\ captures' = [captures EXCEPT ![c] = IF Present(r.number) THEN NoCapture ELSE [r EXCEPT !.at = "commit"]]
     /\ UNCHANGED <<items, drafts, markers, doubled, strayed>>

\* Slip: the message is not marked.
UnmarkedFor(c) == markers

\* The marker written back over what was read.
Marked(c) == [markers EXCEPT ![captures[c].consult] = captures[c].version]

CaptureCommits(c) ==
  LET r == captures[c]
  IN /\ r.at = "commit"
     /\ items' = [items EXCEPT ![r.number] = [status |-> "included", version |-> r.version, consult |-> r.consult]]
     /\ drafts' = [drafts EXCEPT ![r.version] = "open"]
     /\ markers' = Marked(c)
     /\ captures' = [captures EXCEPT ![c] = NoCapture]
     /\ UNCHANGED <<doubled, strayed>>

CaptureIsLost(c) ==
  /\ captures[c] # NoCapture
  /\ captures' = [captures EXCEPT ![c] = NoCapture]
  /\ UNCHANGED <<items, drafts, markers, doubled, strayed>>

-----------------------------------------------------------------------------
BacklogInit ==
  /\ items = [n \in ItemNumbers |-> NoItem] /\ drafts = [v \in Versions |-> "absent"]
  /\ markers = [m \in Consults |-> Nil] /\ captures = [c \in Captures |-> NoCapture]
  /\ doubled = {} /\ strayed = {}

BacklogNext ==
  \/ Create
  \/ \E n \in ItemNumbers :
       \/ DeleteItem(n)
       \/ \E status \in {"open", "included", "realized"} : SetStatus(n, status)
       \/ \E v \in Versions : Assign(n, v)
  \/ \E v \in Versions : CreateDraft(v) \/ ReleaseDraft(v) \/ DeleteDraft(v)
  \/ \E c \in Captures :
       \/ \E m \in Consults, v \in Versions : CaptureReads(c, m, v)
       \/ CaptureNumbers(c) \/ CaptureInserts(c) \/ CaptureCommits(c) \/ CaptureIsLost(c)

BacklogSpec == BacklogInit /\ [][BacklogNext]_backlogVars

-----------------------------------------------------------------------------
\* A change request becomes one requirement (change_request.capture), unless its
\* captures ran beside each other or the version made for it was deleted.
CapturedOnce ==
  \A m \in Consults \ doubled : Cardinality({n \in ItemNumbers : Present(n) /\ items[n].consult = m}) <= 1

\* What is included waits for a release still to come, unless it was put in by a
\* plain edit or after the release, or its version was deleted.
IncludedIsAwaited ==
  \A n \in ItemNumbers \ strayed :
    Present(n) /\ items[n].status = "included" => items[n].version # Nil /\ drafts[items[n].version] = "open"

BacklogKept == CapturedOnce /\ IncludedIsAwaited
=============================================================================
