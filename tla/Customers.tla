------------------------------ MODULE Customers ------------------------------
(***************************************************************************)
(* The customers of one project and their secrets: the row in the          *)
(* database, and the file of the credentials store its credential points   *)
(* to.  The file is named after the slug the customer had when the secret  *)
(* was first stored, and it is written, or unlinked, before the row is     *)
(* committed.                                                              *)
(*                                                                         *)
(* A request runs in a thread of its own.  The credential row between the  *)
(* customer and the file is left out: a customer points to the file.       *)
(***************************************************************************)
EXTENDS Naturals

CONSTANTS
  Ids,        \* customers
  Slugs,      \* slugs, which name files too
  Passwords,  \* contents of a secret
  Handlers    \* slots for requests under way

NoCustomer == [slug |-> "none"]
NoFile     == "none"
NoWork     == [at |-> "none"]

VARIABLES
  customers,  \* rows: slug, the file pointed to, the secret last accepted
  files,      \* contents of the credentials store
  requests,   \* requests that have read and not yet committed
  shaken      \* files that met one of the causes SecretIsOwn names

customerVars == <<customers, files, requests, shaken>>

-----------------------------------------------------------------------------
Known(i)    == customers[i] # NoCustomer
BySlug(s)   == {i \in Ids : Known(i) /\ customers[i].slug = s}
Pointing(f) == {i \in Ids : Known(i) /\ customers[i].file = f}
InUse(f)    == \E q \in Handlers : requests[q] # NoWork /\ requests[q].file = f

\* Ids are never given out twice: a row is not made under one a request still holds.
Fresh(i) == ~Known(i) /\ \A q \in Handlers : requests[q] # NoWork => requests[q].id # i

\* A request begins that will touch a file; beside another one on it, the order
\* of their writes and commits is anybody's.
Begins(q, request) ==
  /\ requests[q] = NoWork
  /\ requests' = [requests EXCEPT ![q] = request]
  /\ shaken' = IF InUse(request.file) THEN shaken \cup {request.file} ELSE shaken
  /\ UNCHANGED <<customers, files>>

\* Slip: an existing file is overwritten.
FreeAlways(f) == TRUE

\* credentials.create refuses a file that exists.
Free(f) == files[f] = NoFile

\* create with a secret, up to its file.
CreateStored(q, i, s, x) ==
  /\ Fresh(i) /\ BySlug(s) = {} /\ Free(s)
  /\ Begins(q, [at |-> "write", id |-> i, into |-> "new row", file |-> s, secret |-> x])

\* create without one
CreatePlain(i, s) ==
  /\ Fresh(i) /\ BySlug(s) = {}
  /\ customers' = [customers EXCEPT ![i] = [slug |-> s, file |-> NoFile, accepted |-> NoFile]]
  /\ UNCHANGED <<files, requests, shaken>>

\* update of the slug: the file keeps its name.
RenameCustomer(i, s) ==
  /\ Known(i) /\ BySlug(s) = {}
  /\ customers' = [customers EXCEPT ![i].slug = s]
  /\ UNCHANGED <<files, requests, shaken>>

\* update of the secret: into the customer's own file, or into a new one named
\* after its slug of now.
SetSecret(q, i, x) ==
  LET c == customers[i] IN
  /\ Known(i)
  /\ c.file = NoFile => Free(c.slug)
  /\ Begins(q, [at |-> "write", id |-> i, secret |-> x,
                into |-> IF c.file = NoFile THEN "new file" ELSE "own file",
                file |-> IF c.file = NoFile THEN c.slug ELSE c.file])

\* delete of a customer that has a secret: the file is unlinked on the way.
DeleteStored(q, i) ==
  /\ Known(i) /\ customers[i].file # NoFile
  /\ Begins(q, [at |-> "unlink", id |-> i, into |-> "own file",
                file |-> customers[i].file, secret |-> NoFile])

DeletePlain(i) ==
  /\ Known(i) /\ customers[i].file = NoFile
  /\ customers' = [customers EXCEPT ![i] = NoCustomer]
  /\ UNCHANGED <<files, requests, shaken>>

\* The credential is deleted through its own API, whatever request is on its
\* file: ON DELETE SET NULL.
CredentialDeleted(f) ==
  /\ Pointing(f) # {}
  /\ files' = [files EXCEPT ![f] = NoFile]
  /\ customers' = [i \in Ids |->
       IF i \in Pointing(f) THEN [customers[i] EXCEPT !.file = NoFile, !.accepted = NoFile]
       ELSE customers[i]]
  /\ shaken' = IF InUse(f) THEN shaken \cup {f} ELSE shaken
  /\ UNCHANGED requests

FileWritten(q) ==
  LET r == requests[q] IN
  /\ r.at = "write"
  /\ files' = [files EXCEPT ![r.file] = r.secret]
  /\ requests' = [requests EXCEPT ![q].at = "commit"]
  /\ UNCHANGED <<customers, shaken>>

FileUnlinked(q) ==
  LET r == requests[q] IN
  /\ r.at = "unlink"
  /\ files' = [files EXCEPT ![r.file] = NoFile]
  /\ requests' = [requests EXCEPT ![q].at = "gone"]
  /\ UNCHANGED <<customers, shaken>>

\* The commit.  A clash of slugs, or a row that is gone, leaves the file behind.  A
\* request that wrote into the customer's own file does not touch the row, which
\* may point elsewhere by now, or nowhere.
Commits(q) ==
  LET r     == requests[q]
      c     == customers[r.id]
      lost  == IF r.into = "new row" THEN BySlug(r.file) # {} ELSE ~Known(r.id)
      moved == r.into = "own file" /\ c.file # r.file
      row   == CASE r.into = "new row"  -> [slug |-> r.file, file |-> r.file, accepted |-> r.secret]
                 [] r.into = "new file" -> [c EXCEPT !.file = r.file, !.accepted = r.secret]
                 [] r.into = "own file" -> [c EXCEPT !.accepted = r.secret]
  IN
  /\ r.at = "commit" /\ requests' = [requests EXCEPT ![q] = NoWork]
  /\ customers' = IF lost THEN customers ELSE [customers EXCEPT ![r.id] = row]
  /\ shaken' = IF lost THEN shaken \cup {r.file}
               ELSE IF moved THEN shaken \cup ({r.file, c.file} \ {NoFile}) ELSE shaken
  /\ UNCHANGED files

DeleteCommits(q) ==
  /\ requests[q].at = "gone" /\ requests' = [requests EXCEPT ![q] = NoWork]
  /\ customers' = [customers EXCEPT ![requests[q].id] = NoCustomer]
  /\ UNCHANGED <<files, shaken>>

\* The request fails, or dies with its process: what it did to the file stays.
Dies(q) ==
  /\ requests[q] # NoWork /\ requests' = [requests EXCEPT ![q] = NoWork]
  /\ shaken' = IF requests[q].at \in {"commit", "gone"}
               THEN shaken \cup {requests[q].file} ELSE shaken
  /\ UNCHANGED <<customers, files>>

CustomersInit ==
  /\ customers = [i \in Ids |-> NoCustomer] /\ files = [f \in Slugs |-> NoFile]
  /\ requests = [q \in Handlers |-> NoWork] /\ shaken = {}

CustomersNext ==
  \/ \E q \in Handlers, i \in Ids, x \in Passwords :
       SetSecret(q, i, x) \/ \E s \in Slugs : CreateStored(q, i, s, x)
  \/ \E q \in Handlers, i \in Ids : DeleteStored(q, i)
  \/ \E i \in Ids, s \in Slugs : CreatePlain(i, s) \/ RenameCustomer(i, s)
  \/ \E i \in Ids : DeletePlain(i)
  \/ \E f \in Slugs : CredentialDeleted(f)
  \/ \E q \in Handlers :
       FileWritten(q) \/ FileUnlinked(q) \/ Commits(q) \/ DeleteCommits(q) \/ Dies(q)

CustomersSpec == CustomersInit /\ [][CustomersNext]_customerVars

-----------------------------------------------------------------------------
(* Properties *)

\* The administrator password a deployment reads for a customer is the one last
\* accepted for this customer, and no other customer shares its file, over
\* renames, reuse of slugs, refused requests and deletions.  Excepted, for nothing
\* repairs them, are files two requests worked on at once, the credentials' own API
\* included, files whose request did not come through after it had touched them,
\* and those of a customer who was given another file while a request wrote into
\* the old one.
SecretIsOwn ==
  \A i \in Ids : LET f == IF Known(i) THEN customers[i].file ELSE NoFile IN
    f # NoFile /\ f \notin shaken /\ ~InUse(f) =>
      files[f] = customers[i].accepted /\ Pointing(f) = {i}
=============================================================================
