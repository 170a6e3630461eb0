------------------------------ MODULE Knowledge ------------------------------
(***************************************************************************)
(* The knowledge base: markdown documents on disk, and the vector index    *)
(* that is to hold the chunks of what the disk holds.  Nothing ties the    *)
(* two together but the order of the calls: a save writes the file,        *)
(* deletes the document's chunks, awaits the embeddings of the new ones    *)
(* and upserts them; a delete removes chunks, then the file; the deletion  *)
(* of a project removes its folder, then the chunks it has found; and a    *)
(* script indexes files from a process of its own.                         *)
(*                                                                         *)
(* The routes of the documents run in the event loop and give it up only   *)
(* at the embeddings; the deletion of a project runs in a thread.  Left    *)
(* out: tenants, the rights of the user, the cut of a text into chunks (a  *)
(* text stands for all of its chunks), and texts with nothing in them.     *)
(***************************************************************************)
EXTENDS FiniteSets

CONSTANTS
  Documents,     \* paths in the knowledge base
  ProjectsOwn,   \* those under the folder of the project
  Texts,         \* contents
  Requests       \* identities of concurrent requests

VARIABLES
  disk,      \* the text of each document, or NoText
  index,     \* the texts whose chunks the index holds for each
  req,       \* what each request is doing
  stale    \* documents that an overlap, a failure or a restart has left to
             \* the next request

knowledgeVars == <<disk, index, req, stale>>

NoText    == "none"
NoRequest == [kind |-> "none", docs |-> {}]
Chunks    == Documents \X Texts
Record    == [kind : {"save", "delete", "script", "project"}, at : {"drop", "embed", "unlink", "scroll", "remove"},
              docs : SUBSET Documents, text : Texts \cup {NoText}, found : SUBSET Chunks, good : BOOLEAN, alone : BOOLEAN]

\* A request of the event loop is between two awaits: no other one moves.
LoopFree == \A r \in Requests : req[r].kind \in {"save", "delete"} => req[r].at = "embed"

Arrive(r, kind, at, docs, text, good) ==
  LET met == {q \in Requests : req[q].docs \cap docs # {}}
  IN  /\ req[r] = NoRequest
      /\ req' = [q \in Requests |->
                   IF q = r THEN [kind |-> kind, at |-> at, docs |-> docs, text |-> text, found |-> {},
                                  good |-> good, alone |-> met = {}]
                   ELSE IF q \in met THEN [req[q] EXCEPT !.alone = FALSE] ELSE req[q]]

\* The request is over.  Only one that met no other and no failure answers for its
\* documents.
End(r, good) ==
  /\ req' = [req EXCEPT ![r] = NoRequest]
  /\ stale' = IF good /\ req[r].alone THEN stale \ req[r].docs ELSE stale \cup req[r].docs

Is(r, kinds, at) == req[r].kind \in kinds /\ req[r].at = at

-----------------------------------------------------------------------------
(* Saving a document *)

\* save_document, or update_document of one that is there.
Save(r, d, t) ==
  /\ LoopFree /\ Arrive(r, "save", "drop", {d}, t, TRUE)
  /\ disk' = [disk EXCEPT ![d] = t] /\ UNCHANGED <<index, stale>>

\* rag_index: the file is read.
ScriptReads(r, d) ==
  /\ disk[d] # NoText /\ Arrive(r, "script", "drop", {d}, disk[d], TRUE)
  /\ UNCHANGED <<disk, index, stale>>

\* Slip: the old chunks stay.
KeepOld(r) ==
  /\ Is(r, {"save", "script"}, "drop") /\ req' = [req EXCEPT ![r].at = "embed"]
  /\ UNCHANGED <<disk, index, stale>>

\* index_document deletes what the index has of the document, ...
DropOld(r) ==
  /\ Is(r, {"save", "script"}, "drop") /\ req' = [req EXCEPT ![r].at = "embed"]
  /\ index' = [d \in Documents |-> IF d \in req[r].docs THEN {} ELSE index[d]]
  /\ UNCHANGED <<disk, stale>>

\* ... and, the embeddings at hand, upserts the chunks, under new ids.
Upsert(r) ==
  /\ Is(r, {"save", "script"}, "embed") /\ (req[r].kind = "save" => LoopFree)
  /\ index' = [d \in Documents |-> index[d] \cup (IF d \in req[r].docs THEN {req[r].text} ELSE {})]
  /\ End(r, TRUE) /\ UNCHANGED disk

\* Qdrant or the embedding fails: the answer carries a warning.
SaveFails(r) ==
  /\ req[r].kind \in {"save", "script"} /\ (Is(r, {"save"}, "embed") => LoopFree)
  /\ End(r, FALSE) /\ UNCHANGED <<disk, index>>

-----------------------------------------------------------------------------
(* Deleting *)

\* delete_document: the chunks first, whether or not Qdrant answers, ...
Delete(r, d, answers) ==
  /\ LoopFree /\ (disk[d] # NoText \/ index[d] # {})
  /\ Arrive(r, "delete", "unlink", {d}, NoText, answers)
  /\ index' = IF answers THEN [index EXCEPT ![d] = {}] ELSE index
  /\ UNCHANGED <<disk, stale>>

\* ... then the file.
Unlink(r) ==
  /\ Is(r, {"delete"}, "unlink")
  /\ disk' = [d \in Documents |-> IF d \in req[r].docs THEN NoText ELSE disk[d]]
  /\ End(r, req[r].good) /\ UNCHANGED index

\* rag_index --delete takes a document out of the index and leaves the file.
ScriptDeletes(d) ==
  /\ disk[d] # NoText /\ index' = [index EXCEPT ![d] = {}] /\ stale' = stale \cup {d}
  /\ UNCHANGED <<disk, req>>

\* delete_project: its folder goes, unless rmtree fails, ...
FolderGone(r, removed) ==
  /\ Arrive(r, "project", "scroll", ProjectsOwn, NoText, removed)
  /\ disk' = [d \in Documents |-> IF removed /\ d \in ProjectsOwn THEN NoText ELSE disk[d]]
  /\ UNCHANGED <<index, stale>>

\* ... delete_project_documents looks up the chunks under its path, ...
Scroll(r) ==
  /\ Is(r, {"project"}, "scroll")
  /\ req' = [req EXCEPT ![r].at = "remove",
                        ![r].found = {c \in Chunks : c[1] \in ProjectsOwn /\ c[2] \in index[c[1]]}]
  /\ UNCHANGED <<disk, index, stale>>

\* ... and deletes the ones it has found.
Remove(r) ==
  /\ Is(r, {"project"}, "remove")
  /\ index' = [d \in Documents |-> {t \in index[d] : <<d, t>> \notin req[r].found}]
  /\ End(r, req[r].good) /\ UNCHANGED disk

ProjectFails(r) ==
  /\ req[r].kind = "project" /\ End(r, FALSE) /\ UNCHANGED <<disk, index>>

\* The process restarts; the script is none of its.
Restart ==
  LET lost == {r \in Requests : req[r].kind \in {"save", "delete", "project"}}
  IN  /\ lost # {}
      /\ req' = [r \in Requests |-> IF r \in lost THEN NoRequest ELSE req[r]]
      /\ stale' = stale \cup UNION {req[r].docs : r \in lost}
      /\ UNCHANGED <<disk, index>>

-----------------------------------------------------------------------------

KnowledgeInit ==
  /\ disk = [d \in Documents |-> NoText] /\ index = [d \in Documents |-> {}]
  /\ req = [r \in Requests |-> NoRequest] /\ stale = {}

KnowledgeNext ==
  \/ \E r \in Requests :
       \/ DropOld(r) \/ Upsert(r) \/ SaveFails(r) \/ Unlink(r) \/ Scroll(r) \/ Remove(r)
       \/ ProjectFails(r) \/ (\E removed \in BOOLEAN : FolderGone(r, removed))
       \/ \E d \in Documents :
            ScriptReads(r, d) \/ (\E t \in Texts : Save(r, d, t)) \/ (\E answers \in BOOLEAN : Delete(r, d, answers))
  \/ (\E d \in Documents : ScriptDeletes(d)) \/ Restart

KnowledgeSpec == KnowledgeInit /\ [][KnowledgeNext]_knowledgeVars

-----------------------------------------------------------------------------
(* Properties *)

KnowledgeTypeOK ==
  /\ disk \in [Documents -> Texts \cup {NoText}] /\ index \in [Documents -> SUBSET Texts]
  /\ req \in [Requests -> Record \cup {NoRequest}] /\ stale \subseteq Documents

\* A document no request is at work on has in the index the chunks of the text on
\* disk and no other, unless the last request at it met another one, a failure or
\* a restart; and one undisturbed save, run of the script, delete or deletion of
\* the project repairs whatever such requests have left, chunks and file.
IndexIsDisk ==
  \A d \in Documents \ stale :
    (\A r \in Requests : d \notin req[r].docs) =>
      index[d] = {disk[d]} \ {NoText}
=============================================================================
