------------------------------ MODULE Uploads ------------------------------
(***************************************************************************)
(* Storage, the events it raises and the ingestion jobs they start:        *)
(* scripts/bulk_upload.py and the links of routes/upload.py write blobs,   *)
(* pipelines/jobs/blob_event_handler.py submits a job per event, and the   *)
(* job of Ingestion reads what is under its prefix when it gets to it.     *)
(*                                                                         *)
(* A name may be written again, with other content, while the jobs of its  *)
(* earlier contents are still to start or at work; an event is delivered   *)
(* late, out of order or twice (external: the storage's event service),    *)
(* and again when the handler raises.                                      *)
(***************************************************************************)
EXTENDS Ingestion

CONSTANTS Name,       \* the names blobs are written under
          ContentsOf, \* ContentsOf[n]: the documents ever written under n
          Under,      \* Under[n]: the names that begin with n, a blob's path
          Nothing,    \* what is under a name never written
          Unsent,     \* the prefix of a job not submitted
          MaxUploads  \* bound: the uploads

ASSUME StorageAssumption ==
    /\ ContentsOf \in [Name -> SUBSET Doc] /\ Nothing \notin Doc
    /\ Under \in [Name -> SUBSET Name] /\ \A n \in Name : n \in Under[n]
    /\ Unsent \notin Name
    /\ SUBSET Doc \subseteq Scopes
    /\ MaxUploads \in Nat

VARIABLES content, \* content[n]: the document under n
          events,  \* events[n]: events of n still to be delivered
          prefix,  \* prefix[j]: the --prefix job j was submitted with
          uploads  \* uploads so far

storage == <<content, events, prefix, uploads>>

UploadsInit ==
    /\ Init
    /\ content = [n \in Name |-> Nothing]
    /\ events  = [n \in Name |-> 0]
    /\ prefix  = [j \in Job |-> Unsent]
    /\ uploads = 0

\* upload_blob(overwrite=True), or a client's PUT to its link: the content is
\* replaced and storage raises an event.
Upload(n, d) ==
    /\ uploads < MaxUploads
    /\ content' = [content EXCEPT ![n] = d]
    /\ events'  = [events EXCEPT ![n] = @ + 1]
    /\ uploads' = uploads + 1
    /\ UNCHANGED <<prefix, vars>>

\* An event of n reaches the handler.  It is gone unless it comes twice, or the
\* handler raises after it has submitted.
Delivered(n) ==
    /\ events[n] > 0
    /\ \/ events' = [events EXCEPT ![n] = @ - 1]
       \/ UNCHANGED events

SubmitJob(n, j) ==
    /\ prefix[j] = Unsent
    /\ prefix' = [prefix EXCEPT ![j] = n]

\* Slip: no job is submitted while one for the path is at work.
HandleUnlessAtWork(n, j) ==
    /\ Delivered(n)
    /\ IF \E i \in Job :
             prefix[i] = n /\ stage[i] \in {"idle", "graph", "vectors"}
       THEN UNCHANGED prefix
       ELSE SubmitJob(n, j)
    /\ UNCHANGED <<content, uploads, vars>>

\* One job for the path the event names.
HandleBlobEvent(n, j) ==
    /\ Delivered(n)
    /\ SubmitJob(n, j)
    /\ UNCHANGED <<content, uploads, vars>>

\* What is under the prefix of job j.
Covered(j) == { content[n] : n \in Under[prefix[j]] } \ {Nothing}

\* The submitted job runs main(): it reads, and then does the work.
Run(j) ==
    /\ prefix[j] # Unsent
    /\ \/ ReadDocuments(j, Covered(j))
       \/ Extraction(j) \/ Work(j) \/ Loss(j) \/ Fail(j)
    /\ UNCHANGED storage

UploadsNext ==
    \/ \E n \in Name : \E d \in ContentsOf[n] : Upload(n, d)
    \/ \E n \in Name, j \in Job : HandleBlobEvent(n, j)
    \/ \E j \in Job : Run(j)

UploadsSpec == UploadsInit /\ [][UploadsNext]_<<vars, storage>>
-----------------------------------------------------------------------------
Searchable(d) == \A r \in RowsOf[d] : \E p \in points : p.id = TextOf[r]

\* Job j, submitted for a path n begins with, is to read n or has failed to.
ToRead(j, n) ==
    /\ prefix[j] # Unsent /\ n \in Under[prefix[j]]
    /\ stage[j] \in {"idle", "failed"} /\ rows[j] = {}

\* Job j has read document d and has not finished, if it has not failed.
HasRead(j, d) == RowsOf[d] \subseteq rows[j] /\ stage[j] # "complete"

\* "Storage raises an event on upload, and this submits a job covering only
\* what arrived": whatever is written over what, however late and however often
\* events come, and in whatever order the jobs of several contents of a name
\* finish, what is in storage is searchable, unless an event or a job that may
\* still make it so is there, or such a job has failed.
CurrentIsSearchable ==
    \A n \in Name : content[n] # Nothing =>
        \/ Searchable(content[n])
        \/ events[n] > 0
        \/ \E j \in Job : ToRead(j, n) \/ HasRead(j, content[n])
=============================================================================
