----------------------------- MODULE ContextHub -----------------------------
(***************************************************************************)
(* The Context Hub: files and URLs that the research agent can search.     *)
(* A document is a row of `contexthub_documents`; a file also has an       *)
(* object in MinIO; its text is indexed by a Celery task as rows of        *)
(* `contexthub_chunks`; the agent searches the chunks of ready documents.  *)
(*                                                                         *)
(* Three requests act on a document at the same time: the upload, the      *)
(* delete (from another tab, as soon as the row is listed) and the         *)
(* worker's ingestion.  Each step between two awaits is an action.         *)
(*                                                                         *)
(* Abstracted: titles, bytes, extracted text, vectors and ranking.  One    *)
(* run of insert_chunks is one index of the whole document, so a document  *)
(* has a number of indexes, which should be 0 or 1.  A document whose text *)
(* is empty (a scanned PDF, a page of images) has no chunks: there is      *)
(* nothing to embed and nothing to insert, and it becomes ready all the    *)
(* same.  What a source holds does not change between two deliveries.      *)
(***************************************************************************)
EXTENDS Naturals, FiniteSets

CONSTANTS
  Docs,         \* documents: the uuid of a contexthub_documents row
  Files,        \* those uploaded as files; the others are URLs
  Workers,      \* Celery worker processes
  EarlyDelete,  \* may a document be deleted before its upload has answered?
  Faults,       \* what may fail, see FaultNames
  NoDoc         \* an idle worker's document

(***************************************************************************)
(* db         a statement on Postgres raises                               *)
(* storage    a call on MinIO raises                                       *)
(* broker     ingest_contexthub_document_task.delay raises                 *)
(* duplicate  the broker delivers a task twice                             *)
(* setup      building the storage client or the HTTP client raises        *)
(* content    the source cannot be fetched, extracted or embedded          *)
(* crash      a worker dies                                                *)
(***************************************************************************)
FaultNames == {"db", "storage", "broker", "duplicate", "setup", "content", "crash"}

ASSUME ContextHubAssumption ==
  /\ Files \subseteq Docs
  /\ EarlyDelete \in BOOLEAN
  /\ Faults \subseteq FaultNames
  /\ NoDoc \notin Docs

VARIABLES
  status,   \* contexthub_documents.status, "absent" when there is no row
  keyed,    \* documents whose row has its minio_key
  objects,  \* documents whose file is in MinIO
  blank,    \* documents with a source that has no text
  indexes,  \* how often the chunks of each document are in the table
  copies,   \* deliveries of each document's task held by the broker
  upc,      \* where the upload request of each document is
  dpc,      \* where the delete request of each document is
  wdoc,     \* the document each worker ingests
  wpc       \* where in _execute_ingest each worker is

rowVars    == <<status, keyed, indexes>>
workVars   == <<wdoc, wpc>>
vars == <<status, keyed, objects, blank, indexes, copies, upc, dpc, wdoc, wpc>>

UploadPc == {"new", "put", "set_key", "send", "over"}
DeletePc == {"idle", "remove", "row"}
IngestPc == {"idle", "setup", "read", "extract", "embed", "insert", "ready", "failed"}

Exists(d) == status[d] # "absent"

TypeOK ==
  /\ status \in [Docs -> {"absent", "processing", "ready", "failed"}]
  /\ keyed \subseteq Docs
  /\ objects \subseteq Docs
  /\ blank \subseteq Docs
  /\ indexes \in [Docs -> Nat]
  /\ copies \in [Docs -> 0..2]
  /\ upc \in [Docs -> UploadPc]
  /\ dpc \in [Docs -> DeletePc]
  /\ wdoc \in [Workers -> Docs \cup {NoDoc}]
  /\ wpc \in [Workers -> IngestPc]

Init ==
  /\ status = [d \in Docs |-> "absent"]
  /\ keyed = {}
  /\ objects = {}
  /\ blank = {}
  /\ indexes = [d \in Docs |-> 0]
  /\ copies = [d \in Docs |-> 0]
  /\ upc = [d \in Docs |-> "new"]
  /\ dpc = [d \in Docs |-> "idle"]
  /\ wdoc = [w \in Workers |-> NoDoc]
  /\ wpc = [w \in Workers |-> "idle"]

\* An UPDATE of the document's row, which does nothing without one.
Mark(d, s) == status' = [status EXCEPT ![d] = IF @ = "absent" THEN @ ELSE s]

----------------------------------------------------------------------------
(* POST /contexthub/documents and /contexthub/urls.                        *)

Create(d) ==
  /\ upc[d] = "new"
  /\ status' = [status EXCEPT ![d] = "processing"]
  /\ blank' \in {blank, blank \cup {d}}
  /\ upc' = [upc EXCEPT ![d] = IF d \in Files THEN "put" ELSE "send"]
  /\ UNCHANGED <<keyed, objects, indexes, copies, dpc, workVars>>

PutFile(d) ==
  /\ upc[d] = "put"
  /\ objects' = objects \cup {d}
  /\ upc' = [upc EXCEPT ![d] = "set_key"]
  /\ UNCHANGED <<blank, rowVars, copies, dpc, workVars>>

SetKey(d) ==
  /\ upc[d] = "set_key"
  /\ keyed' = IF Exists(d) THEN keyed \cup {d} ELSE keyed
  /\ upc' = [upc EXCEPT ![d] = "send"]
  /\ UNCHANGED <<blank, status, indexes, objects, copies, dpc, workVars>>

Send(d) ==
  /\ upc[d] = "send"
  /\ \E n \in (IF "duplicate" \in Faults THEN 1..2 ELSE {1}) :
       copies' = [copies EXCEPT ![d] = n]
  /\ upc' = [upc EXCEPT ![d] = "over"]
  /\ UNCHANGED <<blank, rowVars, objects, dpc, workVars>>

\* The request answers 500; what it did so far stays.
UploadRaises(d) ==
  /\ \/ upc[d] = "put" /\ "storage" \in Faults
     \/ upc[d] = "set_key" /\ "db" \in Faults
     \/ upc[d] = "send" /\ "broker" \in Faults
  /\ upc' = [upc EXCEPT ![d] = "over"]
  /\ UNCHANGED <<blank, rowVars, objects, copies, dpc, workVars>>

----------------------------------------------------------------------------
(* DELETE /contexthub/documents/{d}: delete_document.                      *)

MayDelete(d) == upc[d] = "over" \/ EarlyDelete

\* Mutant: the delete forgets the file in MinIO.
DeleteRowOnly(d) ==
  /\ dpc[d] = "idle"
  /\ MayDelete(d)
  /\ Exists(d)
  /\ dpc' = [dpc EXCEPT ![d] = "row"]
  /\ UNCHANGED <<blank, rowVars, objects, copies, upc, workVars>>

\* get_document: the key is read here, and used one await later.
DeleteRead(d) ==
  /\ dpc[d] = "idle"
  /\ MayDelete(d)
  /\ Exists(d)
  /\ dpc' = [dpc EXCEPT ![d] = IF d \in keyed THEN "remove" ELSE "row"]
  /\ UNCHANGED <<blank, rowVars, objects, copies, upc, workVars>>

DeleteObject(d) ==
  /\ dpc[d] = "remove"
  /\ objects' = objects \ {d}
  /\ dpc' = [dpc EXCEPT ![d] = "row"]
  /\ UNCHANGED <<blank, rowVars, copies, upc, workVars>>

\* The chunks go with the row (ON DELETE CASCADE).
DeleteRow(d) ==
  /\ dpc[d] = "row"
  /\ status' = [status EXCEPT ![d] = "absent"]
  /\ keyed' = keyed \ {d}
  /\ indexes' = [indexes EXCEPT ![d] = 0]
  /\ dpc' = [dpc EXCEPT ![d] = "idle"]
  /\ UNCHANGED <<blank, objects, copies, upc, workVars>>

DeleteRaises(d) ==
  /\ \/ dpc[d] = "remove" /\ "storage" \in Faults
     \/ dpc[d] = "row" /\ "db" \in Faults
  /\ dpc' = [dpc EXCEPT ![d] = "idle"]
  /\ UNCHANGED <<blank, rowVars, objects, copies, upc, workVars>>

----------------------------------------------------------------------------
(* The worker: _execute_ingest.                                            *)

On(w, pc)   == wpc[w] = pc
Move(w, pc) == wpc' = [wpc EXCEPT ![w] = pc] /\ UNCHANGED wdoc
Stop(w)     == /\ wpc' = [wpc EXCEPT ![w] = "idle"]
               /\ wdoc' = [wdoc EXCEPT ![w] = NoDoc]

Take(w) ==
  /\ On(w, "idle")
  /\ \E d \in Docs :
       /\ copies[d] > 0
       /\ copies' = [copies EXCEPT ![d] = @ - 1]
       /\ wdoc' = [wdoc EXCEPT ![w] = d]
  /\ wpc' = [wpc EXCEPT ![w] = "setup"]
  /\ UNCHANGED <<blank, rowVars, objects, upc, dpc>>

SetUp(w) ==
  /\ On(w, "setup")
  /\ Move(w, "read")
  /\ UNCHANGED <<blank, rowVars, objects, copies, upc, dpc>>

\* The storage and HTTP clients are built outside the `try`.
SetupRaises(w) ==
  /\ On(w, "setup")
  /\ "setup" \in Faults
  /\ Stop(w)
  /\ UNCHANGED <<blank, rowVars, objects, copies, upc, dpc>>

\* get_document and its assertions: a row, and a key when it is a file.
ReadDocument(w) ==
  /\ On(w, "read")
  /\ Move(w, IF Exists(wdoc[w]) /\ (wdoc[w] \in Files => wdoc[w] \in keyed)
             THEN "extract" ELSE "failed")
  /\ UNCHANGED <<blank, rowVars, objects, copies, upc, dpc>>

\* The file or the page is fetched, and its text extracted and chunked; a
\* text without any chunk goes on without a request or a statement.
Extract(w) ==
  /\ On(w, "extract")
  /\ Move(w, IF wdoc[w] \in Files \ objects THEN "failed"
             ELSE IF wdoc[w] \in blank THEN "ready"
             ELSE "embed")
  /\ UNCHANGED <<blank, rowVars, objects, copies, upc, dpc>>

\* The embeddings of the chunks.
Embed(w) ==
  /\ On(w, "embed")
  /\ Move(w, "insert")
  /\ UNCHANGED <<blank, rowVars, objects, copies, upc, dpc>>

\* Mutant: insert_chunks is retried although it may have committed.
InsertRetried(w) ==
  /\ On(w, "insert")
  /\ Exists(wdoc[w])
  /\ indexes' = [indexes EXCEPT ![wdoc[w]] = @ + 1]
  /\ Move(w, "ready") \/ Move(w, "insert")
  /\ UNCHANGED <<blank, status, keyed, objects, copies, upc, dpc>>

\* insert_chunks: one transaction, whose foreign key needs the row.
InsertChunks(w) ==
  /\ On(w, "insert")
  /\ IF Exists(wdoc[w])
     THEN /\ indexes' = [indexes EXCEPT ![wdoc[w]] = @ + 1]
          /\ Move(w, "ready")
     ELSE /\ Move(w, "failed")
          /\ UNCHANGED indexes
  /\ UNCHANGED <<blank, status, keyed, objects, copies, upc, dpc>>

MarkReady(w) ==
  /\ On(w, "ready")
  /\ Mark(wdoc[w], "ready")
  /\ Stop(w)
  /\ UNCHANGED <<blank, keyed, indexes, objects, copies, upc, dpc>>

\* What can raise at each point of the `try`.
IngestFaultsAt(pc) ==
  CASE pc \in {"read", "insert", "ready"} -> {"db"}
    [] pc = "extract"                     -> {"content", "storage"}
    [] pc = "embed"                       -> {"content"}
    [] OTHER                              -> {}

\* Mutant: what cannot be extracted or embedded is skipped.
FailureSkipped(w) ==
  /\ IngestFaultsAt(wpc[w]) \cap Faults # {}
  /\ Move(w, "ready")
  /\ UNCHANGED <<blank, rowVars, objects, copies, upc, dpc>>

IngestRaises(w) ==
  /\ IngestFaultsAt(wpc[w]) \cap Faults # {}
  /\ Move(w, "failed")
  /\ UNCHANGED <<blank, rowVars, objects, copies, upc, dpc>>

\* Mutant: the exception is logged and the row is left alone.
FailureNotMarked(w) ==
  /\ On(w, "failed")
  /\ Stop(w)
  /\ UNCHANGED <<blank, rowVars, objects, copies, upc, dpc>>

MarkFailed(w) ==
  /\ On(w, "failed")
  /\ \/ Mark(wdoc[w], "failed")
     \/ "db" \in Faults /\ UNCHANGED status
  /\ Stop(w)
  /\ UNCHANGED <<blank, keyed, indexes, objects, copies, upc, dpc>>

WorkerCrash(w) ==
  /\ ~On(w, "idle")
  /\ "crash" \in Faults
  /\ Stop(w)
  /\ UNCHANGED <<blank, rowVars, objects, copies, upc, dpc>>

----------------------------------------------------------------------------
\* search_chunks: the chunks of the ready documents.
Found == {d \in Docs : status[d] = "ready" /\ indexes[d] > 0}

UploadStep(d) == PutFile(d) \/ SetKey(d) \/ Send(d) \/ UploadRaises(d)

DeleteStep(d) == DeleteObject(d) \/ DeleteRow(d) \/ DeleteRaises(d)

IngestStep(w) ==
  \/ Take(w) \/ SetUp(w) \/ SetupRaises(w) \/ ReadDocument(w) \/ Extract(w)
  \/ Embed(w) \/ InsertChunks(w) \/ MarkReady(w) \/ IngestRaises(w) \/ MarkFailed(w)

Next ==
  \/ \E d \in Docs : Create(d) \/ UploadStep(d) \/ DeleteRead(d) \/ DeleteStep(d)
  \/ \E w \in Workers : IngestStep(w) \/ WorkerCrash(w)

Spec == Init /\ [][Next]_vars

\* Requests and workers keep running; nobody has to upload or delete.
FairSpec ==
  /\ Spec
  /\ \A d \in Docs : WF_vars(UploadStep(d)) /\ WF_vars(DeleteStep(d))
  /\ \A w \in Workers : WF_vars(IngestStep(w))

----------------------------------------------------------------------------
(* Properties.                                                             *)

\* A document shown as ready is found by a search unless it has no text:
\* "ready" is never written before the chunks of the document are
\* committed, also when deliveries, deletes and failures interleave.
ReadyIsIndexed ==
  \A d \in Docs : status[d] = "ready" => (d \in Found <=> d \notin blank)

\* No chunk outlives its document.
NoOrphanChunks == \A d \in Docs : indexes[d] > 0 => Exists(d)

\* Without a second delivery, an excerpt is found once.
IndexedOnce == \A d \in Docs : indexes[d] <= 1

\* A file in MinIO always has a row that names it, so that a delete will
\* find it, except while its own upload is still storing it.
NoOrphanObject ==
  \A d \in objects : (Exists(d) /\ d \in keyed) \/ upc[d] = "set_key"

\* A document shown as "Processing..." has somebody working on it.
ProcessingHasOwner ==
  \A d \in Docs : status[d] = "processing" =>
    \/ upc[d] \in {"put", "set_key", "send"}
    \/ copies[d] > 0
    \/ \E w \in Workers : wdoc[w] = d

\* An upload that was accepted is ready or failed in the end, or deleted.
ProcessingEnds ==
  \A d \in Docs : status[d] = "processing" ~> status[d] # "processing"
=============================================================================
