-------------------------- MODULE ContextHubProofs --------------------------
(***************************************************************************)
(* Proofs about the Context Hub, for every number of documents and         *)
(* workers:                                                                *)
(*   - a document that is ready is found, unless it has no text, under all *)
(*     faults: second deliveries, deletes at any moment, failing           *)
(*     statements and dying workers;                                       *)
(*   - a file keeps a row that names it (UploadsAreAlone), a processing    *)
(*     document has an owner (WorkGoesOn), an excerpt is found once        *)
(*     (DeliveredOnce): each under the weakest faults it survives.         *)
(***************************************************************************)
EXTENDS ContextHub, TLAPS

BusyWorkerHasDoc ==
  \A w \in Workers : wpc[w] # "idle" => wdoc[w] \in Docs

\* A document nobody has uploaded yet has left no trace in the worker.
NewIsUnknown ==
  \A d \in Docs : upc[d] = "new" =>
    /\ copies[d] = 0 /\ indexes[d] = 0
    /\ \A w \in Workers : wdoc[w] = d => wpc[w] = "idle"

\* A worker about to write "ready" has its chunks in the table, or has none,
\* or a delete took them away together with the row.
AboutToMark ==
  \A w \in Workers : wpc[w] = "ready" =>
    indexes[wdoc[w]] > 0 \/ ~Exists(wdoc[w]) \/ wdoc[w] \in blank

\* Nothing is indexed of a document without text.
BlankHasNone ==
  /\ \A d \in blank : indexes[d] = 0
  /\ \A w \in Workers : wpc[w] \in {"embed", "insert"} => wdoc[w] \notin blank

IInv == /\ TypeOK /\ BusyWorkerHasDoc /\ NewIsUnknown /\ BlankHasNone
        /\ AboutToMark /\ ReadyIsIndexed /\ NoOrphanChunks

LEMMA InitIInv == Init => IInv
BY ContextHubAssumption DEF Init, IInv, TypeOK, BusyWorkerHasDoc, NewIsUnknown,
   AboutToMark, BlankHasNone, ReadyIsIndexed, Found, NoOrphanChunks, UploadPc, DeletePc, IngestPc

\* A step of an upload or a delete request.
LEMMA RequestStepIInv ==
  ASSUME IInv, NEW d \in Docs,
         Create(d) \/ UploadStep(d) \/ DeleteRead(d) \/ DeleteStep(d)
  PROVE  IInv'
<1> USE ContextHubAssumption
<1> USE DEF IInv, TypeOK, BusyWorkerHasDoc, NewIsUnknown, AboutToMark, BlankHasNone,
            ReadyIsIndexed, Found, NoOrphanChunks, Exists, rowVars, workVars
<1>1. CASE Create(d)
  BY <1>1 DEF Create, UploadPc
<1>2. CASE PutFile(d)
  BY <1>2 DEF PutFile, UploadPc
<1>3. CASE SetKey(d)
  BY <1>3 DEF SetKey, UploadPc
<1>4. CASE Send(d)
  <2>1. PICK n \in (IF "duplicate" \in Faults THEN 1..2 ELSE {1}) :
          copies' = [copies EXCEPT ![d] = n]
    BY <1>4 DEF Send
  <2>2. n \in 0..2
    BY <2>1
  <2>3. QED BY <1>4, <2>1, <2>2 DEF Send, UploadPc
<1>5. CASE UploadRaises(d)
  BY <1>5 DEF UploadRaises, UploadPc
<1>6. CASE DeleteRead(d)
  BY <1>6 DEF DeleteRead, DeletePc
<1>7. CASE DeleteObject(d)
  BY <1>7 DEF DeleteObject, DeletePc
<1>8. CASE DeleteRow(d)
  BY <1>8 DEF DeleteRow, DeletePc
<1>9. CASE DeleteRaises(d)
  BY <1>9 DEF DeleteRaises, DeletePc
<1>10. QED
  BY <1>1, <1>2, <1>3, <1>4, <1>5, <1>6, <1>7, <1>8, <1>9 DEF UploadStep, DeleteStep

\* A step of a worker.
LEMMA WorkerStepIInv ==
  ASSUME IInv, NEW w \in Workers, IngestStep(w) \/ WorkerCrash(w)
  PROVE  IInv'
<1> USE ContextHubAssumption
<1> USE DEF IInv, TypeOK, BusyWorkerHasDoc, NewIsUnknown, AboutToMark, BlankHasNone,
            ReadyIsIndexed, Found, NoOrphanChunks, Exists, rowVars, workVars,
            On, Move, Stop, IngestPc
<1>1. CASE Take(w)
  <2>1. PICK d \in Docs : /\ copies[d] > 0
                          /\ copies' = [copies EXCEPT ![d] = @ - 1]
                          /\ wdoc' = [wdoc EXCEPT ![w] = d]
    BY <1>1 DEF Take
  <2>2. QED BY <1>1, <2>1 DEF Take
<1>2. CASE SetUp(w)
  BY <1>2 DEF SetUp
<1>3. CASE SetupRaises(w)
  BY <1>3 DEF SetupRaises
<1>4. CASE ReadDocument(w)
  BY <1>4 DEF ReadDocument
<1>5. CASE Extract(w)
  BY <1>5 DEF Extract
<1>6. CASE InsertChunks(w)
  BY <1>6 DEF InsertChunks
<1>7. CASE MarkReady(w)
  BY <1>7 DEF MarkReady, Mark
<1>8. CASE IngestRaises(w)
  <2>1. wpc[w] # "idle"
    BY <1>8 DEF IngestRaises, IngestFaultsAt
  <2>2. QED BY <1>8, <2>1 DEF IngestRaises
<1>9. CASE MarkFailed(w)
  BY <1>9 DEF MarkFailed, Mark
<1>10. CASE WorkerCrash(w)
  BY <1>10 DEF WorkerCrash
<1>11. CASE Embed(w)
  BY <1>11 DEF Embed
<1>12. QED
  BY <1>1, <1>2, <1>3, <1>4, <1>5, <1>6, <1>7, <1>8, <1>9, <1>10, <1>11 DEF IngestStep

LEMMA NextIInv == IInv /\ [Next]_vars => IInv'
<1>1. CASE UNCHANGED vars
  BY <1>1 DEF vars, IInv, TypeOK, BusyWorkerHasDoc, NewIsUnknown, AboutToMark, BlankHasNone,
     ReadyIsIndexed, Found, NoOrphanChunks, Exists
<1>2. CASE Next
  BY <1>2, RequestStepIInv, WorkerStepIInv DEF Next
<1>3. QED BY <1>1, <1>2

LEMMA InvariantHolds == Spec => []IInv
BY InitIInv, NextIInv, PTL DEF Spec

\* Whatever fails and however uploads, deletes and deliveries interleave,
\* search_chunks misses a document that is shown as ready exactly if it has
\* no text, and no chunk outlives its document.
THEOREM SearchIsSound == Spec => [](ReadyIsIndexed /\ NoOrphanChunks)
<1>1. IInv => ReadyIsIndexed /\ NoOrphanChunks
  BY DEF IInv
<1>2. QED BY <1>1, InvariantHolds, PTL

----------------------------------------------------------------------------
(* A file keeps its row, when Postgres does not fail and nobody deletes a  *)
(* document whose upload has not answered.                                 *)

UploadsAreAlone == ~EarlyDelete /\ "db" \notin Faults

\* An upload runs before any delete; a delete that is about to remove the
\* row has removed the file.
FilesFollowRows ==
  \A d \in Docs :
    /\ upc[d] = "new" => d \notin objects
    /\ upc[d] # "over" => dpc[d] = "idle"
    /\ upc[d] \notin {"new", "over"} => Exists(d)
    /\ dpc[d] = "row" => d \notin objects

FInv == FilesFollowRows /\ NoOrphanObject

LEMMA InitFInv == Init => FInv
BY DEF Init, FInv, FilesFollowRows, NoOrphanObject

LEMMA NextFInv ==
  ASSUME UploadsAreAlone, IInv, FInv, [Next]_vars
  PROVE  FInv'
<1> USE DEF UploadsAreAlone, FInv, FilesFollowRows, NoOrphanObject, Exists, rowVars, workVars
<1>0. /\ objects \subseteq Docs /\ DOMAIN status = Docs /\ DOMAIN upc = Docs /\ DOMAIN dpc = Docs
      /\ status \in [Docs -> {"absent", "processing", "ready", "failed"}]
  BY DEF IInv, TypeOK
<1>1. ASSUME NEW d \in Docs, Create(d) \/ UploadStep(d)
      PROVE  FInv'
  <2>1. CASE Create(d)
    BY <1>0, <2>1 DEF Create
  <2>2. CASE PutFile(d)
    BY <1>0, <2>2 DEF PutFile
  <2>3. CASE SetKey(d)
    BY <1>0, <2>3 DEF SetKey
  <2>4. CASE Send(d)
    BY <1>0, <2>4 DEF Send
  <2>5. CASE UploadRaises(d)
    BY <1>0, <2>5 DEF UploadRaises
  <2>6. QED
    BY <1>1, <2>1, <2>2, <2>3, <2>4, <2>5 DEF UploadStep
<1>2. ASSUME NEW d \in Docs, DeleteRead(d) \/ DeleteStep(d)
      PROVE  FInv'
  <2>1. CASE DeleteRead(d)
    BY <1>0, <2>1 DEF DeleteRead, MayDelete
  <2>2. CASE DeleteObject(d)
    BY <1>0, <2>2 DEF DeleteObject
  <2>3. CASE DeleteRow(d)
    BY <1>0, <2>3 DEF DeleteRow
  <2>4. CASE DeleteRaises(d)
    BY <1>0, <2>4 DEF DeleteRaises
  <2>5. QED
    BY <1>2, <2>1, <2>2, <2>3, <2>4 DEF DeleteStep
\* A worker leaves files, keys and rows alone, but for a row's status.
<1>3. ASSUME NEW w \in Workers, IngestStep(w) \/ WorkerCrash(w)
      PROVE  FInv'
  <2>1. /\ UNCHANGED <<keyed, objects, upc, dpc>>
        /\ \A d \in Docs : Exists(d) => Exists(d)'
    BY <1>0, <1>3 DEF IngestStep, Take, SetUp, SetupRaises, ReadDocument, Extract, Embed, InsertChunks,
       MarkReady, IngestRaises, MarkFailed, WorkerCrash, Mark
  <2>2. QED
    BY <1>0, <2>1
<1>4. CASE UNCHANGED vars
  BY <1>4 DEF vars
<1>5. QED
  BY <1>1, <1>2, <1>3, <1>4 DEF Next

\* With uploads that are not raced by a delete and a Postgres that answers,
\* whatever else fails: no file stays in MinIO that no row names.
THEOREM FilesKeepTheirRow ==
  ASSUME UploadsAreAlone
  PROVE  Spec => []NoOrphanObject
<1>1. IInv /\ FInv /\ [Next]_vars => FInv'
  BY NextFInv
<1>2. FInv => NoOrphanObject
  BY DEF FInv
<1>3. QED
  BY <1>1, <1>2, InitFInv, InvariantHolds, PTL DEF Spec

----------------------------------------------------------------------------
(* A processing document has somebody working on it, when only content and *)
(* deliveries misbehave.                                                   *)

WorkGoesOn == Faults \cap {"db", "storage", "broker", "setup", "crash"} = {}

IdleWorkerHasNone == \A w \in Workers : wpc[w] = "idle" => wdoc[w] = NoDoc

OInv == IdleWorkerHasNone /\ ProcessingHasOwner

LEMMA InitOInv == Init => OInv
BY DEF Init, OInv, IdleWorkerHasNone, ProcessingHasOwner

LEMMA NextOInv ==
  ASSUME WorkGoesOn, IInv, OInv, [Next]_vars
  PROVE  OInv'
<1> USE ContextHubAssumption
<1> USE DEF WorkGoesOn, OInv, IdleWorkerHasNone, ProcessingHasOwner, rowVars, workVars
<1>0. TypeOK
  BY DEF IInv
<1>1. ASSUME NEW d \in Docs, Create(d) \/ UploadStep(d) \/ DeleteRead(d) \/ DeleteStep(d)
      PROVE  OInv'
  <2>1. CASE Create(d)
    BY <1>0, <2>1 DEF Create, TypeOK
  <2>2. CASE PutFile(d)
    BY <1>0, <2>2 DEF PutFile, TypeOK
  <2>3. CASE SetKey(d)
    BY <1>0, <2>3 DEF SetKey, TypeOK
  <2>4. CASE Send(d)
    BY <1>0, <2>4 DEF Send, TypeOK
  <2>5. CASE UploadRaises(d)
    BY <2>5 DEF UploadRaises
  <2>6. CASE DeleteRead(d) \/ DeleteObject(d) \/ DeleteRaises(d)
    BY <2>6 DEF DeleteRead, DeleteObject, DeleteRaises
  <2>7. CASE DeleteRow(d)
    BY <1>0, <2>7 DEF DeleteRow, TypeOK
  <2>8. QED
    BY <1>1, <2>1, <2>2, <2>3, <2>4, <2>5, <2>6, <2>7 DEF UploadStep, DeleteStep
<1>2. ASSUME NEW w \in Workers, IngestStep(w)
      PROVE  OInv'
  <2>1. CASE Take(w)
    <3>1. PICK d \in Docs : /\ copies[d] > 0
                            /\ copies' = [copies EXCEPT ![d] = @ - 1]
                            /\ wdoc' = [wdoc EXCEPT ![w] = d]
      BY <2>1 DEF Take
    <3>2. wdoc[w] = NoDoc /\ wpc' = [wpc EXCEPT ![w] = "setup"]
          /\ UNCHANGED <<status, upc>>
      BY <2>1 DEF Take, On
    <3>3. IdleWorkerHasNone'
      BY <1>0, <3>1, <3>2 DEF TypeOK
    <3>4. wdoc'[w] = d
      BY <1>0, <3>1 DEF TypeOK
    <3>5. ASSUME NEW e \in Docs, status[e] = "processing"
          PROVE  upc[e] \in {"put", "set_key", "send"} \/ copies'[e] > 0 \/ \E v \in Workers : wdoc'[v] = e
      <4>1. CASE e = d
        BY <3>4, <4>1
      <4>2. CASE e # d
        <5>1. copies'[e] = copies[e]
          BY <1>0, <3>1, <4>2 DEF TypeOK
        <5>2. \A v \in Workers : wdoc[v] = e => v # w /\ wdoc'[v] = e
          BY <1>0, <3>1, <3>2 DEF TypeOK
        <5>3. QED
          BY <3>5, <5>1, <5>2
      <4>3. QED
        BY <4>1, <4>2
    <3>6. QED
      BY <3>2, <3>3, <3>5
  <2>2. CASE SetUp(w)
    BY <1>0, <2>2 DEF SetUp, Move, On, TypeOK
  <2>3. CASE SetupRaises(w)
    BY <2>3 DEF SetupRaises
  <2>4. CASE ReadDocument(w)
    BY <1>0, <2>4 DEF ReadDocument, Move, On, TypeOK
  <2>5. CASE Extract(w)
    BY <1>0, <2>5 DEF Extract, Move, On, TypeOK
  <2>6. CASE Embed(w)
    BY <1>0, <2>6 DEF Embed, Move, On, TypeOK
  <2>7. CASE InsertChunks(w)
    BY <1>0, <2>7 DEF InsertChunks, Move, On, TypeOK
  <2>8. CASE IngestRaises(w)
    BY <1>0, <2>8 DEF IngestRaises, Move, TypeOK
\* The worker's last step takes its document out of "processing".
  <2>9. ASSUME NEW s \in {"ready", "failed"}, wpc[w] # "idle", Mark(wdoc[w], s), Stop(w), UNCHANGED <<copies, upc>>
        PROVE  OInv'
    <3>1. /\ \A e \in Docs : status'[e] = "processing" => status[e] = "processing" /\ e # wdoc[w]
          /\ \A v \in Workers : v # w => wdoc'[v] = wdoc[v]
      BY <1>0, <2>9 DEF Mark, Stop, TypeOK, IInv, BusyWorkerHasDoc
    <3>2. \A v \in Workers : wpc'[v] = "idle" => wdoc'[v] = NoDoc
      BY <1>0, <2>9 DEF Stop, TypeOK
    <3>3. QED
      BY <2>9, <3>1, <3>2
  <2>10. CASE MarkReady(w)
    BY <2>9, <2>10 DEF MarkReady, On
  <2>11. CASE MarkFailed(w)
    BY <2>9, <2>11 DEF MarkFailed, On
  <2>12. QED
    BY <1>2, <2>1, <2>2, <2>3, <2>4, <2>5, <2>6, <2>7, <2>8, <2>10, <2>11 DEF IngestStep
<1>3. ASSUME NEW w \in Workers, WorkerCrash(w)
      PROVE  OInv'
  BY <1>3 DEF WorkerCrash
<1>4. CASE UNCHANGED vars
  BY <1>4 DEF vars
<1>5. QED
  BY <1>1, <1>2, <1>3, <1>4 DEF Next

\* Deletes at any time, unreadable content and second deliveries never
\* leave a document "processing" with nobody to finish it.
THEOREM ProcessingIsOwned ==
  ASSUME WorkGoesOn
  PROVE  Spec => []ProcessingHasOwner
<1>1. IInv /\ OInv /\ [Next]_vars => OInv'
  BY NextOInv
<1>2. OInv => ProcessingHasOwner
  BY DEF OInv
<1>3. QED
  BY <1>1, <1>2, InitOInv, InvariantHolds, PTL DEF Spec

----------------------------------------------------------------------------
(* An excerpt is indexed once, when no task is delivered twice: a task is  *)
(* first nowhere, then with the broker, then with one worker, and the      *)
(* document has no chunks before that worker's transaction.                *)

DeliveredOnce == "duplicate" \notin Faults

BeforeInsert == {"setup", "read", "extract", "embed", "insert"}

OneDelivery ==
  \A d \in Docs :
    /\ upc[d] # "over" => copies[d] = 0
    /\ copies[d] \in 0..1
    /\ (upc[d] # "over" \/ copies[d] = 1) => indexes[d] = 0 /\ \A w \in Workers : wdoc[w] # d
    /\ \A w, v \in Workers : wdoc[w] = d /\ wdoc[v] = d => w = v
    /\ \A w \in Workers : wdoc[w] = d /\ wpc[w] \in BeforeInsert => indexes[d] = 0

DInv == IdleWorkerHasNone /\ OneDelivery /\ IndexedOnce

LEMMA InitDInv == Init => DInv
<1> SUFFICES ASSUME Init PROVE DInv
  OBVIOUS
<1>1. \A w \in Workers : wdoc[w] = NoDoc /\ wpc[w] = "idle"
  BY DEF Init
<1>2. \A d \in Docs : copies[d] = 0 /\ indexes[d] = 0 /\ d # NoDoc
  BY ContextHubAssumption DEF Init
<1>3. QED
  BY <1>1, <1>2 DEF DInv, IdleWorkerHasNone, OneDelivery, IndexedOnce, BeforeInsert

LEMMA NextDInv ==
  ASSUME DeliveredOnce, IInv, DInv, [Next]_vars
  PROVE  DInv'
<1> USE ContextHubAssumption
<1> USE DEF DeliveredOnce, DInv, IdleWorkerHasNone, OneDelivery, IndexedOnce, BeforeInsert, rowVars, workVars
<1>0. TypeOK /\ BusyWorkerHasDoc
  BY DEF IInv
<1>1. ASSUME NEW d \in Docs, Create(d) \/ UploadStep(d) \/ DeleteRead(d) \/ DeleteStep(d)
      PROVE  DInv'
  <2>1. CASE Create(d)
    BY <1>0, <2>1 DEF Create, TypeOK
  <2>2. CASE PutFile(d)
    BY <1>0, <2>2 DEF PutFile, TypeOK
  <2>3. CASE SetKey(d)
    BY <1>0, <2>3 DEF SetKey, TypeOK
  <2>4. CASE Send(d)
    <3>1. copies' = [copies EXCEPT ![d] = 1] /\ upc' = [upc EXCEPT ![d] = "over"] /\ upc[d] = "send"
          /\ UNCHANGED <<indexes, wdoc, wpc>>
      BY <2>4 DEF Send
    <3>2. QED
      BY <1>0, <3>1 DEF TypeOK
  <2>5. CASE UploadRaises(d)
    BY <1>0, <2>5 DEF UploadRaises, TypeOK
  <2>6. CASE DeleteRead(d) \/ DeleteObject(d) \/ DeleteRaises(d)
    BY <2>6 DEF DeleteRead, DeleteObject, DeleteRaises
  <2>7. CASE DeleteRow(d)
    BY <1>0, <2>7 DEF DeleteRow, TypeOK
  <2>8. QED
    BY <1>1, <2>1, <2>2, <2>3, <2>4, <2>5, <2>6, <2>7 DEF UploadStep, DeleteStep
<1>2. ASSUME NEW w \in Workers, IngestStep(w) \/ WorkerCrash(w)
      PROVE  DInv'
  <2>1. CASE Take(w)
    <3>1. PICK d \in Docs : /\ copies[d] > 0
                            /\ copies' = [copies EXCEPT ![d] = @ - 1]
                            /\ wdoc' = [wdoc EXCEPT ![w] = d]
      BY <2>1 DEF Take
    <3>2. /\ wdoc[w] = NoDoc /\ wpc' = [wpc EXCEPT ![w] = "setup"]
          /\ UNCHANGED <<indexes, upc>>
      BY <2>1 DEF Take, On
    <3>3. copies[d] = 1 /\ indexes[d] = 0 /\ upc[d] = "over" /\ \A v \in Workers : wdoc[v] # d
      BY <3>1
    <3>4. QED
      BY <1>0, <3>1, <3>2, <3>3 DEF TypeOK
  <2>2. CASE SetUp(w) \/ ReadDocument(w) \/ Extract(w) \/ Embed(w)
    BY <1>0, <2>2 DEF SetUp, ReadDocument, Extract, Embed, Move, On, TypeOK
  <2>3. CASE InsertChunks(w)
    <3>1. wpc[w] = "insert" /\ wdoc[w] \in Docs
      BY <1>0, <2>3 DEF InsertChunks, On, BusyWorkerHasDoc
    <3>2. indexes[wdoc[w]] = 0
      BY <3>1
    <3>3. QED
      BY <1>0, <2>3, <3>1, <3>2 DEF InsertChunks, Move, TypeOK
  <2>4. CASE IngestRaises(w)
    BY <1>0, <2>4 DEF IngestRaises, Move, IngestFaultsAt, TypeOK
  <2>5. CASE SetupRaises(w) \/ MarkReady(w) \/ MarkFailed(w) \/ WorkerCrash(w)
    <3>1. Stop(w) /\ UNCHANGED <<indexes, copies, upc>>
      BY <2>5 DEF SetupRaises, MarkReady, MarkFailed, WorkerCrash
    <3>2. QED
      BY <1>0, <3>1 DEF Stop, TypeOK
  <2>6. QED
    BY <1>2, <2>1, <2>2, <2>3, <2>4, <2>5 DEF IngestStep
<1>3. CASE UNCHANGED vars
  BY <1>3 DEF vars
<1>4. QED
  BY <1>1, <1>2, <1>3 DEF Next

\* With every task delivered once, whatever fails, dies or is deleted in
\* between: no document is in the table twice, so no excerpt is found twice.
THEOREM ExcerptsAreFoundOnce ==
  ASSUME DeliveredOnce
  PROVE  Spec => []IndexedOnce
<1>1. IInv /\ DInv /\ [Next]_vars => DInv'
  BY NextDInv
<1>2. DInv => IndexedOnce
  BY DEF DInv
<1>3. QED
  BY <1>1, <1>2, InitDInv, InvariantHolds, PTL DEF Spec
=============================================================================
