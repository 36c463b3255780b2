------------------------ MODULE PolicyIngestion_proofs ------------------------
(***************************************************************************)
(* Proofs about PolicyIngestion: one ingestion process whose deletions     *)
(* succeed keeps the editions of the index whole, whatever the corpus, its *)
(* edits, the failures of the store and the crashes are; for every value   *)
(* of the constants, against any number of readers.                        *)
(***************************************************************************)
EXTENDS PolicyIngestionRequirements, FiniteSetTheorems, TLAPS

(* The types the argument rests on. *)
Passages == [file : Files, ordinal : Nat, fit : Nat]

Types ==
  /\ corpus \in Corpora
  /\ runs \in Nat
  /\ cache \in [files : Corpora, fit : Nat]
  /\ ipc \in [Ingesters -> IngesterPCs]
  /\ job \in [Ingesters -> [chunks : SUBSET Passages, todo : SUBSET Documents,
                            fit : Nat, left : SUBSET Steps]]
  /\ result \in [Readers -> [kind : {"none", "passages", "error", "raised"},
                             passages : SUBSET Passages]]
  /\ index \subseteq Passages

(* A set of chunks made of whole editions, one for each document. *)
Whole(chunks) ==
  \A c \in chunks :
    /\ ChunksOf(c.file, c.fit) \subseteq chunks
    /\ \A e \in chunks :
         e.file.document = c.file.document => e.file = c.file /\ e.fit = c.fit

Indexing == {"open", "reconcile", "truncate", "publish", "report"}

(* What a run holds true of its batch and of what it has left to do. *)
JobInv(i) ==
  /\ Whole(job[i].chunks)
  /\ \A c \in job[i].chunks : c.fit = job[i].fit
  /\ job[i].todo \subseteq DocumentsOf(job[i].chunks)
  /\ ipc[i] \in Indexing => "index" \in job[i].left
  /\ ipc[i] \in {"open", "evaluate"} /\ "index" \in job[i].left
       => job[i].todo = DocumentsOf(job[i].chunks)

JobsInv == Types /\ \A i \in Ingesters : JobInv(i)

(* What it holds true of the index and of the published state, if no other *)
(* process writes them.                                                    *)
IndexInv(i) ==
  /\ ipc[i] = "reconcile"
       => DocumentsOf(index) \cap DocumentsOf(job[i].chunks) \subseteq job[i].todo
  /\ ipc[i] \in {"truncate", "publish", "report"} \/ "index" \notin job[i].left
       => \A d \in DocumentsOf(job[i].chunks) : Of(index, d) = Of(job[i].chunks, d)
  /\ ipc[i] = "report" \/ "index" \notin job[i].left => published = job[i].fit

(* No retrieval returned two editions of a document. *)
CitedWhole ==
  \A r \in Readers : \A c, e \in result[r].passages :
    c.file.document = e.file.document => c.file = e.file

IInv == JobsInv /\ Whole(index) /\ CitedWhole /\ \A i \in Ingesters : IndexInv(i)

-----------------------------------------------------------------------------
(* Of the files of one document _check_recency keeps one. *)
LEMMA NewestIsUnique ==
  ASSUME NEW files \in Corpora, Verified(files)
  PROVE  /\ Newest(files) \subseteq Files
         /\ \A f, g \in Newest(files) : f.document = g.document => f = g
<1>1. \A p \in Present(files) : files[p] \in Files
  BY DEF Verified, Present, Corpora, Entries
<1>2. Newest(files) \subseteq Files
  BY <1>1 DEF Newest
<1>3. ASSUME NEW f \in Newest(files), NEW g \in Newest(files), f.document = g.document
      PROVE  f = g
  <2>1. PICK p \in Present(files) :
          f = files[p] /\ \A o \in Present(files) : ~Supersedes(files, o, p)
    BY DEF Newest
  <2>2. PICK q \in Present(files) :
          g = files[q] /\ \A o \in Present(files) : ~Supersedes(files, o, q)
    BY DEF Newest
  <2>3. ~Supersedes(files, p, q) /\ ~Supersedes(files, q, p)
    BY <2>1, <2>2
  <2>4. p \in Nat /\ q \in Nat /\ f.version \in Nat /\ g.version \in Nat
    BY <1>2, IngestionAssumption DEF Present, Files
  <2> QED BY <1>3, <2>1, <2>2, <2>3, <2>4 DEF Supersedes
<1> QED BY <1>2, <1>3

(* The chunks of a batch are whole editions, one for each document. *)
LEMMA BatchIsWhole ==
  ASSUME NEW files \in Corpora, Verified(files), NEW fit \in Nat
  PROVE  /\ Batch(files, fit) \subseteq Passages /\ Whole(Batch(files, fit))
         /\ \A c \in Batch(files, fit) : c.fit = fit
<1>1. Newest(files) \subseteq Files
  BY NewestIsUnique
<1>2. \A c \in Batch(files, fit) :
        /\ c.file \in Newest(files) /\ c.fit = fit /\ c.ordinal \in 1 .. c.file.chunks
        /\ c = [file |-> c.file, ordinal |-> c.ordinal, fit |-> c.fit]
  BY DEF Batch, ChunksOf
<1>3. \A f \in Newest(files) : ChunksOf(f, fit) \subseteq Batch(files, fit)
  BY DEF Batch
<1>4. \A f \in Files : f.chunks \in Nat
  BY IngestionAssumption DEF Files
<1>5. Batch(files, fit) \subseteq Passages
  BY <1>1, <1>2, <1>4 DEF Passages
<1> QED BY <1>2, <1>3, <1>5, NewestIsUnique DEF Whole

(* A deletion takes whole documents away and nothing else. *)
LEMMA DeletionKeepsWhole ==
  ASSUME NEW chunks, Whole(chunks), NEW d
  PROVE  Whole(chunks \ Of(chunks, d))
BY DEF Whole, Of, ChunksOf

(* Whole editions of other documents make a whole index. *)
LEMMA UnionIsWhole ==
  ASSUME NEW chunks, NEW batch, Whole(chunks), Whole(batch),
         DocumentsOf(chunks) \cap DocumentsOf(batch) = {}
  PROVE  Whole(chunks \cup batch)
BY DEF Whole, DocumentsOf

-----------------------------------------------------------------------------
(* The invariant of the jobs, for any number of ingestion processes.       *)

(* Initially no run has begun.                                             *)
LEMMA InitJobs == Init => JobsInv
<1>1. SUFFICES ASSUME Init PROVE JobsInv
  OBVIOUS
<1>2. [p \in Paths |-> NoFile] \in Corpora
  BY DEF Corpora, Entries
<1>3. Types
  BY <1>1, <1>2
  DEF Init, Types, NoCache, NoJob, NoResult, Unfitted, Steps, IngesterPCs, Passages
<1>4. \A i \in Ingesters : JobInv(i)
  BY <1>1 DEF Init, JobInv, Whole, NoJob, Steps, Indexing, DocumentsOf
<1> QED BY <1>3, <1>4 DEF JobsInv

(* A run begins with a whole batch, all of which it is still to delete.    *)
LEMMA PrepareJobs ==
  ASSUME JobsInv, NEW i \in Ingesters, Prepare(i)
  PROVE  JobsInv'
<1> DEFINE batch == Batch(Loaded.files, Loaded.fit)
<1>1. Loaded.files \in Corpora /\ Loaded.fit \in Nat /\ Loaded \in [files : Corpora, fit : Nat]
  BY DEF JobsInv, Types, Loaded
<1>2. cache' \in [files : Corpora, fit : Nat] /\ runs' \in Nat
  BY <1>1 DEF JobsInv, Types, Prepare
<1>3. CASE Verified(Loaded.files)
  <2>1. batch \subseteq Passages /\ Whole(batch) /\ \A c \in batch : c.fit = Loaded.fit
    BY <1>1, <1>3, BatchIsWhole
  <2>2. DocumentsOf(batch) \subseteq Documents
    BY <2>1 DEF DocumentsOf, Passages, Files
  <2>3. /\ job' = [job EXCEPT ![i] = [chunks |-> batch, todo |-> DocumentsOf(batch),
                                      fit |-> Loaded.fit, left |-> Steps]]
        /\ \E step \in {"open", "evaluate"} : ipc' = [ipc EXCEPT ![i] = step]
    BY <1>3 DEF Prepare
  <2>4. Types'
    BY <1>1, <1>2, <2>1, <2>2, <2>3 DEF JobsInv, Types, Prepare, retrieval, IngesterPCs
  <2>5. \A j \in Ingesters : JobInv(j)'
    BY <2>1, <2>3 DEF JobsInv, Types, JobInv, Steps, Indexing
  <2> QED BY <2>4, <2>5 DEF JobsInv
<1>4. CASE ~Verified(Loaded.files)
  <2>1. job' = [job EXCEPT ![i] = NoJob] /\ ipc' = ipc /\ ipc[i] = "idle"
    BY <1>4 DEF Prepare
  <2>2. Types'
    BY <1>2, <2>1 DEF JobsInv, Types, Prepare, retrieval, NoJob, Unfitted, Steps
  <2>3. \A j \in Ingesters : JobInv(j)'
    BY <2>1 DEF JobsInv, Types, JobInv, NoJob, Steps, Indexing, Whole, DocumentsOf
  <2> QED BY <2>2, <2>3 DEF JobsInv
<1> QED BY <1>3, <1>4

(* A run that ends leaves its batch and the steps it had left alone.       *)
LEMMA RunEndsJobs ==
  ASSUME JobsInv, NEW i \in Ingesters, NEW o, RunEnds(i, o),
         index' \subseteq Passages, UNCHANGED <<corpus, retrieval>>
  PROVE  JobsInv'
<1>1. Types'
  BY DEF JobsInv, Types, RunEnds, IngesterPCs, retrieval
<1>2. \A j \in Ingesters : JobInv(j)'
  BY DEF JobsInv, Types, RunEnds, JobInv, Indexing, Whole
<1> QED BY <1>1, <1>2 DEF JobsInv

(* So does one that goes on within the index step.                         *)
LEMMA RunGoesOnJobs ==
  ASSUME JobsInv, NEW i \in Ingesters, ipc[i] \in Indexing,
         NEW step \in Indexing \ {"open"}, RunGoesOn(i, step),
         index' \subseteq Passages, UNCHANGED <<corpus, retrieval>>
  PROVE  JobsInv'
<1>1. Types'
  BY DEF JobsInv, Types, RunGoesOn, IngesterPCs, Indexing, retrieval
<1>2. \A j \in Ingesters : JobInv(j)'
  BY DEF JobsInv, Types, RunGoesOn, JobInv, Indexing, Whole
<1> QED BY <1>1, <1>2 DEF JobsInv

(* After the index step and the evaluation the other one may be left.      *)
LEMMA StepDoneJobs ==
  ASSUME JobsInv, NEW i \in Ingesters, NEW step \in Steps, StepDone(i, step),
         step = "index" => ipc[i] = "report",
         step = "evaluate" => ipc[i] = "evaluate",
         UNCHANGED <<corpus, index, retrieval>>
  PROVE  JobsInv'
<1> DEFINE rest == job[i].left \ {step}
<1>1. /\ job' = [job EXCEPT ![i].left = rest]
      /\ ipc' = [ipc EXCEPT ![i] = CASE "index" \in rest    -> "open"
                                     [] "evaluate" \in rest -> "evaluate"
                                     [] OTHER               -> "idle"]
      /\ cache' = cache /\ runs' = runs
  BY DEF StepDone
<1>2. rest \subseteq Steps /\ job[i].left \subseteq Steps
  BY DEF JobsInv, Types
<1>3. /\ "index" \in rest => step = "evaluate" /\ ipc'[i] = "open"
      /\ "index" \notin rest => ipc'[i] \in {"evaluate", "idle"}
  BY <1>1, <1>2 DEF JobsInv, Types, Steps
<1>4. Types'
  <2>1. job' \in [Ingesters -> [chunks : SUBSET Passages, todo : SUBSET Documents,
                                fit : Nat, left : SUBSET Steps]]
    BY <1>1, <1>2 DEF JobsInv, Types
  <2>2. ipc' \in [Ingesters -> IngesterPCs]
    BY <1>1 DEF JobsInv, Types, IngesterPCs
  <2> QED BY <1>1, <2>1, <2>2 DEF JobsInv, Types, retrieval
<1>5. /\ job'[i].chunks = job[i].chunks /\ job'[i].todo = job[i].todo
      /\ job'[i].left = rest /\ job'[i].fit = job[i].fit
  BY <1>1 DEF JobsInv, Types
<1>6. JobInv(i)'
  BY <1>3, <1>5 DEF JobsInv, JobInv, Indexing, Steps
<1>7. ASSUME NEW j \in Ingesters, j # i PROVE JobInv(j)'
  BY <1>1, <1>7 DEF JobsInv, Types, JobInv
<1> QED BY <1>4, <1>6, <1>7 DEF JobsInv

(* A deletion is one document less to delete.                              *)
LEMMA DeleteDocumentJobs ==
  ASSUME JobsInv, NEW i \in Ingesters, DeleteDocument(i)
  PROVE  JobsInv'
<1>1. PICK d \in job[i].todo :
        /\ job' = [job EXCEPT ![i].todo = @ \ {d}]
        /\ index' \subseteq index
  BY DEF DeleteDocument, Of
<1>2. ipc[i] = "reconcile" /\ ipc' = ipc
  BY DEF DeleteDocument
<1>3. Types'
  BY <1>1 DEF JobsInv, Types, DeleteDocument, retrieval
<1>4. \A j \in Ingesters : JobInv(j)'
  BY <1>1, <1>2 DEF JobsInv, Types, JobInv, Indexing
<1> QED BY <1>3, <1>4 DEF JobsInv

(* Readers keep what they found.                                           *)
LEMMA ReaderJobs ==
  ASSUME JobsInv, NEW r \in Readers, OpenReader(r) \/ CountIndex(r) \/ SearchIndex(r)
  PROVE  JobsInv'
<1>1. /\ result' \in [Readers -> [kind : {"none", "passages", "error", "raised"},
                                  passages : SUBSET Passages]]
      /\ UNCHANGED <<corpus, index, ingestion>>
  BY DEF JobsInv, Types, OpenReader, CountIndex, SearchIndex, Retrieved, NoResult
<1> QED BY <1>1 DEF JobsInv, Types, ingestion, JobInv, Whole

(* Every step keeps the invariant of the jobs.                             *)
LEMMA NextJobs == JobsInv /\ [Next]_vars => JobsInv'
<1>1. SUFFICES ASSUME JobsInv, [Next]_vars PROVE JobsInv'
  OBVIOUS
<1>2. ASSUME NEW p \in Paths, Edit(p) PROVE JobsInv'
  <2>1. corpus' \in Corpora
    BY <1>1, <1>2 DEF JobsInv, Types, Edit, Corpora
  <2> QED BY <1>1, <1>2, <2>1 DEF JobsInv, Types, Edit, ingestion, retrieval, JobInv, Whole
<1>3. ASSUME NEW i \in Ingesters, Prepare(i) PROVE JobsInv'
  BY <1>1, <1>3, PrepareJobs
<1>4. ASSUME NEW i \in Ingesters, OpenIndex(i) PROVE JobsInv'
  BY <1>1, <1>4, RunEndsJobs, RunGoesOnJobs DEF OpenIndex, Indexing, JobsInv, Types
<1>5. ASSUME NEW i \in Ingesters, DeleteDocument(i) PROVE JobsInv'
  BY <1>1, <1>5, DeleteDocumentJobs
<1>6. ASSUME NEW i \in Ingesters, Upsert(i) PROVE JobsInv'
  <2>1. index' \subseteq Passages
    BY <1>1, <1>6 DEF JobsInv, Types, Upsert
  <2> QED BY <1>1, <1>6, <2>1, RunEndsJobs, RunGoesOnJobs DEF Upsert, Indexing
<1>7. ASSUME NEW i \in Ingesters, TruncateState(i) PROVE JobsInv'
  BY <1>1, <1>7, RunGoesOnJobs DEF TruncateState, Indexing, JobsInv, Types
<1>8. ASSUME NEW i \in Ingesters, WriteState(i) PROVE JobsInv'
  BY <1>1, <1>8, RunGoesOnJobs DEF WriteState, Indexing, JobsInv, Types
<1>9. ASSUME NEW i \in Ingesters, ReportIndex(i) PROVE JobsInv'
  <2>1. CASE StepDone(i, "index")
    BY <1>1, <1>9, <2>1, StepDoneJobs DEF ReportIndex, Steps
  <2>2. CASE RunEnds(i, "failed")
    BY <1>1, <1>9, <2>2, RunEndsJobs DEF ReportIndex, JobsInv, Types
  <2> QED BY <1>9, <2>1, <2>2 DEF ReportIndex
<1>10. ASSUME NEW i \in Ingesters, Evaluate(i) PROVE JobsInv'
  <2>1. CASE StepDone(i, "evaluate")
    BY <1>1, <1>10, <2>1, StepDoneJobs DEF Evaluate, Steps
  <2>2. CASE RunEnds(i, "refused")
    BY <1>1, <1>10, <2>2, RunEndsJobs DEF Evaluate, JobsInv, Types
  <2> QED BY <1>10, <2>1, <2>2 DEF Evaluate
<1>11. ASSUME NEW i \in Ingesters, Crash(i) PROVE JobsInv'
  BY <1>1, <1>11, RunEndsJobs DEF Crash, JobsInv, Types
<1>12. ASSUME NEW r \in Readers, OpenReader(r) \/ CountIndex(r) \/ SearchIndex(r)
       PROVE  JobsInv'
  BY <1>1, <1>12, ReaderJobs
<1>13. CASE UNCHANGED vars
  BY <1>1, <1>13 DEF vars, JobsInv, Types, JobInv, Whole
<1> QED BY <1>1, <1>2, <1>3, <1>4, <1>5, <1>6, <1>7, <1>8, <1>9, <1>10, <1>11, <1>12, <1>13
        DEF Next, RunStep

(* Every batch is made of whole editions, one for each document, whatever  *)
(* the corpus and however many processes ingest it.                        *)
THEOREM JobsStayWhole == Spec => []JobsInv
BY InitJobs, NextJobs, PTL DEF Spec

-----------------------------------------------------------------------------
(* Identifiers, for any number of processes and whichever deletions fail.  *)

(* No two chunks of a set have the same identifier. *)
Distinct(chunks) == \A c, e \in chunks : ChunkId(c) = ChunkId(e) => c = e

(* Of a batch, one edition of a document is numbered. *)
LEMMA BatchIsDistinct ==
  ASSUME NEW chunks \in SUBSET Passages, Whole(chunks)
  PROVE  Distinct(chunks)
<1>1. SUFFICES ASSUME NEW c \in chunks, NEW e \in chunks, ChunkId(c) = ChunkId(e)
               PROVE  c = e
  BY DEF Distinct
<1>2. c.file.document = e.file.document /\ c.ordinal = e.ordinal
  BY <1>1 DEF ChunkId
<1>3. c.file = e.file /\ c.fit = e.fit
  BY <1>2 DEF Whole
<1> QED BY <1>2, <1>3 DEF Passages

(* An upsert replaces whatever has an identifier of its own. *)
LEMMA NextDistinct == JobsInv /\ Distinct(index) /\ [Next]_vars => Distinct(index)'
<1>1. SUFFICES ASSUME JobsInv, Distinct(index), [Next]_vars PROVE Distinct(index)'
  OBVIOUS
<1>2. CASE index' \subseteq index
  BY <1>1, <1>2 DEF Distinct
<1>3. ASSUME NEW i \in Ingesters, Upsert(i) PROVE Distinct(index)'
  <2>1. Distinct(job[i].chunks)
    BY <1>1, BatchIsDistinct DEF JobsInv, JobInv, Types
  <2>2. CASE index' = {c \in index : \A e \in job[i].chunks : ChunkId(c) # ChunkId(e)}
                        \cup job[i].chunks
    BY <1>1, <2>1, <2>2 DEF Distinct
  <2> QED BY <1>2, <1>3, <2>2 DEF Upsert
<1>4. (\A i \in Ingesters : ~Upsert(i)) => index' \subseteq index
  BY <1>1
  DEF Next, RunStep, Edit, Prepare, OpenIndex, DeleteDocument, TruncateState, WriteState,
      ReportIndex, Evaluate, Crash, OpenReader, CountIndex, SearchIndex, Retrieved, vars
<1> QED BY <1>2, <1>3, <1>4

(* However many processes ingest, and whichever deletions fail, no two     *)
(* chunks of the index, and none of a batch, share an identifier.          *)
THEOREM IdentifiersAreUnique == Spec => []IdsAreUnique
<1>1. Init => Distinct(index)
  BY DEF Init, Distinct
<1>2. JobsInv /\ Distinct(index) => IdsAreUnique
  BY BatchIsDistinct DEF JobsInv, JobInv, Types, Distinct, IdsAreUnique
<1> QED BY <1>1, <1>2, NextDistinct, JobsStayWhole, PTL DEF Spec

-----------------------------------------------------------------------------
(* The index, when one process ingests and its deletions succeed.          *)

(* Initially the index is empty and no run has written it.                 *)
LEMMA InitInv == Init => IInv
<1>1. SUFFICES ASSUME Init PROVE IInv
  OBVIOUS
<1>2. Whole(index) /\ CitedWhole
  BY <1>1 DEF Init, Whole, CitedWhole, NoResult
<1>3. \A i \in Ingesters : IndexInv(i)
  BY <1>1 DEF Init, IndexInv, NoJob, Steps
<1> QED BY <1>1, <1>2, <1>3, InitJobs DEF IInv

(* A step that leaves the index, its state and the process i alone, or     *)
(* that ends its run, keeps what i holds true of the index.                *)
LEMMA RunEndsInv ==
  ASSUME Reconciled, IInv, NEW i \in Ingesters, NEW o, RunEnds(i, o),
         UNCHANGED <<index, published>>
  PROVE  IndexInv(i)'
BY DEF IInv, JobsInv, Types, RunEnds, IndexInv

(* A reader adds what it cites, and all of it from one state of the index. *)
LEMMA CitedInv ==
  ASSUME IInv, [Next]_vars
  PROVE  CitedWhole'
<1>1. ASSUME NEW r \in Readers, NEW kind, NEW passages \in SUBSET index,
             Retrieved(r, kind, passages)
      PROVE  CitedWhole'
  BY <1>1 DEF IInv, JobsInv, Types, Retrieved, CitedWhole, Whole
<1>2. ASSUME NEW r \in Readers, result' = [result EXCEPT ![r] = NoResult]
      PROVE  CitedWhole'
  BY <1>2 DEF IInv, JobsInv, Types, CitedWhole, NoResult
<1>3. CASE UNCHANGED result
  BY <1>3 DEF IInv, CitedWhole
<1>4. CASE \E p \in Paths : Edit(p)
  BY <1>3, <1>4 DEF Edit, retrieval
<1>5. CASE \E i \in Ingesters : Prepare(i) \/ RunStep(i) \/ Crash(i)
  BY <1>3, <1>5 DEF Prepare, RunStep, OpenIndex, DeleteDocument, Upsert, TruncateState,
                    WriteState, ReportIndex, Evaluate, Crash, retrieval
<1>6. ASSUME NEW r \in Readers, OpenReader(r) \/ CountIndex(r) \/ SearchIndex(r)
      PROVE  CitedWhole'
  BY <1>1, <1>2, <1>3, <1>6 DEF OpenReader, CountIndex, SearchIndex
<1>7. CASE UNCHANGED vars
  BY <1>3, <1>7 DEF vars
<1> QED BY <1>4, <1>5, <1>6, <1>7 DEF Next

(* A deletion takes one document of the batch out of the index.            *)
LEMMA DeleteDocumentInv ==
  ASSUME Reconciled, IInv, NEW i \in Ingesters, DeleteDocument(i)
  PROVE  Whole(index)' /\ IndexInv(i)'
<1>1. PICK d \in job[i].todo :
        /\ job' = [job EXCEPT ![i].todo = @ \ {d}]
        /\ index' = index \ Of(index, d)
  BY DEF DeleteDocument, Reconciled
<1>2. ipc[i] = "reconcile" /\ ipc' = ipc
  BY DEF DeleteDocument
<1>3. /\ job'[i].chunks = job[i].chunks /\ job'[i].left = job[i].left
      /\ job'[i].todo = job[i].todo \ {d}
  BY <1>1 DEF IInv, JobsInv, Types
<1>4. "index" \in job[i].left
  BY <1>2 DEF IInv, JobsInv, JobInv, Indexing
<1>5. DocumentsOf(index') \subseteq DocumentsOf(index) \ {d}
  BY <1>1 DEF DocumentsOf, Of
<1>6. DocumentsOf(index') \cap DocumentsOf(job'[i].chunks) \subseteq job'[i].todo
  BY <1>2, <1>3, <1>5 DEF IInv, IndexInv
<1>7. Whole(index)'
  BY <1>1, DeletionKeepsWhole DEF IInv
<1> QED BY <1>2, <1>3, <1>4, <1>6, <1>7 DEF IndexInv

(* Once every document of the batch is deleted, the upsert replaces no     *)
(* chunk: it adds whole editions of documents the index holds nothing of.  *)
LEMMA UpsertAdds ==
  ASSUME Reconciled, IInv, NEW i \in Ingesters, Upsert(i)
  PROVE  /\ DocumentsOf(index) \cap DocumentsOf(job[i].chunks) = {}
         /\ \/ RunGoesOn(i, "truncate") /\ index' = index \cup job[i].chunks
            \/ RunEnds(i, "failed") /\ index' = index
<1>1. DocumentsOf(index) \cap DocumentsOf(job[i].chunks) = {}
  BY DEF IInv, IndexInv, Upsert
<1>2. \A c \in index, e \in job[i].chunks : ChunkId(c) # ChunkId(e)
  BY <1>1 DEF DocumentsOf, ChunkId
<1> QED BY <1>1, <1>2 DEF Upsert

(* The index is whole after it, and agrees with the batch. *)
LEMMA UpsertInv ==
  ASSUME Reconciled, IInv, NEW i \in Ingesters, Upsert(i)
  PROVE  Whole(index)' /\ IndexInv(i)'
<1> DEFINE batch == job[i].chunks
<1>1. ipc[i] = "reconcile" /\ "index" \in job[i].left
  BY DEF IInv, JobsInv, JobInv, Upsert, Indexing
<1>2. DocumentsOf(index) \cap DocumentsOf(batch) = {}
  BY UpsertAdds
<1>3. CASE RunEnds(i, "failed") /\ index' = index
  BY <1>3, RunEndsInv DEF Upsert, IInv
<1>4. CASE RunGoesOn(i, "truncate") /\ index' = index \cup batch
  <2>1. ipc'[i] = "truncate" /\ job' = job
    BY <1>4 DEF RunGoesOn, IInv, JobsInv, Types
  <2>2. Whole(index)'
    BY <1>2, <1>4, UnionIsWhole DEF IInv, JobsInv, JobInv
  <2>3. \A d \in DocumentsOf(batch) : Of(index', d) = Of(batch, d)
    BY <1>2, <1>4 DEF DocumentsOf, Of
  <2> QED BY <1>1, <2>1, <2>2, <2>3 DEF IndexInv
<1> QED BY <1>3, <1>4, UpsertAdds

(* The steps of a run that write neither the index nor a document's place. *)
LEMMA ControlInv ==
  ASSUME Reconciled, IInv, NEW i \in Ingesters,
         \/ Prepare(i) \/ OpenIndex(i) \/ TruncateState(i) \/ WriteState(i)
         \/ ReportIndex(i) \/ Evaluate(i) \/ Crash(i)
  PROVE  IndexInv(i)'
<1> USE DEF IInv, JobsInv, Types
<1>1. CASE Prepare(i)
  BY <1>1 DEF Prepare, IndexInv, NoJob, Steps
<1>2. CASE OpenIndex(i)
  BY <1>2, RunEndsInv DEF OpenIndex, RunGoesOn, IndexInv, JobInv, Indexing
<1>3. CASE TruncateState(i)
  BY <1>3 DEF TruncateState, RunGoesOn, IndexInv, JobInv, Indexing
<1>4. CASE WriteState(i)
  BY <1>4 DEF WriteState, RunGoesOn, IndexInv, JobInv, Indexing
<1>5. CASE ReportIndex(i)
  BY <1>5, RunEndsInv DEF ReportIndex, StepDone, IndexInv
<1>6. CASE Evaluate(i)
  BY <1>6, RunEndsInv DEF Evaluate, StepDone, IndexInv
<1>7. CASE Crash(i)
  BY <1>7, RunEndsInv DEF Crash
<1> QED BY <1>1, <1>2, <1>3, <1>4, <1>5, <1>6, <1>7

(* Every step keeps the invariant.                                         *)
LEMMA NextInv == Reconciled /\ IInv /\ [Next]_vars => IInv'
<1>1. SUFFICES ASSUME Reconciled, IInv, [Next]_vars PROVE IInv'
  OBVIOUS
<1>2. JobsInv' /\ CitedWhole'
  BY <1>1, NextJobs, CitedInv DEF IInv
<1>3. ASSUME NEW i \in Ingesters, IndexInv(i)' PROVE \A j \in Ingesters : IndexInv(j)'
  BY <1>1, <1>3 DEF Reconciled
<1>4. CASE UNCHANGED <<index, published, ipc, job>>
  BY <1>1, <1>2, <1>4 DEF IInv, Whole, IndexInv
<1>5. CASE \E p \in Paths : Edit(p)
  BY <1>4, <1>5 DEF Edit, ingestion
<1>6. CASE \E r \in Readers : OpenReader(r) \/ CountIndex(r) \/ SearchIndex(r)
  BY <1>4, <1>6 DEF OpenReader, CountIndex, SearchIndex, Retrieved, ingestion
<1>7. ASSUME NEW i \in Ingesters, Prepare(i) \/ RunStep(i) \/ Crash(i) PROVE IInv'
  <2>1. CASE DeleteDocument(i)
    BY <1>1, <1>2, <1>3, <2>1, DeleteDocumentInv DEF IInv
  <2>2. CASE Upsert(i)
    BY <1>1, <1>2, <1>3, <2>2, UpsertInv DEF IInv
  <2>3. CASE \/ Prepare(i) \/ OpenIndex(i) \/ TruncateState(i) \/ WriteState(i)
             \/ ReportIndex(i) \/ Evaluate(i) \/ Crash(i)
    <3>1. index' = index
      BY <2>3 DEF Prepare, OpenIndex, TruncateState, WriteState, ReportIndex, Evaluate, Crash
    <3>2. Whole(index)'
      BY <1>1, <3>1 DEF IInv, Whole
    <3> QED BY <1>1, <1>2, <1>3, <2>3, <3>2, ControlInv DEF IInv
  <2> QED BY <1>7, <2>1, <2>2, <2>3 DEF RunStep
<1>8. CASE UNCHANGED vars
  BY <1>4, <1>8 DEF vars
<1> QED BY <1>1, <1>5, <1>6, <1>7, <1>8 DEF Next

(* The inductive invariant holds throughout.                               *)
THEOREM InvHolds ==
  ASSUME Reconciled
  PROVE  Spec => []IInv
<1>1. IInv /\ [Next]_vars => IInv'
  BY NextInv
<1> QED BY <1>1, InitInv, PTL DEF Spec

(* With one ingestion process whose deletions succeed, the index holds the *)
(* whole of one edition of a document or nothing of it, through any edits, *)
(* crashes and failures of the store.                                      *)
THEOREM IndexStaysWhole ==
  ASSUME Reconciled
  PROVE  Spec => []EditionsWhole
<1>1. IInv => EditionsWhole
  BY DEF IInv, Whole, EditionsWhole, Of
<1> QED BY <1>1, InvHolds, PTL

(* No reader then cites two editions of one document.                      *)
THEOREM CitationsStayWhole ==
  ASSUME Reconciled
  PROVE  Spec => []CitationsOfOneEdition
<1>1. IInv => CitationsOfOneEdition
  BY DEF IInv, CitedWhole, CitationsOfOneEdition
<1> QED BY <1>1, InvHolds, PTL

(* A run whose index step is complete has repaired what earlier runs left. *)
THEOREM CompleteRunRepairs ==
  ASSUME Reconciled
  PROVE  Spec => []RunRepairs
<1>1. IInv => RunRepairs
  BY DEF IInv, IndexInv, RunRepairs, Indexed
<1> QED BY <1>1, InvHolds, PTL

(* Whatever the processes and the failures, only a document about to be    *)
(* written again leaves the index.                                         *)
THEOREM ReplacedOnlyLeave == Spec => OnlyReplacedLeave
<1> DEFINE Leaves == \A d \in Documents :
             Of(index, d) # {} /\ Of(index', d) = {} =>
               \E i \in Ingesters : ipc[i] = "reconcile" /\ d \in DocumentsOf(job[i].chunks)
<1>1. JobsInv /\ [Next]_vars => [Leaves]_vars
  <2>1. SUFFICES ASSUME JobsInv, [Next]_vars, NEW d \in Documents,
                        Of(index, d) # {}, Of(index', d) = {}
                 PROVE  \E i \in Ingesters : ipc[i] = "reconcile" /\ d \in DocumentsOf(job[i].chunks)
    OBVIOUS
  <2>2. index' # index
    BY <2>1
  <2>3. PICK i \in Ingesters : DeleteDocument(i) \/ Upsert(i)
    BY <2>1, <2>2
    DEF Next, RunStep, Edit, Prepare, OpenIndex, TruncateState, WriteState, ReportIndex,
        Evaluate, Crash, OpenReader, CountIndex, SearchIndex, Retrieved, vars
  <2>4. CASE DeleteDocument(i)
    <3>1. PICK e \in job[i].todo : index' = index \ Of(index, e)
      BY <2>2, <2>4 DEF DeleteDocument
    <3>2. d = e
      BY <2>1, <3>1 DEF Of
    <3>3. d \in DocumentsOf(job[i].chunks)
      BY <2>1, <3>2 DEF JobsInv, JobInv
    <3> QED BY <2>4, <3>3 DEF DeleteDocument
  <2>5. CASE Upsert(i)
    <3>1. index' = {c \in index : \A e \in job[i].chunks : ChunkId(c) # ChunkId(e)}
                     \cup job[i].chunks
      BY <2>2, <2>5 DEF Upsert
    <3>2. PICK c \in index : c.file.document = d
      BY <2>1 DEF Of
    <3>3. c \notin index'
      BY <2>1, <3>2 DEF Of
    <3>4. PICK e \in job[i].chunks : ChunkId(c) = ChunkId(e)
      BY <3>1, <3>2, <3>3
    <3>5. e.file.document = d
      BY <3>2, <3>4 DEF ChunkId
    <3> QED BY <2>5, <3>4, <3>5 DEF Upsert, DocumentsOf
  <2> QED BY <2>3, <2>4, <2>5
<1> QED BY <1>1, JobsStayWhole, PTL DEF Spec, OnlyReplacedLeave

-----------------------------------------------------------------------------
(* The types, which the counts of the readers need a finite index for.     *)

(* An artifact in the cache was embedded, if it has any file; the index    *)
(* and every batch are finite.                                             *)
TypeInv ==
  /\ TypeOK
  /\ Present(cache.files) # {} => cache.fit \in Fits
  /\ IsFiniteSet(index)
  /\ \A i \in Ingesters : IsFiniteSet(job[i].chunks)

(* A file is cut into finitely many chunks. *)
LEMMA ChunksOfFinite ==
  ASSUME NEW f \in Files, NEW fit
  PROVE  IsFiniteSet(ChunksOf(f, fit))
<1> DEFINE chunk == [o \in 1 .. f.chunks |-> [file |-> f, ordinal |-> o, fit |-> fit]]
<1>1. f.chunks \in Nat
  BY IngestionAssumption DEF Files
<1>2. IsFiniteSet(1 .. f.chunks)
  BY <1>1, FS_Interval
<1>3. chunk \in Surjection(1 .. f.chunks, ChunksOf(f, fit))
  BY DEF Surjection, ChunksOf
<1> QED BY <1>2, <1>3, FS_Surjection

(* There are no more files to keep than paths, and a batch is finite. *)
LEMMA BatchIsFinite ==
  ASSUME NEW files, Newest(files) \subseteq Files, NEW fit
  PROVE  IsFiniteSet(Batch(files, fit))
<1> DEFINE kept == {p \in Present(files) : files[p] \in Newest(files)}
           chunks == [p \in kept |-> ChunksOf(files[p], fit)]
<1>1. IsFiniteSet(kept)
  BY CorpusAssumption, FS_Subset DEF Present
<1>2. chunks \in Surjection(kept, {ChunksOf(f, fit) : f \in Newest(files)})
  BY DEF Surjection, Newest
<1>3. IsFiniteSet({ChunksOf(f, fit) : f \in Newest(files)})
  BY <1>1, <1>2, FS_Surjection
<1>4. \A T \in {ChunksOf(f, fit) : f \in Newest(files)} : IsFiniteSet(T)
  BY ChunksOfFinite
<1> QED BY <1>3, <1>4, FS_UNION DEF Batch

(* The chunks of a batch are chunks. *)
LEMMA BatchType ==
  ASSUME NEW files \in Corpora, Verified(files), NEW fit \in Fits
  PROVE  /\ Batch(files, fit) \subseteq Chunks
         /\ DocumentsOf(Batch(files, fit)) \subseteq Documents
         /\ IsFiniteSet(Batch(files, fit))
<1>1. Newest(files) \subseteq Files
  BY NewestIsUnique
<1>2. \A f \in Files : f.chunks \in Nat /\ f.document \in Documents
  BY IngestionAssumption DEF Files
<1>3. Batch(files, fit) \subseteq Chunks
  BY <1>1, <1>2 DEF Batch, ChunksOf, Chunks
<1>4. DocumentsOf(Batch(files, fit)) \subseteq Documents
  BY <1>1, <1>2 DEF Batch, ChunksOf, DocumentsOf
<1> QED BY <1>1, <1>3, <1>4, BatchIsFinite

(* Initially nothing is indexed. *)
LEMMA InitTypes == Init => TypeInv
<1>1. SUFFICES ASSUME Init PROVE TypeInv
  OBVIOUS
<1>2. [p \in Paths |-> NoFile] \in Corpora
  BY DEF Corpora, Entries
<1>3. Present(NoCache.files) = {}
  BY DEF Present, NoCache
<1>4. TypeOK
  BY <1>1, <1>2, IngestionAssumption
  DEF Init, TypeOK, NoCache, NoJob, NoResult, Unfitted, Steps, IngesterPCs, ReaderPCs, Outcomes
<1>5. IsFiniteSet(index) /\ \A i \in Ingesters : IsFiniteSet(job[i].chunks)
  BY <1>1, FS_EmptySet DEF Init, NoJob
<1> QED BY <1>1, <1>3, <1>4, <1>5 DEF Init, TypeInv

(* A run ends with one of the outcomes, or goes on to one of the steps.    *)
LEMMA RunEndsTypes ==
  ASSUME TypeInv, NEW i \in Ingesters, NEW o \in Outcomes, RunEnds(i, o),
         UNCHANGED <<corpus, edits, index, published, retrieval>>
  PROVE  TypeInv'
<1>1. TypeOK'
  BY DEF TypeInv, TypeOK, RunEnds, IngesterPCs, retrieval
<1> QED BY <1>1 DEF TypeInv, RunEnds

(* Types, where the run of a process goes on to its next step and nothing   *)
(* but where it is changes.                                                *)
LEMMA RunGoesOnTypes ==
  ASSUME TypeInv, NEW i \in Ingesters, NEW step \in IngesterPCs, RunGoesOn(i, step),
         UNCHANGED <<corpus, edits, retrieval>>,
         index' \subseteq Chunks, IsFiniteSet(index'), published' \in Fits \cup {Unfitted}
  PROVE  TypeInv'
<1>1. TypeOK'
  BY DEF TypeInv, TypeOK, RunGoesOn, retrieval
<1> QED BY <1>1 DEF TypeInv, RunGoesOn

(* What is left of a run is some of its steps. *)
LEMMA StepDoneTypes ==
  ASSUME TypeInv, NEW i \in Ingesters, NEW step, StepDone(i, step),
         UNCHANGED <<corpus, edits, index, published, retrieval>>
  PROVE  TypeInv'
<1> DEFINE left == job[i].left \ {step}
<1>1. /\ job' = [job EXCEPT ![i].left = left]
      /\ ipc' = [ipc EXCEPT ![i] = CASE "index" \in left    -> "open"
                                     [] "evaluate" \in left -> "evaluate"
                                     [] OTHER               -> "idle"]
      /\ outcome' = [outcome EXCEPT ![i] = IF left = {} THEN "accepted" ELSE @]
      /\ cache' = cache /\ runs' = runs
  BY DEF StepDone
<1>2. left \subseteq Steps
  BY DEF TypeInv, TypeOK
<1>3. job' \in [Ingesters -> [chunks : SUBSET Chunks, todo : SUBSET Documents,
                              fit : Fits \cup {Unfitted}, left : SUBSET Steps]]
  BY <1>1, <1>2 DEF TypeInv, TypeOK
<1>4. ipc' \in [Ingesters -> IngesterPCs] /\ outcome' \in [Ingesters -> Outcomes]
  BY <1>1 DEF TypeInv, TypeOK, IngesterPCs, Outcomes
<1>5. TypeOK'
  BY <1>1, <1>3, <1>4 DEF TypeInv, TypeOK, retrieval
<1>6. \A j \in Ingesters : job'[j].chunks = job[j].chunks
  BY <1>1 DEF TypeInv, TypeOK
<1> QED BY <1>1, <1>5, <1>6 DEF TypeInv

(* The fit of a run that embeds is its number, and that of a cached        *)
(* artifact was one.                                                       *)
LEMMA PrepareTypes ==
  ASSUME TypeInv, NEW i \in Ingesters, Prepare(i)
  PROVE  TypeInv'
<1> DEFINE batch == Batch(Loaded.files, Loaded.fit)
<1>1. /\ Loaded \in [files : Corpora, fit : Fits]
      /\ runs' = runs + 1 /\ runs' \in 0 .. MaxRuns
  <2>1. runs \in 0 .. MaxRuns /\ runs < MaxRuns /\ runs' = runs + 1
    BY DEF TypeInv, TypeOK, Prepare
  <2>2. runs + 1 \in Fits /\ runs' \in 0 .. MaxRuns
    BY <2>1, IngestionAssumption DEF Fits
  <2> QED BY <2>1, <2>2 DEF TypeInv, TypeOK, Loaded
<1>2. /\ cache' \in [files : Corpora, fit : Fits \cup {Unfitted}]
      /\ Present(cache'.files) # {} => cache'.fit \in Fits
  BY <1>1 DEF TypeInv, TypeOK, Prepare
<1>3. CASE Verified(Loaded.files)
  <2>1. batch \subseteq Chunks /\ DocumentsOf(batch) \subseteq Documents /\ IsFiniteSet(batch)
    BY <1>1, <1>3, BatchType
  <2>2. /\ job' = [job EXCEPT ![i] = [chunks |-> batch, todo |-> DocumentsOf(batch),
                                      fit |-> Loaded.fit, left |-> Steps]]
        /\ \E step \in {"open", "evaluate"} : ipc' = [ipc EXCEPT ![i] = step]
        /\ outcome' = [outcome EXCEPT ![i] = "running"]
    BY <1>3 DEF Prepare
  <2>3. TypeOK'
    BY <1>1, <1>2, <2>1, <2>2
    DEF TypeInv, TypeOK, Prepare, retrieval, IngesterPCs, Outcomes
  <2>4. \A j \in Ingesters : IsFiniteSet(job'[j].chunks)
    BY <2>1, <2>2 DEF TypeInv, TypeOK
  <2> QED BY <1>2, <2>3, <2>4 DEF TypeInv, Prepare
<1>4. CASE ~Verified(Loaded.files)
  <2>1. /\ job' = [job EXCEPT ![i] = NoJob] /\ ipc' = ipc
        /\ outcome' = [outcome EXCEPT ![i] = "rejected"]
    BY <1>4 DEF Prepare
  <2>2. TypeOK'
    BY <1>1, <1>2, <2>1 DEF TypeInv, TypeOK, Prepare, retrieval, NoJob, Outcomes, Steps
  <2>3. \A j \in Ingesters : IsFiniteSet(job'[j].chunks)
    BY <2>1, FS_EmptySet DEF TypeInv, TypeOK, NoJob
  <2> QED BY <1>2, <2>2, <2>3 DEF TypeInv, Prepare
<1> QED BY <1>3, <1>4

(* A deletion and an upsert leave finitely many chunks. *)
LEMMA DeleteDocumentTypes ==
  ASSUME TypeInv, NEW i \in Ingesters, DeleteDocument(i)
  PROVE  TypeInv'
<1>1. PICK d \in job[i].todo :
        /\ job' = [job EXCEPT ![i].todo = @ \ {d}]
        /\ index' \subseteq index
  BY DEF DeleteDocument, Of
<1>2. IsFiniteSet(index')
  BY <1>1, FS_Subset DEF TypeInv
<1>3. TypeOK'
  <2>1. job' \in [Ingesters -> [chunks : SUBSET Chunks, todo : SUBSET Documents,
                                fit : Fits \cup {Unfitted}, left : SUBSET Steps]]
    BY <1>1 DEF TypeInv, TypeOK
  <2>2. index' \subseteq Chunks
    BY <1>1 DEF TypeInv, TypeOK
  <2>3. UNCHANGED <<corpus, edits, published, cache, runs, ipc, outcome, rpc, total, result>>
    BY DEF DeleteDocument, retrieval
  <2> QED BY <2>1, <2>2, <2>3 DEF TypeInv, TypeOK
<1>4. \A j \in Ingesters : job'[j].chunks = job[j].chunks
  BY <1>1 DEF TypeInv, TypeOK
<1> QED BY <1>2, <1>3, <1>4 DEF TypeInv, DeleteDocument

(* Types, where a finite batch is written into a finite index, or the store *)
(* fails.                                                                  *)
LEMMA UpsertTypes ==
  ASSUME TypeInv, NEW i \in Ingesters, Upsert(i)
  PROVE  TypeInv'
<1> DEFINE stay == {c \in index : \A e \in job[i].chunks : ChunkId(c) # ChunkId(e)}
<1>1. CASE RunEnds(i, "failed") /\ UNCHANGED index
  BY <1>1, RunEndsTypes DEF Upsert, Outcomes
<1>2. CASE index' = stay \cup job[i].chunks /\ RunGoesOn(i, "truncate")
  <2>1. IsFiniteSet(stay) /\ IsFiniteSet(job[i].chunks)
    BY FS_Subset DEF TypeInv
  <2>2. IsFiniteSet(index')
    BY <1>2, <2>1, FS_Union
  <2>3. index' \subseteq Chunks
    BY <1>2 DEF TypeInv, TypeOK
  <2>4. published' \in Fits \cup {Unfitted}
    BY DEF TypeInv, TypeOK, Upsert
  <2> QED BY <1>2, <2>2, <2>3, <2>4, RunGoesOnTypes DEF Upsert, IngesterPCs
<1> QED BY <1>1, <1>2 DEF Upsert

(* A count is a number, and what a reader keeps is in the index. *)
LEMMA ReaderTypes ==
  ASSUME TypeInv, NEW r \in Readers, OpenReader(r) \/ CountIndex(r) \/ SearchIndex(r)
  PROVE  TypeInv'
<1>1. Cardinality(index) \in Nat
  BY FS_CardinalityType DEF TypeInv
<1>2. UNCHANGED <<corpus, edits, index, published, ingestion>>
  BY DEF OpenReader, CountIndex, SearchIndex, Retrieved
<1>3. ASSUME NEW kind \in {"none", "passages", "error", "raised"}, NEW passages \in SUBSET index,
             Retrieved(r, kind, passages)
      PROVE  TypeOK'
  BY <1>2, <1>3 DEF TypeInv, TypeOK, Retrieved, ingestion, ReaderPCs
<1>4. ASSUME rpc' \in [Readers -> ReaderPCs], total' \in [Readers -> Nat],
             result' = result \/ result' = [result EXCEPT ![r] = NoResult]
      PROVE  TypeOK'
  <2>1. NoResult \in [kind : {"none", "passages", "error", "raised"}, passages : SUBSET Chunks]
    BY DEF NoResult
  <2>2. result' \in [Readers -> [kind : {"none", "passages", "error", "raised"},
                                 passages : SUBSET Chunks]]
    BY <1>4, <2>1 DEF TypeInv, TypeOK
  <2> QED BY <1>2, <1>4, <2>2 DEF TypeInv, TypeOK, ingestion
<1>5. TypeOK'
  <2>1. CASE OpenReader(r)
    <3>1. ASSUME rpc' = [rpc EXCEPT ![r] = "count"], result' = [result EXCEPT ![r] = NoResult],
                 total' = total
          PROVE  TypeOK'
      BY <1>4, <3>1 DEF TypeInv, TypeOK, ReaderPCs
    <3> QED BY <1>3, <2>1, <3>1 DEF OpenReader
  <2>2. CASE CountIndex(r)
    BY <1>1, <1>3, <1>4, <2>2 DEF CountIndex, TypeInv, TypeOK, ReaderPCs
  <2>3. CASE SearchIndex(r)
    BY <1>3, <2>3 DEF SearchIndex
  <2> QED BY <2>1, <2>2, <2>3
<1> QED BY <1>2, <1>5 DEF TypeInv, ingestion

(* Every step keeps the types. *)
LEMMA NextTypes == TypeInv /\ [Next]_vars => TypeInv'
<1>1. SUFFICES ASSUME TypeInv, [Next]_vars PROVE TypeInv'
  OBVIOUS
<1> USE <1>1
<1>2. ASSUME NEW p \in Paths, Edit(p) PROVE TypeInv'
  <2>1. corpus' \in Corpora /\ edits' \in 0 .. MaxEdits
    BY <1>2, IngestionAssumption DEF TypeInv, TypeOK, Edit, Corpora
  <2> QED BY <1>2, <2>1 DEF TypeInv, TypeOK, Edit, ingestion, retrieval
<1>3. ASSUME NEW i \in Ingesters, Prepare(i) PROVE TypeInv'
  BY <1>3, PrepareTypes
<1>4. ASSUME NEW i \in Ingesters, RunStep(i) PROVE TypeInv'
  <2>1. /\ index \subseteq Chunks /\ IsFiniteSet(index) /\ published \in Fits \cup {Unfitted}
        /\ job[i].fit \in Fits \cup {Unfitted} /\ Unfitted \in Fits \cup {Unfitted}
    BY DEF TypeInv, TypeOK
  <2>2. CASE OpenIndex(i)
    BY <2>1, <2>2, RunEndsTypes, RunGoesOnTypes DEF OpenIndex, Outcomes, IngesterPCs
  <2>3. CASE DeleteDocument(i)
    BY <2>3, DeleteDocumentTypes
  <2>4. CASE Upsert(i)
    BY <2>4, UpsertTypes
  <2>5. CASE TruncateState(i)
    BY <2>1, <2>5, RunGoesOnTypes DEF TruncateState, IngesterPCs
  <2>6. CASE WriteState(i)
    BY <2>1, <2>6, RunGoesOnTypes DEF WriteState, IngesterPCs
  <2>7. CASE ReportIndex(i)
    BY <2>7, StepDoneTypes, RunEndsTypes DEF ReportIndex, Outcomes
  <2>8. CASE Evaluate(i)
    BY <2>8, StepDoneTypes, RunEndsTypes DEF Evaluate, Outcomes
  <2> QED BY <1>4, <2>2, <2>3, <2>4, <2>5, <2>6, <2>7, <2>8 DEF RunStep
<1>5. ASSUME NEW i \in Ingesters, Crash(i) PROVE TypeInv'
  BY <1>5, RunEndsTypes DEF Crash, Outcomes
<1>6. ASSUME NEW r \in Readers, OpenReader(r) \/ CountIndex(r) \/ SearchIndex(r)
      PROVE  TypeInv'
  BY <1>6, ReaderTypes
<1>7. CASE UNCHANGED vars
  BY <1>7 DEF vars, TypeInv, TypeOK
<1> QED BY <1>2, <1>3, <1>4, <1>5, <1>6, <1>7 DEF Next

(* The variables of the index and of both its layers have their types: in  *)
(* particular, whatever the corpus and the failures, the index stays       *)
(* finite and every vector in it is of the fit of some run.                *)
THEOREM IngestionType == Spec => []TypeOK
<1>1. TypeInv => TypeOK
  BY DEF TypeInv
<1> QED BY <1>1, InitTypes, NextTypes, PTL DEF Spec

-----------------------------------------------------------------------------
(* The index keeps PolicyIndexContract.                                    *)

(* Of a set made of whole editions, what there is of a document is one of  *)
(* its editions.                                                           *)
LEMMA OfIsEdition ==
  ASSUME NEW chunks \in SUBSET Chunks, Whole(chunks),
         NEW c \in chunks
  PROVE  Of(chunks, c.file.document) \in EditionsOf[<<c.file.document, c.fit>>]
<1>1. c.file \in Files /\ c.file.document \in Documents /\ c.fit \in Fits
  BY DEF Chunks, Files
<1>2. Of(chunks, c.file.document) = ChunksOf(c.file, c.fit)
  <2>1. ASSUME NEW e \in Of(chunks, c.file.document) PROVE e \in ChunksOf(c.file, c.fit)
    <3>1. e \in chunks /\ e.file = c.file /\ e.fit = c.fit
      BY <2>1 DEF Of, Whole
    <3> QED BY <3>1 DEF Chunks, ChunksOf
  <2>2. ASSUME NEW e \in ChunksOf(c.file, c.fit) PROVE e \in Of(chunks, c.file.document)
    BY <2>2 DEF Of, Whole, ChunksOf
  <2> QED BY <2>1, <2>2
<1>3. EditionsOf[<<c.file.document, c.fit>>]
        = {ChunksOf(f, c.fit) : f \in {g \in Files : g.document = c.file.document}}
  BY <1>1 DEF EditionsOf
<1> QED BY <1>1, <1>2, <1>3

(* An upsert issues the documents of its batch. *)
LEMMA UpsertIssues ==
  ASSUME Reconciled, IInv, TypeInv, NEW i \in Ingesters, Upsert(i), index' # index
  PROVE  \E fit \in Fits : Index!Issue(fit)
<1> DEFINE batch == job[i].chunks
<1>1. /\ DocumentsOf(index) \cap DocumentsOf(batch) = {}
      /\ index' = index \cup batch
  BY UpsertAdds
<1>2. PICK c \in batch : TRUE
  BY <1>1
<1>3. /\ batch \in SUBSET Chunks /\ Whole(batch)
      /\ c.fit \in Fits /\ \A e \in batch : e.fit = c.fit
  BY <1>2 DEF TypeInv, TypeOK, Chunks, IInv, JobsInv, JobInv
<1>4. ASSUME NEW d \in Documents, Of(index', d) # Of(index, d)
      PROVE  Of(index, d) = {} /\ Of(index', d) \in EditionsOf[<<d, c.fit>>]
  <2>1. PICK e \in batch : e.file.document = d
    BY <1>1, <1>4 DEF Of
  <2>2. Of(index, d) = {} /\ Of(index', d) = Of(batch, d)
    BY <1>1, <2>1 DEF Of, DocumentsOf
  <2> QED BY <1>3, <2>1, <2>2, OfIsEdition
<1>5. UNCHANGED result
  BY DEF Upsert, retrieval
<1> QED BY <1>3, <1>4, <1>5 DEF Index!Issue

(* What a reader keeps is on the shelf. *)
LEMMA ReaderAnswers ==
  ASSUME TypeInv, NEW r \in Readers, OpenReader(r) \/ CountIndex(r) \/ SearchIndex(r),
         result' # result
  PROVE  Index!Answer(r)
<1>1. index' = index
  BY DEF OpenReader, CountIndex, SearchIndex, Retrieved
<1>2. PICK answer : /\ result' = [result EXCEPT ![r] = answer]
                    /\ answer.passages \subseteq index
  <2>1. ASSUME NEW kind, NEW passages \in SUBSET index, Retrieved(r, kind, passages)
        PROVE  \E answer : /\ result' = [result EXCEPT ![r] = answer]
                           /\ answer.passages \subseteq index
    <3> DEFINE answer == [kind |-> kind, passages |-> passages]
    <3>1. result' = [result EXCEPT ![r] = answer] /\ answer.passages = passages
      BY <2>1 DEF Retrieved
    <3> HIDE DEF answer
    <3> QED BY <3>1
  <2>2. ASSUME result' = [result EXCEPT ![r] = NoResult]
        PROVE  \E answer : /\ result' = [result EXCEPT ![r] = answer]
                           /\ answer.passages \subseteq index
    <3>1. NoResult.passages = {}
      BY DEF NoResult
    <3> QED BY <2>2, <3>1
  <2> QED BY <2>1, <2>2 DEF OpenReader, CountIndex, SearchIndex
<1>3. index \subseteq UNION {Of(index, d) : d \in Documents}
  <2>1. ASSUME NEW c \in index PROVE c.file.document \in Documents /\ c \in Of(index, c.file.document)
    BY DEF TypeInv, TypeOK, Chunks, Files, Of
  <2> QED BY <2>1
<1>4. [s \in Readers |-> result'[s].passages]
        = [[s \in Readers |-> result[s].passages] EXCEPT ![r] = answer.passages]
  BY <1>2 DEF TypeInv, TypeOK
<1> QED BY <1>1, <1>2, <1>3, <1>4 DEF Index!Answer

(* A deletion withdraws its document, if there was anything of it. *)
LEMMA DeletionWithdraws ==
  ASSUME Reconciled, TypeInv, NEW i \in Ingesters, DeleteDocument(i), index' # index
  PROVE  \E d \in Documents : Index!Withdraw(d)
<1>1. PICK d \in job[i].todo : index' = index \ Of(index, d)
  BY DEF DeleteDocument, Reconciled
<1>2. d \in Documents
  BY DEF TypeInv, TypeOK
<1>3. Of(index, d) # {}
  BY <1>1
<1>4. \A e \in Documents : Of(index', e) = IF e = d THEN {} ELSE Of(index, e)
  BY <1>1 DEF Of
<1>5. UNCHANGED result
  BY DEF DeleteDocument, retrieval
<1> QED BY <1>2, <1>3, <1>4, <1>5 DEF Index!Withdraw

(* Every step of the pipeline and of the readers is one of the contract,   *)
(* or one that it does not see.                                            *)
LEMMA StepKeepsContract ==
  ASSUME Reconciled, IInv, TypeInv, [Next]_vars
  PROVE  [Index!Next]_(Index!vars)
<1>1. CASE UNCHANGED <<index, result>>
  BY <1>1 DEF Index!vars
<1>2. ASSUME NEW i \in Ingesters, DeleteDocument(i), index' # index PROVE Index!Next
  BY <1>2, DeletionWithdraws DEF Index!Next
<1>3. ASSUME NEW i \in Ingesters, Upsert(i), index' # index PROVE Index!Next
  BY <1>3, UpsertIssues DEF Index!Next
<1>4. ASSUME NEW r \in Readers, OpenReader(r) \/ CountIndex(r) \/ SearchIndex(r),
             result' # result
      PROVE  Index!Next
  BY <1>4, ReaderAnswers DEF Index!Next
<1>5. ASSUME NEW r \in Readers, OpenReader(r) \/ CountIndex(r) \/ SearchIndex(r)
      PROVE  index' = index
  BY <1>5 DEF OpenReader, CountIndex, SearchIndex, Retrieved
<1>6. ASSUME NEW i \in Ingesters, Prepare(i) \/ RunStep(i) \/ Crash(i)
      PROVE  result' = result /\ (index' # index => DeleteDocument(i) \/ Upsert(i))
  BY <1>6 DEF RunStep, Prepare, OpenIndex, DeleteDocument, Upsert, TruncateState, WriteState,
              ReportIndex, Evaluate, Crash, retrieval
<1>7. ASSUME NEW p \in Paths, Edit(p) PROVE UNCHANGED <<index, result>>
  BY <1>7 DEF Edit, retrieval
<1>8. CASE UNCHANGED vars
  BY <1>1, <1>8 DEF vars
<1> QED BY <1>1, <1>2, <1>3, <1>4, <1>5, <1>6, <1>7, <1>8 DEF Next

(* One ingestion process whose deletions succeed keeps the contract of the *)
(* index with any number of readers, whatever is edited, fails or dies: an *)
(* edition is withdrawn before the next one of its document, and issued    *)
(* whole, with all its batch and of one fit.                               *)
THEOREM IndexContractImplemented ==
  ASSUME Reconciled
  PROVE  Spec => IndexContractKept
<1>1. Init => Index!Init
  BY DEF Init, Index!Init, Of, NoResult
<1>2. IInv /\ TypeInv /\ [Next]_vars => [Index!Next]_(Index!vars)
  BY StepKeepsContract
<1> QED BY <1>1, <1>2, InvHolds, InitTypes, NextTypes, PTL
        DEF Spec, IndexContractKept, Index!Spec
=============================================================================
