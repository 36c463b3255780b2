-------------------------- MODULE PolicyIngestion --------------------------
(***************************************************************************)
(* The policy index and the two layers that share it: ingestion runs       *)
(* (ingestion/), which write it, and the runtime's retrievers              *)
(* (agent/retrieval/), which read it at any moment.  The corpus on disk is *)
(* edited at any moment too.                                               *)
(*                                                                         *)
(* A policy file is what the pipeline tells apart: its document, version,  *)
(* section headings and text, the number of chunks it is cut into, and     *)
(* whether strict verification lets it pass.  A chunk is its file, its     *)
(* ordinal and the fit of the embedder that gave its vector.  Scores are   *)
(* left out: a query may find any chunks.                                  *)
(*                                                                         *)
(* The store is Chroma, whose calls are taken to be atomic and its writes  *)
(* durable; the in-memory store is used by one process only.               *)
(***************************************************************************)
EXTENDS Naturals, FiniteSets

CONSTANTS Paths,          \* the paths of the corpus, in the order rglob is sorted
          Documents,      \* document ids, in their sorted order
          Versions,       \* version keys
          Headings,       \* what the headings of its sections can be
          Sizes,          \* how many chunks a file can be cut into
          Ingesters,      \* processes that run the pipeline
          Readers,        \* processes that retrieve
          TopK,           \* RetrievalSettings.top_k
          Orchestrated,   \* the ZenML pipeline rather than the local runner
          Unsound,        \* whether a file may be refused
          DeletesFail,    \* whether a deletion may raise
          StoreFails,     \* whether the store may be unavailable
          Crashes,        \* whether an ingestion process may die
          MaxEdits,       \* bound: edits of the corpus
          MaxRuns         \* bound: ingestion runs

ASSUME IngestionAssumption ==
  /\ Headings \subseteq Nat /\ Paths \subseteq Nat /\ Documents \subseteq Nat /\ Versions \subseteq Nat
  /\ Sizes \subseteq Nat \ {0}
  /\ TopK \in Nat /\ MaxEdits \in Nat /\ MaxRuns \in Nat
  /\ Orchestrated \in BOOLEAN /\ Unsound \in BOOLEAN
  /\ DeletesFail \in BOOLEAN /\ StoreFails \in BOOLEAN /\ Crashes \in BOOLEAN

(* rglob returns: the corpus is a directory. *)
ASSUME CorpusAssumption == IsFiniteSet(Paths)

VARIABLES
  corpus,      \* the files on disk, by path
  edits,       \* how often the corpus was edited: the text of a file is its edit
  cache,       \* the artifact of the last load step, in ZenML's store
  index,       \* the chunks in the vector store
  published,   \* the fit in the embedder's state file; Unfitted: none, or torn
  runs,        \* ingestion runs so far; a run that embeds is a fit of its own
  ipc,         \* where each ingestion process is
  job,         \* its last run: batch, fit, documents to delete, steps left
  outcome,     \* what its last run ended with
  rpc,         \* where each reader is
  total,       \* how many chunks it counted
  result       \* what its last retrieval returned

vars == <<corpus, edits, cache, index, published, runs, ipc, job, outcome, rpc, total, result>>
ingestion == <<cache, runs, ipc, job, outcome>>
retrieval == <<rpc, total, result>>

-----------------------------------------------------------------------------
Files == [document : Documents, version : Versions, headings : Headings,
          text : 0 .. MaxEdits, chunks : Sizes, sound : {TRUE, ~Unsound}]

(* No file, and one that parse_document cannot make a policy of. *)
NoFile == [document |-> 0, version |-> 0, headings |-> 0, text |-> 0, chunks |-> 0, sound |-> FALSE]
Malformed == [NoFile EXCEPT !.text = 1]

(* What can be found at a path. *)
Entries == Files \cup {NoFile} \cup (IF Unsound THEN {Malformed} ELSE {})
Corpora == [Paths -> Entries]

Unfitted == 0
Fits == 1 .. MaxRuns

Chunks == {c \in [file : Files, ordinal : Nat, fit : Fits] : c.ordinal \in 1 .. c.file.chunks}

(* make_chunk_id: the text is no part of it. *)
ChunkId(c) == <<c.file.document, c.file.version, c.ordinal, c.file.headings>>

(* Mutation: ordinals start at zero. *)
MutantChunksOf(file, fit) ==
  {[file |-> file, ordinal |-> o, fit |-> fit] : o \in 0 .. file.chunks - 1}

(* chunk_document and embed_documents. *)
ChunksOf(file, fit) ==
  {[file |-> file, ordinal |-> o, fit |-> fit] : o \in 1 .. file.chunks}

(* What load_documents reads. *)
Present(files) == {p \in Paths : files[p] # NoFile}

(* The file at q takes the place of the one at p: it is newer, or as new   *)
(* and loaded earlier.                                                     *)
Supersedes(files, q, p) ==
  /\ files[q].document = files[p].document
  /\ \/ files[q].version > files[p].version
     \/ files[q].version = files[p].version /\ q < p

(* Mutation: superseded files are reported and kept. *)
MutantNewest(files) == {files[p] : p \in Present(files)}

(* _check_recency: one file for each document. *)
Newest(files) ==
  {files[p] : p \in {q \in Present(files) : \A o \in Present(files) : ~Supersedes(files, o, q)}}

(* The steps before the index step let files pass: there is one, each can  *)
(* be parsed, and those that are kept hold no error.                       *)
Verified(files) ==
  /\ Present(files) # {}
  /\ \A p \in Paths : files[p] # Malformed
  /\ \A f \in Newest(files) : f.sound

(* Their product. *)
Batch(files, fit) == UNION {ChunksOf(f, fit) : f \in Newest(files)}

DocumentsOf(chunks) == {c.file.document : c \in chunks}
Of(chunks, d) == {c \in chunks : c.file.document = d}

NoCache == [files |-> [p \in Paths |-> NoFile], fit |-> Unfitted]
Steps == {"index", "evaluate"}
NoJob == [chunks |-> {}, todo |-> {}, fit |-> Unfitted, left |-> Steps]
NoResult == [kind |-> "none", passages |-> {}]

IngesterPCs == {"idle", "open", "reconcile", "truncate", "publish", "report", "evaluate"}
Outcomes == {"none", "running", "rejected", "unavailable", "failed", "crashed",
             "accepted", "refused"}
ReaderPCs == {"idle", "count", "search"}

-----------------------------------------------------------------------------
Init ==
  /\ corpus \in {files \in Corpora : \A p \in Paths : files[p] \in Files => files[p].text = 0}
  /\ edits = 0
  /\ cache = NoCache
  /\ index = {}
  /\ published = Unfitted
  /\ runs = 0
  /\ ipc = [i \in Ingesters |-> "idle"]
  /\ job = [i \in Ingesters |-> NoJob]
  /\ outcome = [i \in Ingesters |-> "none"]
  /\ rpc = [r \in Readers |-> "idle"]
  /\ total = [r \in Readers |-> 0]
  /\ result = [r \in Readers |-> NoResult]

(* Somebody adds, replaces or removes a policy file. *)
Edit(p) ==
  /\ edits < MaxEdits
  /\ edits' = edits + 1
  /\ \E f \in {g \in Entries : g \in Files => g.text = edits + 1} :
       corpus' = [corpus EXCEPT ![p] = f]
  /\ UNCHANGED <<index, published, ingestion, retrieval>>

(* What the load step hands on, and the fit of what is embedded from it:   *)
(* ZenML answers a cached step whose code and parameters are unchanged by  *)
(* the artifact of its last success.  The corpus is neither.               *)
Loaded ==
  IF Orchestrated /\ Present(cache.files) # {} THEN cache
  ELSE [files |-> corpus, fit |-> runs + 1]

(* load, parse, verify, chunk and embed: nothing outside the process       *)
(* changes until the index step.  It comes before the evaluation in the    *)
(* local runner, and in either order in the pipeline, where the two steps  *)
(* share inputs but neither takes the other's output.                      *)
Prepare(i) ==
  /\ ipc[i] = "idle"
  /\ runs < MaxRuns
  /\ runs' = runs + 1
  /\ cache' = IF Orchestrated /\ Present(Loaded.files) # {} THEN Loaded ELSE cache
  /\ IF Verified(Loaded.files)
       THEN LET batch == Batch(Loaded.files, Loaded.fit) IN
            /\ \E step \in {"open"} \cup (IF Orchestrated THEN {"evaluate"} ELSE {}) :
                 ipc' = [ipc EXCEPT ![i] = step]
            /\ job' = [job EXCEPT ![i] = [chunks |-> batch, todo |-> DocumentsOf(batch),
                                          fit |-> Loaded.fit, left |-> Steps]]
            /\ outcome' = [outcome EXCEPT ![i] = "running"]
       ELSE /\ job' = [job EXCEPT ![i] = NoJob]
            /\ outcome' = [outcome EXCEPT ![i] = "rejected"]
            /\ UNCHANGED ipc
  /\ UNCHANGED <<corpus, edits, index, published, retrieval>>

(* The run of i ends with o. *)
RunEnds(i, o) ==
  /\ ipc' = [ipc EXCEPT ![i] = "idle"]
  /\ outcome' = [outcome EXCEPT ![i] = o]
  /\ UNCHANGED <<cache, runs, job>>

(* The run of i goes on to step. *)
RunGoesOn(i, step) ==
  /\ ipc' = [ipc EXCEPT ![i] = step]
  /\ UNCHANGED <<cache, runs, job, outcome>>

(* Step is done, and what is left of the run follows. *)
StepDone(i, step) ==
  LET left == job[i].left \ {step} IN
  /\ job' = [job EXCEPT ![i].left = left]
  /\ ipc' = [ipc EXCEPT ![i] = CASE "index" \in left    -> "open"
                                 [] "evaluate" \in left -> "evaluate"
                                 [] OTHER               -> "idle"]
  /\ outcome' = [outcome EXCEPT ![i] = IF left = {} THEN "accepted" ELSE @]
  /\ UNCHANGED <<cache, runs>>

(* Mutation: the collection is created anew. *)
MutantOpenIndex(i) ==
  /\ ipc[i] = "open"
  /\ \/ RunGoesOn(i, "reconcile") /\ index' = {}
     \/ StoreFails /\ RunEnds(i, "unavailable") /\ UNCHANGED index
  /\ UNCHANGED <<corpus, edits, published, retrieval>>

(* index_chunks opens the store. *)
OpenIndex(i) ==
  /\ ipc[i] = "open"
  /\ \/ RunGoesOn(i, "reconcile")
     \/ StoreFails /\ RunEnds(i, "unavailable")
  /\ UNCHANGED <<corpus, edits, index, published, retrieval>>

(* Mutation: only the chunks that will be written again are deleted. *)
MutantDeleteDocument(i) ==
  /\ ipc[i] = "reconcile"
  /\ \E d \in job[i].todo :
       /\ \A e \in job[i].todo : d <= e
       /\ job' = [job EXCEPT ![i].todo = @ \ {d}]
       /\ index' = {c \in index : c.file.document = d
                                    => \A e \in job[i].chunks : ChunkId(c) # ChunkId(e)}
  /\ UNCHANGED <<corpus, edits, published, cache, runs, ipc, outcome, retrieval>>

(* One turn of the reconciliation loop: any exception of delete_document   *)
(* is passed over.                                                         *)
DeleteDocument(i) ==
  /\ ipc[i] = "reconcile"
  /\ \E d \in job[i].todo :
       /\ \A e \in job[i].todo : d <= e
       /\ job' = [job EXCEPT ![i].todo = @ \ {d}]
       /\ index' \in {index \ Of(index, d)} \cup (IF DeletesFail THEN {index} ELSE {})
  /\ UNCHANGED <<corpus, edits, published, cache, runs, ipc, outcome, retrieval>>

(* store.upsert: a chunk replaces the one with its id. *)
Upsert(i) ==
  /\ ipc[i] = "reconcile"
  /\ job[i].todo = {}
  /\ \/ /\ index' = {c \in index : \A e \in job[i].chunks : ChunkId(c) # ChunkId(e)}
                      \cup job[i].chunks
        /\ RunGoesOn(i, "truncate")
     \/ /\ StoreFails
        /\ RunEnds(i, "failed")
        /\ UNCHANGED index
  /\ UNCHANGED <<corpus, edits, published, retrieval>>

(* save_embedder_state: write_text truncates the file and then writes it.  *)
TruncateState(i) ==
  /\ ipc[i] = "truncate"
  /\ published' = Unfitted
  /\ RunGoesOn(i, "publish")
  /\ UNCHANGED <<corpus, edits, index, retrieval>>

WriteState(i) ==
  /\ ipc[i] = "publish"
  /\ published' = job[i].fit
  /\ RunGoesOn(i, "report")
  /\ UNCHANGED <<corpus, edits, index, retrieval>>

(* The index step reports the statistics of the store. *)
ReportIndex(i) ==
  /\ ipc[i] = "report"
  /\ \/ StepDone(i, "index")
     \/ StoreFails /\ RunEnds(i, "failed")
  /\ UNCHANGED <<corpus, edits, index, published, retrieval>>

(* Mutation: what the gate refuses is indexed and evaluated once more. *)
MutantEvaluate(i) ==
  /\ ipc[i] = "evaluate"
  /\ StepDone(i, "evaluate") \/ RunGoesOn(i, "open")
  /\ UNCHANGED <<corpus, edits, index, published, retrieval>>

(* evaluate_retrieval, on an in-memory copy of the batch: the gate accepts *)
(* it, or it is refused by an exception that ends the run.                 *)
Evaluate(i) ==
  /\ ipc[i] = "evaluate"
  /\ StepDone(i, "evaluate") \/ RunEnds(i, "refused")
  /\ UNCHANGED <<corpus, edits, index, published, retrieval>>

(* The process dies: what it wrote stays. *)
Crash(i) ==
  /\ Crashes
  /\ ipc[i] # "idle"
  /\ RunEnds(i, "crashed")
  /\ UNCHANGED <<corpus, edits, index, published, retrieval>>

-----------------------------------------------------------------------------
(* The retrieval of r ends. *)
Retrieved(r, kind, passages) ==
  /\ rpc' = [rpc EXCEPT ![r] = "idle"]
  /\ result' = [result EXCEPT ![r] = [kind |-> kind, passages |-> passages]]
  /\ total' = [total EXCEPT ![r] = 0]
  /\ UNCHANGED <<corpus, edits, index, published, ingestion>>

(* PolicyRetriever.from_settings.  A query's vector depends on the state   *)
(* file through its dimension only, so which fit a reader holds is left    *)
(* out.  The store's constructor raises when it cannot be opened.          *)
OpenReader(r) ==
  /\ rpc[r] = "idle"
  /\ \/ /\ rpc' = [rpc EXCEPT ![r] = "count"]
        /\ result' = [result EXCEPT ![r] = NoResult]
        /\ UNCHANGED <<total, corpus, edits, index, published, ingestion>>
     \/ StoreFails /\ Retrieved(r, "raised", {})

(* query: an index that is empty or out of reach is an error result. *)
CountIndex(r) ==
  /\ rpc[r] = "count"
  /\ IF index = {}
       THEN Retrieved(r, "error", {})
       ELSE \/ /\ rpc' = [rpc EXCEPT ![r] = "search"]
               /\ total' = [total EXCEPT ![r] = Cardinality(index)]
               /\ UNCHANGED <<result, corpus, edits, index, published, ingestion>>
            \/ StoreFails /\ Retrieved(r, "error", {})

(* The nearest chunks, of which those above the weak score are kept. *)
SearchIndex(r) ==
  /\ rpc[r] = "search"
  /\ \/ \E kept \in SUBSET index :
          /\ Cardinality(kept) <= TopK /\ Cardinality(kept) <= total[r]
          /\ Retrieved(r, "passages", kept)
     \/ StoreFails /\ Retrieved(r, "error", {})

-----------------------------------------------------------------------------
RunStep(i) ==
  \/ OpenIndex(i) \/ DeleteDocument(i) \/ Upsert(i)
  \/ TruncateState(i) \/ WriteState(i) \/ ReportIndex(i) \/ Evaluate(i)

Next ==
  \/ \E p \in Paths : Edit(p)
  \/ \E i \in Ingesters : Prepare(i) \/ RunStep(i) \/ Crash(i)
  \/ \E r \in Readers : OpenReader(r) \/ CountIndex(r) \/ SearchIndex(r)

Spec == Init /\ [][Next]_vars

(* A run is a synchronous sequence of steps of its process: once begun it  *)
(* goes on.  Nobody has to edit a policy, to ingest or to retrieve.        *)
FairSpec == Spec /\ \A i \in Ingesters : WF_vars(RunStep(i))

TypeOK ==
  /\ corpus \in Corpora
  /\ edits \in 0 .. MaxEdits
  /\ cache \in [files : Corpora, fit : Fits \cup {Unfitted}]
  /\ index \subseteq Chunks
  /\ published \in Fits \cup {Unfitted}
  /\ runs \in 0 .. MaxRuns
  /\ ipc \in [Ingesters -> IngesterPCs]
  /\ job \in [Ingesters -> [chunks : SUBSET Chunks, todo : SUBSET Documents,
                            fit : Fits \cup {Unfitted}, left : SUBSET Steps]]
  /\ outcome \in [Ingesters -> Outcomes]
  /\ rpc \in [Readers -> ReaderPCs]
  /\ total \in [Readers -> Nat]
  /\ result \in [Readers -> [kind : {"none", "passages", "error", "raised"},
                             passages : SUBSET Chunks]]
=============================================================================
