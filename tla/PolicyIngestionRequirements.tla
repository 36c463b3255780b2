-------------------- MODULE PolicyIngestionRequirements --------------------
(***************************************************************************)
(* What the policy index must be for the retrievers that read it while it  *)
(* is being written, and a statement of the repository's documents that the *)
(* pipeline does not keep.                                                 *)
(***************************************************************************)
EXTENDS PolicyIngestion

(* One ingestion process, whose deletions succeed: without either, two     *)
(* editions of a document can be in the index at once.                     *)
Reconciled == ~DeletesFail /\ \A i, j \in Ingesters : i = j

(* The index step of the last run of i is complete. *)
Indexed(i) == "index" \notin job[i].left

-----------------------------------------------------------------------------
(* The index holds the whole of one edition of a document, with vectors of *)
(* one fit, or nothing of it: whatever is renumbered, edited without a new *)
(* version, or interrupted, no orphan of an earlier edition survives the   *)
(* reconciliation of index_chunks.                                         *)
EditionsWhole ==
  \A c \in index :
    /\ ChunksOf(c.file, c.fit) \subseteq index
    /\ \A e \in Of(index, c.file.document) : e.file = c.file /\ e.fit = c.fit

(* No retrieval cites two editions of one document, however it is timed    *)
(* against the pipeline and against files that share a document id         *)
(* ("retaining two versions of the same policy is the failure mode that    *)
(* matters most here", _check_recency).                                    *)
CitationsOfOneEdition ==
  \A r \in Readers : \A c, e \in result[r].passages :
    c.file.document = e.file.document => c.file = e.file

(* A run whose index step is complete repairs whatever the runs before it  *)
(* left behind: each of its documents is in the index exactly as it was    *)
(* embedded, and the published state is that of the same fit.              *)
RunRepairs ==
  \A i \in Ingesters :
    Indexed(i) =>
      /\ published = job[i].fit
      /\ \A d \in DocumentsOf(job[i].chunks) : Of(index, d) = Of(job[i].chunks, d)

(* An identifier names one chunk, in the index and in what is about to be  *)
(* upserted, although a text is no part of it: however many processes      *)
(* ingest one document at once, whichever deletions fail, and however many *)
(* files share its version.                                                *)
IdsAreUnique ==
  \A chunks \in {index} \cup {job[i].chunks : i \in Ingesters} :
    \A c, e \in chunks : ChunkId(c) = ChunkId(e) => c = e

(* A document leaves the index only in a run that is about to write it     *)
(* again: no run takes away a policy it does not hold.                     *)
OnlyReplacedLeave ==
  [][\A d \in Documents :
       Of(index, d) # {} /\ Of(index', d) = {} =>
         \E i \in Ingesters : ipc[i] = "reconcile" /\ d \in DocumentsOf(job[i].chunks)]_vars

(* Where no deletion fails and one process ingests, readers have an index  *)
(* that keeps PolicyIndexContract, although every call of index_chunks is  *)
(* a step that they, a crash or an edit may come in between: an edition is *)
(* taken away before another of its document is there, and comes whole,    *)
(* with all its batch and of one fit; no edit of the corpus is seen.       *)
EditionsOf == [d \in Documents \X Fits |->
                 {ChunksOf(f, d[2]) : f \in {g \in Files : g.document = d[1]}}]

Index == INSTANCE PolicyIndexContract
           WITH Editions <- EditionsOf,
                shelf    <- [d \in Documents |-> Of(index, d)],
                found    <- [r \in Readers |-> result[r].passages]
IndexContractKept == Index!Spec

(* Under FairSpec: every run that begins ends, whichever step fails. *)
EveryRunEnds == \A i \in Ingesters : ipc[i] # "idle" ~> ipc[i] = "idle"

-----------------------------------------------------------------------------
(* What a document says and the code does not do.                          *)

(* policy_review.yaml: an ingestion run below the thresholds "fails        *)
(* instead of publishing a degraded index".                                *)
RefusedIsNotServed ==
  \A i \in Ingesters :
    ipc[i] = "idle" /\ outcome[i] = "refused" => index \cap job[i].chunks = {}
=============================================================================
