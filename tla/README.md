# A verification of the policy-review agent

The program is a human-in-the-loop assistant for company policy. Somebody submits a question; a
LangGraph graph retrieves policy evidence, drafts an assessment with a language model, classifies
the risk, and either finalises an answer or parks the request until a named reviewer decides. Every
step is checkpointed to SQLite, so that another process, days later, can resume it. An offline
pipeline ingests the policy corpus into the vector index that the retriever reads.

The central promise is a governance one: *no request that needs a review is ever released without
one*, and the checkpoint, the answer and the event log agree on who decided what. Whether that holds
when callers race, processes die between two steps, ids are submitted again and reviewers send
malformed input is what this project checks with TLC and, for any number of callers, threads and
reviewers, proves with TLAPS. Four further parts do the same for what surrounds it: the policy index,
which an ingestion run rewrites while retrievals read it; the chunker, whose pieces are what is cited;
the event log, which several processes append to; and the web page, through which reviewers see what they
decide.

## 1. Inventory

| Component | Code | State it keeps | Operations | Module |
|---|---|---|---|---|
| Request state | `agent/state.py` | the channels of one thread | `new_request_state`, the `operator.add` reducers, `max_risk` | `PolicyReviewGraph`, `RiskClassification` |
| Graph and routes | `agent/graph.py`, `agent/routes.py` | none | edges, `route_after_retrieval`, `route_after_risk` | `PolicyReviewGraph` |
| Nodes | `agent/nodes/*` | none; each returns a channel update | seven nodes | `PolicyReviewGraph` (updates), `PolicyReviewService` (steps, failures, events) |
| Human review | `agent/human_review/*` | none | `parse_review_input`, the interrupt payload | `ReviewInput`, `ReviewContract` |
| Risk classification | `agent/risk/*` | the taxonomy, constant | `match_signals`, `baseline_level`, `classify` | `RiskClassification` |
| Runtime service | `agent/runtime.py` | none between calls | `submit`, `resume`, read-only inspection | `PolicyReviewService`, `ReviewContract` |
| Checkpointing | `agent/checkpointing.py` | SQLite: checkpoints and pending writes per thread | opening a saver; the saver itself is LangGraph's | `PolicyReviewService` (external parts) |
| Event log | `agent/observability.py` | an append-only JSONL file | `emit`, `read`, `traced_node` | `EventLog`, `EventLogRequirements`, `AuditLog`; as a set of events in `PolicyReviewService` |
| Retriever | `agent/retrieval/retriever.py` | none | `from_settings`, `retrieve`, `grade` | its outcomes in `PolicyReviewGraph`, its steps in `PolicyIngestion` |
| Model client | `agent/llm/*` | none | `complete`, `extract_json` | the kinds of reply, in `RiskClassification` and `PolicyReviewGraph` |
| Vector store | `shared/vector_store.py`, `shared/schema.py` | chunks and vectors by id | `upsert`, `query`, `delete_document`, `count` | `PolicyIngestion`, `PolicyIndexContract` |
| Embeddings | `shared/embeddings.py` | the fitted state beside the index | `fit`, `embed`, save and load of the state | a fit and its publication, in `PolicyIngestion` |
| Ingestion | `ingestion/**` | the index it writes | load, parse, verify, chunk, embed, index, evaluate | `PolicyIngestion` |
| Chunker | `ingestion/chunking/section_chunker.py` | none | `_split_section` | `SectionChunking` |
| Web page, web server | `webapp/static/index.html`, `webapp/server.py` | a page: its last result, its panels and its controls; the server: none | ask, decide, reset, render; the handlers of submit and resume | `WebReview` |
| Command line | `cli/*` | none | one service call per command | a reviewer's `resume` in `WebReview`; `cli/ingest.py` is a thin adapter |

**How they interact.** `submit` and `resume` open the checkpoint database, compile the graph anew and
run it synchronously in the caller's thread. The only state two calls share is on disk: the
checkpoints of a thread, the event log and the policy index. There is no lock over a thread: two web
workers, or a command line and a web server, may run the same thread at once, each on its own copy of
the channels. The web server builds a service per request, so its handlers are just callers.

**What is hard here.**

- *Interleaving.* The checks of `resume` and the run that follows read two different snapshots; two
  runs on one thread save checkpoints over each other; the result mixes an output with a later snapshot.
- *Crash and recovery.* A process can die between any two nodes, and after a node's side effects
  (events) but before its checkpoint. Recovery is a later `resume`, which goes on from the pending
  node, whatever it is, and offers its reviewer input to the first node that asks.
- *Replay.* An interrupted node is executed again from its start on every resume, and each
  `interrupt()` in it is answered by position from the values the task was given so far.
- *Long sequences.* An id may be submitted again at any moment; the list channels append, the others
  are overwritten.
- *Partial failure.* The retriever and both model calls fail in several ways, some handled, some not. A
  record of the event log may be written in two parts. A review is applied to one of the four channels of a
  draft, and the answer and the record are composed of all four.
- *Late and lost answers.* A page's calls overlap, and each answer is rendered when it comes, whatever
  the page shows by then; a call whose answer was lost may still take effect.
- *Boundaries.* The cut loop of the chunker advances by a cut minus an overlap.

`PROJECT.json` lists each hazard at its line with the properties that would catch it, or says why none does.

**What makes each component correct.** Classifier: the model can raise the level, never lower it, and
a failure never lowers it either. Human review: nothing but an explicit, signed decision counts, and a
refusal has a reason. Graph: every path to an answer of a request that needs a review goes through the
gate; record, answer and status agree; a refused request states the reviewer's conclusion, and no other. Service: decisions are final, work before the gate is not
redone, calls return. Event log: an ending or decision in a checkpoint is explained by events emitted
before it; what is in the file stays there, and a torn line costs no event but those whose parts it holds.
Chunker: nothing of a section is left out, every piece fits, and the loops end. Page: a reviewer decides the request
that is on the screen, no answer stands beside a sign-off panel, and no control stays disabled. Index: it holds the whole of one edition of a document or nothing of it, whatever moment a reader
looks and wherever a run is cut off; a complete run repairs what the others left; a run takes no policy
away but to write it again.

## 2. Modules

```
RiskClassification   ReviewInput
            \          /
         PolicyReviewGraph ---------- PolicyReviewGraph_proofs
                 |                          |
        PolicyReviewService --------- PolicyReviewService_proofs
                 |                          |
      PolicyReviewRequirements ------ PolicyReviewRequirements_proofs
                 |
           MCPolicyReview   (*.cfg)

  PolicyReviewRequirements = INSTANCE => ReviewContract,  shown in PolicyReviewContract_proofs

  PolicyIngestion
         |
  PolicyIngestionRequirements   (*.cfg)
         |
  PolicyIngestion_proofs

  PolicyIngestionRequirements = INSTANCE => PolicyIndexContract

  SectionChunking -- MCSectionChunking, SectionChunking_proofs

  EventLog -- EventLogRequirements -- MCEventLog, EventLog_proofs
              EventLogRequirements = INSTANCE => AuditLog

  WebReview -- WebReview_proofs
```

**RiskClassification** is the classifier as a function of the set of levels of the matched signals and
the kind of the model's reply. The kinds are those the code treats differently: a level, an
`LLMError`, text without a JSON object, broken JSON, an unknown level, and a known level whose
`signals` cannot be iterated over (which escapes the handler). The three settings are constants.

**ReviewInput** is `parse_review_input`: whether the input is a non-empty mapping, how the decision is
spelled (every alias, a missing one, a free text), who signs, and whether there is feedback. A field is what
`str()` makes of it, so that a null `reviewer_id` signs as `NullReviewer`, the text `None`, and is accepted.

**PolicyReviewGraph** holds the channels (`Values`, one field per channel that any property tells
apart) and one operator per node, from channels to channels, including the route entry `traced_node`
adds. `Successor` is the edge table with both conditional routes. Data are abstracted: evidence is its
grade; a draft is the kind of statement it makes (an assessment, no evidence, a model failure, a
superseded draft ...) and, in channels of their own as in the code, where its basis, its conditions and its
uncertainty come from (`Origins`: the model, the citations of the passages, a weak grade, the reason why there is no
assessment). `ApplyFeedback` replaces the statement and leaves the other three; a final answer
(`ComposeAnswer`) is the four of them with the approval line, and the record has them too. `errors` is the
set of nodes that reported; `route_history` stays a sequence, because order and repetition matter.

**PolicyReviewService** is the state machine.

| Variable | Code |
|---|---|
| `checkpoint[t]` | the latest checkpoint of thread `t`: channels, next node, pending interrupt, resume values already persisted for the interrupted task |
| `log` | the governance events emitted so far (a set; an event keeps its name, thread and the fields the properties use) |
| `pc[c]`, `call[c]`, `run[c]` | where caller `c`'s call is, its arguments, and the run's own copy of the channels |
| `result[c]` | what the last call returned or raised |
| `submissions[t]` | a counter for the bound `MaxSubmissions` only |

| Action | Code |
|---|---|
| `Submit` | `submit` up to `graph.invoke`: event, and the input checkpoint that overwrites the thread, wherever it is |
| `ResumeRefused`, `ResumeChecked` | `resume` up to `graph.invoke`: its three refusals, or the event |
| `Invoke` | `graph.invoke(Command(resume=...))` loads the latest checkpoint, which may not be the one checked |
| `Retrieve`, `Draft`, `ClassifyNode`, `ApplyReview`, `Finalize`, `Fail` | the bodies of the nodes; `Draft` and `ClassifyNode` can end in an uncaught `TypeError`, `Finalize` in `HumanReviewBypassError` |
| `ReviewSuspends`, `ReviewDecided`, `ReviewRaises` | the three ways `interrupt_for_review` can go, given the values its `interrupt()` calls are answered with |
| `Commit` | the checkpoint saved after a node |
| `Answer` | `_result` |
| `Crash` | the process dies, or the database fails: local state is lost, disk stays |

A node's body and its commit are two steps, since the code emits events in the body and a process can
die in between. A run that no longer holds the latest checkpoint (`run[c].latest`) writes its
interrupt rows beside the checkpoint it does hold, where nobody sees them.

LangGraph and its SQLite saver are not in the repository. What the model says of them follows the way
the code and its tests use them, and is marked external in `PROJECT.json`: one checkpoint per node, an
interrupt row and resume values per task, values answered by position, `Command(resume=...)` offered to
the first node executed, no checkpoint for a node that raises. Where releases differ (whether a failed
task's resume values are kept) both outcomes are allowed.

**PolicyReviewRequirements** states the properties; **MCPolicyReview** gives values to the constants a
configuration file cannot write; the `_proofs` modules are described in section 5.

**ReviewContract** is the abstract service: one record per request id, with no graph, checkpoint, call or
model. A case is opened by a submission, then held at the gate or cleared; a case that is mandatory (its
submitter asked for a review, or the deterministic level is high) is never cleared; it is decided at the
gate only, by somebody; it ends once, as it was decided; and what it gives out states the conclusion of the
assistant only if it is released, that of the reviewer if it is refused, or is a notice that takes no position.
That is the first paragraph of the answer. Of the conditions, the basis and the uncertainty below it the contract
says nothing, because a refused answer still has those of the assistant (section 4).
`PolicyReviewRequirements` maps each checkpoint to a case (`CaseOf`: the stage is that of
the node about to run) and states `ContractKept`. The contract is one of requests whose calls do not
overlap (`SerialSpec`): with two calls on one thread a run may save a checkpoint over a later one, and
the case goes back. Nothing in the code forces calls to be serial; what survives their overlapping is what
the invariants of `concurrent_review` say.

**PolicyIngestion** is the index with the processes that write and read it. It shares no state with the
service: the service sees the index through the outcomes of `RetrievePolicy` only, any of which the
readers here can produce.

| Variable | Code |
|---|---|
| `corpus`, `edits` | the files of `corpus_dir`, in `rglob`'s sorted order; how often they were edited |
| `cache` | the artifact the ZenML pipeline keeps of the load step |
| `index` | the Chroma collection: chunks with the fit of their vectors |
| `published` | the fit in the state file beside it |
| `ipc[i]`, `job[i]`, `outcome[i]` | where an ingestion process is; the batch, its fit, the documents still to delete and the steps left of its last run; how that ended |
| `rpc[r]`, `total[r]`, `result[r]` | where a retrieval is, the count it read, and what the last one returned |
| `runs` | a counter: a run that embeds is a fit of its own |

| Action | Code |
|---|---|
| `Edit` | somebody adds, replaces or removes a file (external) |
| `Prepare` | load (or the cached load), parse, verify, chunk, embed; nothing shared changes before the index step |
| `OpenIndex`, `DeleteDocument`, `Upsert`, `TruncateState`, `WriteState`, `ReportIndex` | `index_chunks` call by call; `write_text` truncates before it writes |
| `Evaluate` | `evaluate_retrieval` on its own copy of the batch: the gate accepts or raises |
| `Crash` | the process dies; the store and the file keep what they have |
| `OpenReader`, `CountIndex`, `SearchIndex` | `from_settings`, and the two calls of `query` |

A file is its document, version, section headings, text, number of chunks and soundness; what makes a
text sound, how it is cut and what its vectors are is left out. An edit may change the text without a
new version, rename its sections or change the number of chunks, so the identifiers of two editions
overlap in every way `make_chunk_id` allows. Chroma is external: its calls are taken to be atomic and
its writes durable. ZenML is external too: a cached step whose code and parameters are unchanged is
answered by its last artifact, and the index and evaluation steps, neither of which takes the other's
output, come in either order, one at a time; a refused evaluation ends the run.

**PolicyIndexContract** is the abstract index: for each document a shelf with the passages of one edition, or with
nothing, and for each reader what its last answer was made of. A document is withdrawn by itself; documents of which
nothing is there are issued together, whole and of one fit, and never written over another edition; an answer is
taken from one state of the shelf. `PolicyIngestionRequirements` maps the shelf of a document to its chunks in the
index, so that a part of an edition, or two editions, would be no state of the contract. Preparation, opening, the state file,
evaluation, edits, failures and crashes are steps it does not see.

**SectionChunking** is `_split_section`. Every string of the algorithm is an interval of the body, because
tail, line ends and next paragraph are consecutive in it: `Pack`, `Flush` and `LastPart` are the
first loop, `Cut` and `Keep` the second, `IsCut` is `rfind` with its two bounds, `Stripped` and `Trimmed`
the calls of `strip`. The body is taken in normal form (no more than two line ends in a row, no blanks around
them), which the `split`, `strip` and `join` of the code bring about; a property of what is "lost" is about
ink only. `MCSectionChunking` enumerates every body of up to ten characters.

**EventLog** is `EventLog.emit` and `.read` of any number of threads and processes.

| Variable | Code |
|---|---|
| `file` | what was appended to the file, in order: whole records, or the two parts of one that a short write has split |
| `emitting[w]`, `made` | the record a thread is emitting, and whether its first part is written; how many were made (bound) |
| `lock[p]` | `_LOCK`, of which every process has its own |
| `returned` | the records whose `emit` has returned |
| `reading[r]` | a call of `read`: its thread id, its position, what it has found, the length of the file when it began |

`Emit` takes the lock; `WriteFirst`, `WriteLast` and `Raise` are the append; `StartRead`, `ReadLine` and
`EndRead` the loop of `read`, which passes over a line that does not parse. A record is one raw write
(CPython's buffered text file flushes it at once when it is closed) and POSIX appends it as a whole, so that a
record is torn by a short write only; Windows, where an append is not atomic across processes, is
outside the model. The first part of a split record is never taken to be a record by itself.
**AuditLog** is what the file promises: entries are added at the end, never changed, never twice; the
refinement mapping `Entries` picks the lines that parse. **EventLogRequirements** states this and the
properties of reads.

**WebReview** is the script of the page, the handlers of submit and resume, and reviewers at the command line.

| Variable | Code |
|---|---|
| `page[p]` | `current`; whose sign-off panel is drawn (`gateWrap`) and which call has disabled its buttons; whether Submit is disabled; what the answer panel shows |
| `calls[k]` | each `post`, or command: who made it, what it asks, what its caller saw, how far the server is with it, its answer, and whether the caller still waits |
| `cases[t]` | what the server has of a request: its stage, whether it was parked, how many inputs it refused |

| Action | Code |
|---|---|
| `Ask`, `Decide`, `Reset` | `doAsk`, `doResume` up to their `await`; the reset button |
| `CommandResume` | `cli.review resume` |
| `SubmitEnds` | the handler of submit, in one step: nobody else knows the id yet |
| `ResumeChecks`, `ResumeLoads`, `ResumeDecides`, `ResumeRefuses` | the handler of resume at the grain where calls on one request interfere: the checks, the load of the checkpoint, the commit |
| `Break` | a handler raises, or the server dies, before it commits anything |
| `AskReturns`, `DecideReturns` | `render`, `catch` and `finally`, for an answer, an error, or a connection that is lost while the server goes on |

A call overtakes any other. What the node at the gate does with inputs that are refused is in
`Takes` and `ResumeRefuses`; it is the same as in `PolicyReviewService`, where it is checked in detail. Ids of new
requests are fresh (`uuid4`); a command line that names an existing id with `--request-id` is left to `PolicyReviewService`.

## 3. Runs

The runs of the service are instances of `MCPolicyReview`.

| Run | Instance | Checks | Shows |
|---|---|---|---|
| `lifecycle` | 1 caller, 2 submissions of one id, 2 questions, crashes; calls on the thread do not overlap (`SerialSpec`) | `GraphInvariant`, `NothingReleasedWhileParked`, `DecisionOfThisSubmission`, `BypassUnreachable`, `AnswerOrInterrupt`, `DecisionIsFinal`, `ReviewedWorkPreserved`, `ContractKept` | wherever the process dies, every checkpoint is what the nodes before it can have left; recovery redoes nothing; no review, answer or record of an earlier request leaks into a later one; what a call returns is a request for a review, or the status and answer of an ending, and no mixture; the service implements `ReviewContract` |
| `concurrent_review` | 2 callers, 1 submission, disagreeing reviewers, crashes | `NoUnreviewedRelease`, `RefusalReplacesConclusion`, `AuditTrail` | racing reviewers cannot release an unreviewed request; a refused one states the conclusion of the decision that stands, in answer and record; and the surviving checkpoint is always explained by the log |
| `settled` | 1 caller, 3 questions, every retrieval outcome and every reply that does not end a call, six reviewer inputs, fairness, no crash | `TypeOK`, `ModelNeverLowersRisk`, `ReviewerDecisionGoverns`, `EveryCallReturns`, `SubmissionSettles` | no reply lowers the risk; without a crash a resume returns what its input asked for, calls return, requests end or are parked |

Those of the index are instances of `PolicyIngestionRequirements`.

| Run | Instance | Checks | Shows |
|---|---|---|---|
| `ingestion` | 1 process, 2 runs, 1 edit, 1 reader; 2 paths, documents, versions and sizes; crashes and store failures | `TypeOK`, `EditionsWhole`, `CitationsOfOneEdition`, `RunRepairs`, `OnlyReplacedLeave`, `IndexContractKept` | no reader, however timed, sees parts of an edition or two editions; a complete run repairs an interrupted one; nothing leaves the index but to be written again; `PolicyIndexContract` is implemented |
| `ingestion_ends` | 2 processes, orchestrated, refused files, failing deletions, store failures | `IdsAreUnique`, `EveryRunEnds` | two processes may leave two editions of a document, but never two chunks with one identifier; every run ends, whichever step fails and in either order of the last two |

The rest have an instance of their own.

| Run | Instance | Checks | Shows |
|---|---|---|---|
| `chunking` | every body of up to 10 characters, a maximum of 6, an overlap of 3; fairness | `TypeOK`, `NothingLost`, `PiecesFit`, `InReadingOrder`, `CutsShorten`, `Terminates` | no text is left out where parts meet, at a cut or in the overlap; pieces fit, come in reading order and do not repeat; with an overlap of half of the maximum the cut loop still ends |
| `event_log` | 2 threads of one process and 1 of another, 2 thread ids, 3 records, 1 reader; short writes, exceptions, deaths | `TypeOK`, `ReadsAreFaithful`, `ReadsAreComplete`, `LossIsExplained`, `LogKept` | the file implements `AuditLog`; a read misses nothing of its thread that was in the log when it began; an event is lost only to a split write, of itself or of a neighbour of another process or of one that was left unfinished |
| `web_client` | 1 page, a command line, 2 requests, 4 calls; handlers that raise, lost connections | `TypeOK`, `GateIsCurrent`, `NoAnswerBesideGate`, `DecidedAsSeen`, `DisabledWhileWaiting` | whatever answers come late or not at all, a decision is sent for the request on the screen, and what is recorded or shown as decided was given in by somebody who saw that request |

Four more runs each check one statement of the repository's documents that the code does not keep
(section 4).

**Bounds.** In the service, threads share nothing in the code but the files, and no property relates two of them, so
one thread is enough. Two callers are needed for every race between a check and its use or between two
checkpoints; a third only adds another loser. Two submissions make an id inherit from an earlier
request; `DecisionOfThisSubmission` and the channels' overwriting do not look further back. The two questions cover a
baseline the model is asked about and one it is not (a third, in `settled` and some violation runs, matches
nothing). `log` and `errors` are sets, so the only unbounded data is `route_history`, which grows with
submissions and with concurrent runs only through saved checkpoints, and is bounded with them; resume
values are bounded because the gate consumes at most two. An assessment of every combination of parts is in
`settled`; the other runs have one with all of them, since no guard or route reads a part. `MaxSubmissions` is the
only bound in a guard.

For the chunker, ten characters are enough for two paragraphs that do not fit together, a tail between
them, and a part that is cut twice; a maximum of 6 has a first and a second half in which a space may be,
and an overlap of 3 is the largest of which `CutsShorten` speaks. For the log, three writers have a lock
they share and one they do not; three records are two neighbours in a line and one that follows. For the web,
a page shares no request with another page (no id leaves it but through a reader of the result, who is the command
line), so that one page is enough; four calls are two submissions and two decisions of one request,
or one submission and three decisions, two of which are refused. `MaxRecords` and `MaxCalls` are bounds in
guards; `chunking` has none.

For the index, two paths that may hold one document are what `_check_recency` has to decide between,
and two documents what a run can hold one and lack the other of. Two runs make an edition replace
another, and one run repair another that was interrupted. Two sizes renumber, two versions change
identifiers (as two headings would, which the runs leave at one), and an edit changes the text under the
same identifiers.
`MaxEdits` and `MaxRuns` are the bounds in guards.

**Deadlock** is checked wherever there is a caller or a reader, who can always make a call. Of the index, in the runs
without a reader nothing is left to do once the runs are used up, and the check is off; it is off too where
the function has returned (`chunking`), and where nobody has to emit, read, ask or decide (`event_log`, `web_client`).

**Fairness** (`FairSpec`, run `settled`): weak fairness of `Proceed(c)`, the next step of a call in
progress. A call is a synchronous function; once entered it runs until it returns. Model calls and
retrievals return or raise, as the client has a timeout. Nobody is obliged to make a call, so a parked
request may stay parked. `settled` excludes crashes and the malformed replies of section 4 because
`SubmissionSettles` is false with them: a thread whose run died waits for somebody to resume it.
Likewise `ReviewerDecisionGoverns` is false with crashes (section 4), and also where a malformed reply ends the
run of a call or calls overlap (section 5).
`SectionChunking!FairSpec` (run `chunking`) is weak fairness of the next step of the function.
`PolicyIngestion!FairSpec` (run `ingestion_ends`) is weak fairness of `RunStep(i)`: a run is a
synchronous sequence of steps of its process. Nobody has to edit, ingest or retrieve. A process that
dies ends its run by dying, so crashes are left out of that run.

## 4. Where the code and its documents disagree

| Run | Statement | What the code does |
|---|---|---|
| `v_malformed_input` | README: malformed input leaves the request parked and it "interrupts again" | a second malformed input raises out of the node and out of `resume` |
| `v_model_failure` | `draft_assessment`: "A model failure must not become an answer" | a low-risk request whose model call failed ends as `completed` with the failure text |
| `v_refused_assessment` | `apply_feedback`: a refusal's feedback "replaces the assistant's conclusion rather than being appended as a caveat", and the assessment "is superseded" | only the statement is replaced: the answer of a refused request goes on with the assistant's conditions, policy basis and uncertainty, and its record has them (`finalize_decision.py:101-111`) |
| `v_degraded_index` | `policy_review.yaml`: a run below the thresholds "fails instead of publishing a degraded index" | the index is published before the gate, and stays |

None of those of the service breaks the governance gate, which is what the theorems below say: a refused request
is not approved and does not say that it is, whatever else its answer contains.

The models have more that a reader of the documents may not expect, which no run states as a property:

- A reply to the classifier with a known level and `signals` that cannot be iterated over raises `TypeError`
  (`classifier.py:139`), which is not caught at `classifier.py:77`: the call ends with it and the thread stays at
  `classify_risk`, although "Any failure in step 2 escalates rather than degrades" (`classifier.py:9`). An
  assessment whose `basis` or `conditions` cannot be iterated over ends its call likewise (`draft_assessment.py:75,84`).
- A null `reviewer_id` is not an anonymous sign-off but one by a reviewer called `None`, and a null `feedback` is a
  reason (`decision.py:88,95`). Callers of the Python API only can send one: the web server and the command line send text.
- `resume` refuses a thread only when it has neither an interrupt nor a next node (`runtime.py:144`), so that a thread
  whose run died before the gate, or is still going, is resumed and goes on, although `NotAwaitingReview` is
  described as raised "on a thread that is not paused". Its decision is not taken for that of a gate
  which it has not met: see `ContractKept`.
- After a crash between the gate and the end, a resume logs its own decision, is asked nothing, and
  returns the outcome of the earlier one: `ReviewerDecisionGoverns` is false with crashes.

- The route of a resubmitted id holds the nodes of both submissions, since `route_history` is appended to.
- With a concurrent run that parks the thread between the two reads, the result of `submit` has a final
  answer and an interrupt payload, although its docstring promises "either a final answer or a pending interrupt"
  (`runtime.py:105`): `AnswerOrInterrupt` is false of `Spec` with two callers and two submissions.
- A store that cannot be opened raises from `from_settings`, outside the `try` of `retrieve`.
- Any failure of a deletion is passed over, and old chunks stay beside the new ones: with `DeletesFail`
  both `EditionsWhole` and `CitationsOfOneEdition` are false.
- A policy whose file was removed stays in the index, with vectors of an earlier fit than the published state.
- The load step of the pipeline is cached by the path of the corpus: an edited corpus may not be read again.
- A paragraph that fits by itself may still be cut, when the tail of the part before it is put in front; a part
  shorter than the overlap is indexed twice, in its own piece and as the beginning of the next. With an overlap of more than half of the maximum the cut
  loop need not end, and a piece may end before the one it follows (of a maximum of 12 and an overlap of 9, for
  one); with one of at least the maximum less 2 pieces may be equal. No
  setting is checked against that; the values shipped (1400 and 160) are far from it.
- A read that meets the end of the file in the middle of a line may find an event that a later read does
  not, once another process has appended to that line.
- The page never asks what became of a request: a panel stays drawn when somebody else has decided, and a
  click on it is answered by 409. After a reset, another question or a lost answer the id of a parked request
  is lost to the page; the command line can still resume it.
- After a lost connection the server may still commit. The buttons are enabled again, and a second decision
  overlaps the first: either may be the one that stands.
- The audit panel may show the events of another request than the result beside it, and the text of an error may be put into
  the panel of a request that was drawn meanwhile (neither is in the model).

## 5. Proofs

`PolicyReviewGraph_proofs` shows that every node keeps the channels well formed, and
`ClassifyNeverLowers`: for all settings, signals and replies the level returned is at least the
deterministic one. `PolicyReviewService_proofs` proves `TypeCorrect`, and
`PolicyReviewRequirements_proofs` proves `GraphCorrect` (`GraphInvariant`), `GuardNeverFires`
(`BypassUnreachable`), `ReleaseIsReviewed` (`NoUnreviewedRelease`), `RefusalIsReconciled`
(`RefusalReplacesConclusion`), `RiskNeverLowered` (`ModelNeverLowersRisk`), `LogExplains` (`AuditTrail`),
`ReviewIsItsOwn` (`DecisionOfThisSubmission`) and `ParkedIsUnreleased` (`NothingReleasedWhileParked`), all of `Spec`.

*Assumptions.* Only the named ones on the constants: the settings are Booleans
(`RiskSettingsAssumption`), a marker is not a reviewer or a thread and `None` is a name to sign with (`ReviewersAssumption`,
`NoThreadAssumption`), no question is named like the absence of one (`NoQuestionAssumption`), signals have a level other than low (`QuestionsAssumption`), and the outcomes an instance allows are
among those modelled (`InstanceAssumption`). Callers, threads, reviewers and questions are arbitrary
sets; crashes may be allowed or not; the number of submissions is any natural number.

*Argument.* `TypeOK` is not inductive: a step of a call reads the checkpoint of its thread, so
`CallOnThread` (a call in progress is on a thread) is added, giving `TypeInv`. For the rest the
inductive invariant is `ReviewInv`: `TypeInv`; every checkpoint and every run's copy is `Coherent` with
its next node; an interrupt row is pending at the gate only; a run in a node that still holds the
latest checkpoint is where that checkpoint says (`HoldsLatest`, without which a late interrupt row could
be written beside a checkpoint further on); and no call has ended with the bypass exception.
`Coherent(v, node)` lists, node by node, which channels have been written and how they agree: the four of
the draft are empty before `draft_assessment` and fit each other after it (`Undrafted`, `Drafted`), none is an
assessment without evidence (`Grounded`), and a review replaces one of them (`DraftReconciled`). There is
one lemma per node: from channels coherent with the node, its update is coherent with the successor the
routes choose. The lemma on `finalize_decision` needs that route and guard agree on when a review is
required, the lemma on `classify_risk` that the level is not lowered. The steps of the service then only move
coherent channels between run and checkpoint. The safety theorems follow from the `END` case of
`Coherent`: a status is `completed` or `rejected_by_reviewer` at the end only (`SettledAtEnd`).

The last three rest on `TrailInv`, which adds to `ReviewInv` what the log says of every checkpoint and
every run's copy (`Trail`): a decision was recorded and a resume of its thread spells it, an ending was logged
with its status, and the route has a first node since the last submission. It is about runs as well as
checkpoints because events come first: what a node emits explains the channels that its commit saves later,
if it saves them at all. And it is about inputs, because the gate reads an input long after `resume` announced it:
whatever a run offers, or a checkpoint has of earlier offers, was announced. Nothing leaves the log, so
that a step of one caller only has to show this of its own run and checkpoint.

`PolicyIngestion_proofs` proves of the index, from `IngestionAssumption` (paths, documents and versions
are ordered like numbers, a parsed file has at least one chunk) and for any corpus, edits, runs, readers,
crashes and store failures: `ReplacedOnlyLeave` (`OnlyReplacedLeave`) for any number of processes and
with failing deletions, and, under `Reconciled` (one ingestion process, whose deletions succeed),
`IndexStaysWhole` (`EditionsWhole`), `CitationsStayWhole` (`CitationsOfOneEdition`) and
`CompleteRunRepairs` (`RunRepairs`). `Reconciled` is needed: a failing deletion leaves the old edition, and two processes can both delete before either
upserts.

*Argument.* That the index is whole is not inductive: it depends on what the run in progress will add.
`JobsInv` says that a batch is whole, which rests on `NewestIsUnique` (recency keeps one file of each
document, ties included) and `BatchIsWhole`, and that a run which has yet to open the store still has
all its documents to delete. `IndexInv` says that during the reconciliation the index holds nothing of
the batch's documents but of those still to delete, so that the upsert meets no identifier of its own
and adds whole editions (`UnionIsWhole`), and that from then on index and batch agree on them. A
deletion takes whole documents (`DeletionKeepsWhole`). What a retrieval returns comes from one state of
the index, so that it inherits the property at the time and keeps it.

From the same invariant `IndexContractImplemented` shows that every step is one of `PolicyIndexContract`
(`IndexContractKept`), or none: a deletion withdraws its document (`DeletionWithdraws`), an upsert issues its batch
(`UpsertIssues`: nothing of the batch is in the index, what is added of a document is one of its editions, and a batch
is of one fit), a search answers from the index as it is (`ReaderAnswers`).

Two theorems need neither `Reconciled` nor its invariant. `IdentifiersAreUnique` (`IdsAreUnique`), for any number of
processes and failing deletions: a batch is made of one edition of each document, so that its identifiers
differ, and an upsert replaces whatever has one of them. `IngestionType` (`TypeOK`): a reader's count is a number because the index
is finite, and it is finite because every batch is (`BatchIsFinite`), for which the corpus has to be
(`CorpusAssumption`: `rglob` returns); the fit of an artifact in the cache is that of a run (`TypeInv`).

`PolicyReviewContract_proofs` proves, of `SerialSpec`, `ContractImplemented` (`ContractKept`: the initial state
maps to the contract's, and every step of the service to one of the contract's or to none),
`DecisionStands` (`DecisionIsFinal`), `WorkStands` (`ReviewedWorkPreserved`), `ResultsAreWhole` (`AnswerOrInterrupt`) and
`InputGoverns` (`ReviewerDecisionGoverns`), under the assumptions above; the last also under `WellBehaved`.

*Argument.* What serial calls add to `ReviewInv` is that the run of a call still has the checkpoint it
loaded: the latest one, with the same channels and the same next node until the node's body
has run (`SerialInvariant`). A commit is then the only step that changes a case, and it changes it from the node that ran to that node's
successor: one lemma per node shows that this is the step of the contract with the same name. That the contract is
worth implementing is `ContractGoverns`: of it alone it follows that a mandatory case is released with the approval of a
reviewer only, that a refused one was ruled against by a reviewer and states that conclusion, and that the
conclusion of the assistant is stated by released cases only.

For `ResultsAreWhole`, `WholeInv` follows a run: it ends at the end of the graph, where status and answer are
written, or at the gate with its interrupt, where they are not, and in a serial call the snapshot read
afterwards is that of its own checkpoint (`RunWhole`). With calls that overlap it need not be: see section 4.

`InputGoverns` says that a resume which returns a decided case returns the outcome of its own input. `OwnInv` has
two parts. `ThreadOwn`: the resume values a thread has been given so far were all refused, and a thread that is in
nobody's hands is new, parked or ended. `RunOwn`: a resume begins at the gate, and behind the gate the decision in the channels is
that of its input. `WellBehaved` (no crash, no `bad_fields` or `bad_signals` reply, the three ways a run can be left behind between nodes) is needed for the
first part, serial calls for the second; TLC finds a counterexample when any one of these is dropped:
the decision of an earlier call is then in the checkpoint, or is still to be asked for, and the later input is not the one that decides.

`SectionChunking_proofs` proves `TextIsCovered` (`NothingLost`), `PiecesAreBounded` (`PiecesFit`) and
`CutsMakeProgress` (`CutsShorten`), and the type invariant, for any bodies in normal form, any positive maximum and any overlap;
and `PiecesAreInOrder` (`InReadingOrder`) where the overlap is at most half of the maximum and leaves room for a
paragraph break and a character (`OverlapIsSmall`), as it must: see section 4.

*Argument.* `ChunkingInvariant` adds to the properties that nothing is cut before everything is packed, that
nothing is set aside before something is read, and that the part being packed and every part set aside begin
and end with ink. What is stripped around a cut is then blank, and the rest of a part begins, but for blanks, at or before the
end of the piece cut from it, so that no ink falls between the two. For `CutsShorten` the cut is beyond the first half, hence beyond
the overlap. `OrderInv` orders what is still to be cut as well: a part leads on from the one before it
after a paragraph break and repeats at most the overlap of it (`Leads`), and what came before a part comes before
whatever is cut from it, because the cut is behind everything that is repeated (`CutPrecedes`).

`WebReview_proofs` proves the invariants of `web_client` for any pages, requests, inputs and number of calls,
from `WebAssumption` and `NamesAssumption`: `GateFollowsResult` (`GateIsCurrent`), `NoAnswerUnderReview`
(`NoAnswerBesideGate`), `DecisionsAreSought` (`DecidedAsSeen`) and `ControlsReturn` (`DisabledWhileWaiting`).

*Argument.* `DecidedAsSeen` is about what a call did long before its answer comes, so `CallsSound` keeps for
every call what is known of it by how far it is: a resume is for the request its caller saw, a submission
that is on its way is of a request nobody has, and an end that was answered was sought by somebody when it
was answered. That no other submission has the id is `SubmitsDiffer`, which rests on ids being fresh, hence
on `KnownAreCalled`.

`EventLog_proofs` proves the invariants of `event_log` for any writers, processes, thread ids, readers and number of
records, with faults or without, from `EventLogAssumption` and `NobodyAssumption`: `LocksAreReleased`
(`LockIsReleased`), `CompleteReads` (`ReadsAreComplete`), `FaithfulReads` (`ReadsAreFaithful`),
`LossesAreExplained` (`LossIsExplained`), `LogImplemented` (`LogKept`) and `LogType` (`TypeOK`).
`LockIsReleased`, a part of the inductive invariant, is proved only.

*Argument.* `FileSound` says of the file that a record has at most one first part and one end, in this order,
that nobody of the same process appended between them, and that a record whose emit has returned has its end.
That is kept by `WriterSound`: whoever emits has the lock of its process (so the other threads
of the process are idle, `OthersIdle`), and since the first part of its record nobody of its process has
appended. `ReaderSound` says that a reader stands where a line begins, unless it has passed
everything that was there when it began, and that it has missed nothing so far; that the next line it reads is the
entry, if there is one, is `EntryIsLine`. A whole record that is no entry follows a first part in its line
(`WholeLost`); a split one follows a first part or has something between its own parts (`SplitLost`).
For `LogImplemented` the entries of the file are numbered by rank: the k-th is the record of the position that
has k ends of entries up to it (`Nth`, `RanksAreTaken`). The file only grows at its end, and neither what is written first nor what
is written last makes an earlier line parse or stop parsing (`EndsStay`), so that earlier ranks stay (`RanksStay`) and at most one is
added; that its record is new is `EntriesSound`.

`WebType`, `ChunkingType`, `LogType`, `IngestionType` and `TypeCorrect` prove the type invariants, so that every invariant and action
property of a passing run is proved, for all values of the constants that the assumptions allow.

*Only model-checked:* the liveness properties `EveryCallReturns`, `SubmissionSettles`, `EveryRunEnds` and
`Terminates`: liveness under fairness is out of the prover's reach.

## 6. Not modelled

- Texts, prompts, wording, time stamps, record identifiers, the payload's content: no property is about them.
- The taxonomy's regular expressions: a question stands for the levels of the signals it matches.
- SQLite and LangGraph beyond what is said in section 2; a checkpoint is written as a whole or not at all.
- In `PolicyReviewService`, the file of the event log: an emitted event is in the log. What may be missing
  from the file is the subject of `EventLog`.
- Embedding arithmetic, retrieval metrics and the thresholds of the grade: floating point.
- In `PolicyReviewService`, an index that cannot be opened: it raises before the first checkpoint of the
  call, so the thread is as if the call had not been made. `PolicyIngestion` has the exception.
- The in-memory vector store (one process, used by tests and the evaluation), an orchestrator that runs
  steps in parallel, `--no-strict-verification` (as if every file that can be parsed were sound), and two
  processes that ingest at once beyond what `ingestion_ends`, `IdentifiersAreUnique` and `ReplacedOnlyLeave` say:
  nothing in the code prevents them, and no document promises anything of them.
- The page's audit panel, flow, risk badge and evidence; the read-only routes of the server; status codes.
- The model clients, settings loading, `cli/ingest.py`, `smoke.py` and `scripts/`: adapters, constants and
  diagnostics without state of their own. An HTTP call to the model returns a reply or raises, which is what
  `RiskClassification` and `PolicyReviewGraph` take from it.

## 7. Plan

Done, in this order: `RiskClassification`, `ReviewInput`, `PolicyReviewGraph`, `PolicyReviewService`,
`PolicyReviewRequirements`, their runs, type correctness and the governance invariants; `PolicyIngestion`, its
runs and the invariants of the index; `ReviewContract` and the proof that the service implements
it; `SectionChunking`, `EventLog` and `WebReview` with their runs and proofs; the proofs of the audit trail;
the proofs that the log implements `AuditLog` and the index `PolicyIndexContract`, and those of what a call returns
(`ResultsAreWhole`, `InputGoverns`).

Left, most important first:

1. The composition of the service with `PolicyIndexContract`, for a request that is decided after its evidence has left
   the index.
2. `EvidenceGrade`, the grade as a function of scores, over bounded inputs.
