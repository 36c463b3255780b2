------------------------ MODULE PolicyReviewService ------------------------
(***************************************************************************)
(* The runtime service (agent/runtime.py) over the checkpoint database     *)
(* (agent/checkpointing.py): callers in any number of processes submit and *)
(* resume requests, each call loads the thread's latest checkpoint, runs   *)
(* the graph's nodes one at a time on its own copy of the channels, and    *)
(* saves a checkpoint after each.  Calls interleave at every step, and a   *)
(* caller's process may die at any of them.                                *)
(*                                                                         *)
(* LangGraph itself is not in the repository: the checkpoint a node's end  *)
(* saves, the interrupt row, the list of resume values an interrupted task *)
(* has already been given, and the value Command(resume=...) offers to the *)
(* first node a resumed run executes, follow the code's use of it.         *)
(***************************************************************************)
EXTENDS PolicyReviewGraph

CONSTANTS Callers,             \* the threads and processes that call the service
          Threads,             \* thread ids, which are the request ids
          Retrievals,          \* the retrieval outcomes this instance lets happen
          Assessments,         \* the assessment replies it lets happen
          Verdicts,            \* the classifier replies it lets happen
          ReviewerInputs,      \* the raw inputs reviewers send
          Crashes,             \* whether a caller's process may die during a call
          MaxSubmissions       \* bound: submissions of one request id

ASSUME InstanceAssumption ==
  /\ Retrievals \subseteq RetrievalOutcomes
  /\ Assessments \subseteq AssessmentReplies
  /\ Verdicts \subseteq ModelReplies
  /\ ReviewerInputs \subseteq RawInputs
  /\ Crashes \in BOOLEAN
  /\ MaxSubmissions \in Nat

VARIABLES
  checkpoint,    \* the latest checkpoint of each thread
  log,           \* the governance events of the event log, as a set
  submissions,   \* how often each request id was submitted (for the bound)
  pc,            \* where each caller's call is
  call,          \* the arguments of each caller's call
  run,           \* each caller's copy of the graph run
  result         \* what each caller's last call ended with

vars == <<checkpoint, log, submissions, pc, call, run, result>>

-----------------------------------------------------------------------------
InterruptKinds == {"none", "review", "review_with_error"}

(* next = "none": the thread has no checkpoint (snapshot.created_at empty). *)
Checkpoints == [values    : Values,
                next      : Nodes \cup {"none"},
                interrupt : InterruptKinds,
                resumes   : Seq(RawInputs)]

NoCheckpoint == [values |-> NoValues, next |-> "none", interrupt |-> "none", resumes |-> <<>>]

(* The checkpoint saved when a run with channels v is about to execute node. *)
Saved(v, node) == [values |-> v, next |-> node, interrupt |-> "none", resumes |-> <<>>]

(***************************************************************************)
(* idle: no call; checked: resume has passed its checks and has not yet    *)
(* invoked the graph; run: about to execute a node; commit: the node has   *)
(* ended and its checkpoint is not saved; answer: about to build the       *)
(* result.                                                                 *)
(***************************************************************************)
PCs == {"idle", "checked", "run", "commit", "answer"}

NoThread == "no thread"
NoInput == [mapping |-> FALSE, decision |-> "", reviewer |-> NoReviewer, feedback |-> FALSE]

ASSUME NoThreadAssumption == NoThread \notin Threads

Calls == [op : {"none", "submit", "resume"}, thread : Threads \cup {NoThread}, input : RawInputs]
NoCall == [op |-> "none", thread |-> NoThread, input |-> NoInput]

(***************************************************************************)
(* resumes: the resume values already persisted for the interrupted task;  *)
(* offered: the value of Command(resume=...) has not been passed by yet;   *)
(* paused: the interrupt the run has raised; latest: the checkpoint the    *)
(* run holds is still the thread's latest one.                             *)
(***************************************************************************)
Runs == [values : Values, next : Nodes \cup {"none"}, resumes : Seq(RawInputs),
         offered : BOOLEAN, paused : InterruptKinds, latest : BOOLEAN]
NoRun == [values |-> NoValues, next |-> "none", resumes |-> <<>>,
          offered |-> FALSE, paused |-> "none", latest |-> FALSE]

ResultKinds == {"none", "returned", "crashed", "UnknownThread", "NotAwaitingReview",
                "InvalidReviewInput", "HumanReviewBypassError",
                "DraftTypeError", "ClassifierTypeError"}

Results == [kind    : ResultKinds,
            op      : {"none", "submit", "resume"},
            input   : RawInputs,
            status  : Statuses,
            payload : InterruptKinds,
            answer  : FinalAnswers]

NoResult == [kind |-> "none", op |-> "none", input |-> NoInput, status |-> "",
             payload |-> "none", answer |-> NoAnswer]

(* The events of the log that matter to governance; a field an event does  *)
(* not carry is empty.  decision is a raw spelling in request.resumed.     *)
Events == [event    : {"request.submitted", "request.resumed", "human_review.requested",
                       "human_review.invalid_input", "human_review.recorded",
                       "decision.finalized", "decision.failed"},
           thread   : Threads,
           decision : DOMAIN Aliases \cup OtherSpellings,
           reviewer : Reviewers \cup {NoReviewer},
           status   : Statuses]

Event(name, t) == [event |-> name, thread |-> t, decision |-> "",
                   reviewer |-> NoReviewer, status |-> ""]

-----------------------------------------------------------------------------
Init ==
  /\ checkpoint  = [t \in Threads |-> NoCheckpoint]
  /\ log         = {}
  /\ submissions = [t \in Threads |-> 0]
  /\ pc          = [c \in Callers |-> "idle"]
  /\ call        = [c \in Callers |-> NoCall]
  /\ run         = [c \in Callers |-> NoRun]
  /\ result      = [c \in Callers |-> NoResult]

(* The call of c ends with outcome r, and its local state is dropped. *)
Return(c, r) ==
  /\ pc'     = [pc EXCEPT ![c] = "idle"]
  /\ call'   = [call EXCEPT ![c] = NoCall]
  /\ run'    = [run EXCEPT ![c] = NoRun]
  /\ result' = [result EXCEPT ![c] = r]

(* The call of c ends with an exception. *)
Raise(c, kind, op, raw) ==
  Return(c, [NoResult EXCEPT !.kind = kind, !.op = op, !.input = raw])

(* c saves the checkpoint cp of thread t, which makes it the latest: what  *)
(* any other run on t holds is not the latest any more.                    *)
Superseded(c, t) ==
  [d \in Callers |-> IF call[d].thread = t /\ d # c
                       THEN [run[d] EXCEPT !.latest = FALSE] ELSE run[d]]

(***************************************************************************)
(* submit: the initial state becomes the input of the thread, whatever the *)
(* thread was doing, and the graph starts at its first node.               *)
(***************************************************************************)
Submit(c, t, q, forced) ==
  LET v == NewRequestState(checkpoint[t].values, q, forced) IN
  /\ pc[c] = "idle"
  /\ submissions[t] < MaxSubmissions
  /\ submissions' = [submissions EXCEPT ![t] = @ + 1]
  /\ log' = log \cup {Event("request.submitted", t)}
  /\ checkpoint' = [checkpoint EXCEPT ![t] = Saved(v, "retrieve_policy")]
  /\ pc' = [pc EXCEPT ![c] = "run"]
  /\ call' = [call EXCEPT ![c] = [op |-> "submit", thread |-> t, input |-> NoInput]]
  /\ run' = [Superseded(c, t) EXCEPT
               ![c] = [NoRun EXCEPT !.values = v, !.next = "retrieve_policy", !.latest = TRUE]]
  /\ UNCHANGED result

(* snapshot.interrupts or snapshot.next *)
Awaiting(cp) == cp.interrupt # "none" \/ cp.next # "END"

(* The checks of resume refuse the call. *)
Refused(cp, raw) == cp.next = "none" \/ ~Awaiting(cp) \/ ~raw.mapping

(* resume, refused by one of its checks. *)
ResumeRefused(c, t, raw) ==
  LET cp == checkpoint[t] IN
  /\ pc[c] = "idle"
  /\ Refused(cp, raw)
  /\ Raise(c, CASE cp.next = "none"                   -> "UnknownThread"
                [] cp.next # "none" /\ ~Awaiting(cp)  -> "NotAwaitingReview"
                [] OTHER                              -> "InvalidReviewInput",
           "resume", raw)
  /\ UNCHANGED <<checkpoint, log, submissions>>

(* resume, past its checks: the graph is not invoked yet. *)
ResumeChecked(c, t, raw) ==
  /\ pc[c] = "idle"
  /\ ~Refused(checkpoint[t], raw)
  /\ log' = log \cup {[Event("request.resumed", t) EXCEPT !.decision = raw.decision,
                                                          !.reviewer = raw.reviewer]}
  /\ pc' = [pc EXCEPT ![c] = "checked"]
  /\ call' = [call EXCEPT ![c] = [op |-> "resume", thread |-> t, input |-> raw]]
  /\ UNCHANGED <<checkpoint, submissions, run, result>>

(* Mutation: the graph is invoked from its start rather than from the      *)
(* checkpoint's pending node.                                              *)
MutantInvoke(c) ==
  LET cp == checkpoint[call[c].thread] IN
  /\ pc[c] = "checked"
  /\ pc' = [pc EXCEPT ![c] = "run"]
  /\ run' = [run EXCEPT ![c] = [NoRun EXCEPT !.values = cp.values, !.next = "retrieve_policy",
                                             !.offered = TRUE, !.latest = TRUE]]
  /\ UNCHANGED <<checkpoint, log, submissions, call, result>>

(* graph.invoke(Command(resume=...)): the latest checkpoint is loaded anew. *)
Invoke(c) ==
  LET cp == checkpoint[call[c].thread] IN
  /\ pc[c] = "checked"
  /\ pc' = [pc EXCEPT ![c] = IF cp.next = "END" THEN "answer" ELSE "run"]
  /\ run' = [run EXCEPT ![c] = [NoRun EXCEPT !.values = cp.values, !.next = cp.next,
                                             !.resumes = cp.resumes, !.offered = TRUE,
                                             !.latest = TRUE]]
  /\ UNCHANGED <<checkpoint, log, submissions, call, result>>

-----------------------------------------------------------------------------
(* The nodes. *)

At(c, node) == pc[c] = "run" /\ run[c].next = node

(* The node c is at ends, leaving the channels at v. *)
NodeEnds(c, v, events) ==
  /\ log' = log \cup events
  /\ run' = [run EXCEPT ![c] = [@ EXCEPT !.values = v, !.next = Successor(run[c].next, v),
                                         !.offered = FALSE]]
  /\ pc' = [pc EXCEPT ![c] = "commit"]
  /\ UNCHANGED <<checkpoint, submissions, call, result>>

(* The node c is at raises: the checkpoint stays as it is. *)
NodeRaises(c, kind) ==
  /\ Raise(c, kind, call[c].op, call[c].input)
  /\ UNCHANGED <<checkpoint, log, submissions>>

Retrieve(c) ==
  /\ At(c, "retrieve_policy")
  /\ \E outcome \in Retrievals : NodeEnds(c, RetrievePolicy(run[c].values, outcome), {})

Draft(c) ==
  /\ At(c, "draft_assessment")
  /\ \E reply \in Assessments :
       IF DraftRaises(run[c].values, reply)
         THEN NodeRaises(c, "DraftTypeError")
         ELSE NodeEnds(c, DraftAssessment(run[c].values, reply), {})

ClassifyNode(c) ==
  /\ At(c, "classify_risk")
  /\ \E reply \in Verdicts :
       IF ClassifyRaises(Signals[run[c].values.question], reply)
         THEN NodeRaises(c, "ClassifierTypeError")
         ELSE NodeEnds(c, ClassifyRisk(run[c].values, reply), {})

(***************************************************************************)
(* interrupt_for_review.  Its first interrupt() is answered by the first   *)
(* value the task was given, its second one by the second.  The values are *)
(* those persisted for the task, then the one of this call.                *)
(***************************************************************************)
Given(c) ==
  IF run[c].offered THEN Append(run[c].resumes, call[c].input) ELSE run[c].resumes

(* The decision the node returns, when one of the two inputs is accepted. *)
Decisive(g) == IF Accepted(g[1]) THEN g[1] ELSE g[2]
Decided(g) == \/ Len(g) >= 1 /\ Accepted(g[1])
              \/ Len(g) >= 2 /\ Accepted(g[2])

(* interrupt() has no value to return and suspends the node. *)
Suspends(g) == ~Decided(g) /\ Len(g) < 2

(* The events the node has emitted when it suspends, raises or returns. *)
ReviewEvents(t, g) ==
  {Event("human_review.requested", t)} \cup
  (IF Len(g) >= 1 /\ ~Accepted(g[1]) THEN {Event("human_review.invalid_input", t)} ELSE {})

(* The run c writes the task's rows beside the checkpoint it holds; they   *)
(* are seen only while that checkpoint is the latest.                      *)
TaskRows(c, interrupt, resumes) ==
  IF run[c].latest
    THEN [checkpoint EXCEPT ![call[c].thread] = [@ EXCEPT !.interrupt = interrupt,
                                                          !.resumes   = resumes]]
    ELSE checkpoint

(* Mutation: the gate waits for its reviewer inside the submitter's call. *)
MutantReviewSuspends(c) ==
  LET g    == Given(c)
      kind == IF g = <<>> THEN "review" ELSE "review_with_error"
  IN
  /\ At(c, "interrupt_for_review")
  /\ Suspends(g)
  /\ checkpoint' = TaskRows(c, kind, g)
  /\ log' = log \cup ReviewEvents(call[c].thread, g)
  /\ run' = [run EXCEPT ![c] = [@ EXCEPT !.paused = kind]]
  /\ UNCHANGED <<submissions, pc, call, result>>

ReviewSuspends(c) ==
  LET g    == Given(c)
      kind == IF g = <<>> THEN "review" ELSE "review_with_error"
  IN
  /\ At(c, "interrupt_for_review")
  /\ Suspends(g)
  /\ checkpoint' = TaskRows(c, kind, g)
  /\ log' = log \cup ReviewEvents(call[c].thread, g)
  /\ run' = [run EXCEPT ![c] = [@ EXCEPT !.paused = kind]]
  /\ pc' = [pc EXCEPT ![c] = "answer"]
  /\ UNCHANGED <<submissions, call, result>>

(* Mutation: the event that records the decision is not emitted. *)
MutantReviewDecided(c) ==
  LET g == Given(c) IN
  /\ At(c, "interrupt_for_review")
  /\ Decided(g)
  /\ NodeEnds(c, InterruptForReview(run[c].values, ParseReviewInput(Decisive(g))),
              ReviewEvents(call[c].thread, g))

ReviewDecided(c) ==
  LET g == Given(c)
      d == ParseReviewInput(Decisive(g))
  IN
  /\ At(c, "interrupt_for_review")
  /\ Decided(g)
  /\ NodeEnds(c, InterruptForReview(run[c].values, d),
              ReviewEvents(call[c].thread, g)
                \cup {[Event("human_review.recorded", call[c].thread)
                         EXCEPT !.decision = d.decision, !.reviewer = d.reviewer]})

(* The second input is refused as well: parse_review_input raises out of   *)
(* the node.  Whether the failed task's resume values are persisted        *)
(* depends on the LangGraph release; its interrupt row stays.              *)
ReviewRaises(c) ==
  LET g == Given(c)
      t == call[c].thread
  IN
  /\ At(c, "interrupt_for_review")
  /\ ~Decided(g) /\ ~Suspends(g)
  /\ \E kept \in {run[c].resumes, SubSeq(g, 1, 2)} :
       checkpoint' = TaskRows(c, checkpoint[t].interrupt, kept)
  /\ log' = log \cup ReviewEvents(t, g)
  /\ Raise(c, "InvalidReviewInput", call[c].op, call[c].input)
  /\ UNCHANGED submissions

ApplyReview(c) ==
  /\ At(c, "apply_feedback")
  /\ NodeEnds(c, ApplyFeedback(run[c].values), {})

Finalize(c) ==
  LET v == run[c].values IN
  /\ At(c, "finalize_decision")
  /\ IF BypassDetected(v)
       THEN NodeRaises(c, "HumanReviewBypassError")
       ELSE NodeEnds(c, FinalizeDecision(v),
                     {[Event("decision.finalized", call[c].thread)
                         EXCEPT !.decision = v.review_decision, !.status = StatusFor(v)]})

Fail(c) ==
  /\ At(c, "record_failure")
  /\ NodeEnds(c, RecordFailure(run[c].values), {Event("decision.failed", call[c].thread)})

-----------------------------------------------------------------------------
(* The checkpoint that a node's end saves becomes the thread's latest. *)
Commit(c) ==
  LET t == call[c].thread IN
  /\ pc[c] = "commit"
  /\ checkpoint' = [checkpoint EXCEPT ![t] = Saved(run[c].values, run[c].next)]
  /\ run' = [Superseded(c, t) EXCEPT ![c] = [run[c] EXCEPT !.resumes = <<>>, !.latest = TRUE]]
  /\ pc' = [pc EXCEPT ![c] = IF run[c].next = "END" THEN "answer" ELSE "run"]
  /\ UNCHANGED <<log, submissions, call, result>>

(* Mutation: an output without a status is a failure, whatever it asks for. *)
MutantAnswer(c) ==
  LET v == run[c].values IN
  /\ pc[c] = "answer"
  /\ Return(c, [kind    |-> "returned",
                op      |-> call[c].op,
                input   |-> call[c].input,
                status  |-> IF v.status # "" THEN v.status ELSE "failed",
                payload |-> IF run[c].paused # "none" THEN run[c].paused
                            ELSE checkpoint[call[c].thread].interrupt,
                answer  |-> v.final_answer])
  /\ UNCHANGED <<checkpoint, log, submissions>>

(* _result: the payload of the output, or that of a snapshot taken now. *)
Answer(c) ==
  LET v       == run[c].values
      payload == IF run[c].paused # "none" THEN run[c].paused
                 ELSE checkpoint[call[c].thread].interrupt
  IN
  /\ pc[c] = "answer"
  /\ Return(c, [kind    |-> "returned",
                op      |-> call[c].op,
                input   |-> call[c].input,
                status  |-> IF v.status # "" THEN v.status
                            ELSE IF payload # "none" THEN "pending_human_review"
                            ELSE "failed",
                payload |-> payload,
                answer  |-> v.final_answer])
  /\ UNCHANGED <<checkpoint, log, submissions>>

(* The caller's process dies, or the run is lost to an exception of the    *)
(* checkpoint database: what was saved stays.                              *)
Crash(c) ==
  /\ Crashes
  /\ pc[c] # "idle"
  /\ Raise(c, "crashed", call[c].op, call[c].input)
  /\ UNCHANGED <<checkpoint, log, submissions>>

-----------------------------------------------------------------------------
(* What a caller in a call does next. *)
RunNode(c) ==
  \/ Retrieve(c) \/ Draft(c) \/ ClassifyNode(c)
  \/ ReviewSuspends(c) \/ ReviewDecided(c) \/ ReviewRaises(c)
  \/ ApplyReview(c) \/ Finalize(c) \/ Fail(c)

Proceed(c) == Invoke(c) \/ RunNode(c) \/ Commit(c) \/ Answer(c)

Next ==
  \E c \in Callers :
    \/ \E t \in Threads, q \in Questions, forced \in BOOLEAN : Submit(c, t, q, forced)
    \/ \E t \in Threads, raw \in ReviewerInputs :
         ResumeRefused(c, t, raw) \/ ResumeChecked(c, t, raw)
    \/ Proceed(c)
    \/ Crash(c)

Spec == Init /\ [][Next]_vars

(* A call is a synchronous function of its process: once made, it goes on  *)
(* until it returns, unless the process dies.  Nobody has to make a call.  *)
FairSpec == Spec /\ \A c \in Callers : WF_vars(Proceed(c))

-----------------------------------------------------------------------------
TypeOK ==
  /\ checkpoint \in [Threads -> Checkpoints]
  /\ log \subseteq Events
  /\ submissions \in [Threads -> Nat]
  /\ pc \in [Callers -> PCs]
  /\ call \in [Callers -> Calls]
  /\ run \in [Callers -> Runs]
  /\ result \in [Callers -> Results]
=============================================================================
