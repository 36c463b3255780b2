--------------------- MODULE PolicyReviewService_proofs ---------------------
(***************************************************************************)
(* Type correctness of the runtime service, for any number of callers and  *)
(* threads, any set of reviewer inputs and any outcomes of the retriever   *)
(* and of the model.  The type invariant is not inductive by itself: a     *)
(* call in progress must also be on a thread, so that what it reads and    *)
(* writes is a checkpoint.                                                 *)
(***************************************************************************)
EXTENDS PolicyReviewService, PolicyReviewGraph_proofs, SequenceTheorems

CallOnThread == \A c \in Callers : pc[c] # "idle" => call[c].thread \in Threads

TypeInv == TypeOK /\ CallOnThread

-----------------------------------------------------------------------------
(* Constants of the model. *)

(* The input of a call that is not a resume.                               *)
LEMMA NoInputType == NoInput \in RawInputs
BY DEF NoInput, RawInputs, OtherSpellings

(* The call of an idle caller.                                             *)
LEMMA NoCallType == NoCall \in Calls
BY NoInputType DEF NoCall, Calls

(* The run of an idle caller.                                              *)
LEMMA NoRunType == NoRun \in Runs
<1>1. <<>> \in Seq(RawInputs)
  OBVIOUS
<1>2. QED BY <1>1, NoValuesType DEF NoRun, Runs, InterruptKinds

(* The result of a caller that made no call.                               *)
LEMMA NoResultType == NoResult \in Results
<1>1. NoAnswer \in FinalAnswers
  BY DEF NoAnswer, FinalAnswers, Drafts, Origins
<1>2. QED BY <1>1, NoInputType DEF NoResult, Results, ResultKinds, Statuses, InterruptKinds

(* A saved checkpoint is well formed when its channels are.                *)
LEMMA SavedType ==
  ASSUME NEW v \in Values, NEW node \in Nodes \cup {"none"}
  PROVE  Saved(v, node) \in Checkpoints
<1>1. <<>> \in Seq(RawInputs)
  OBVIOUS
<1>2. QED BY <1>1 DEF Saved, Checkpoints, InterruptKinds

(* The checkpoint of a thread that was never submitted.                    *)
LEMMA NoCheckpointType == NoCheckpoint \in Checkpoints
<1>1. <<>> \in Seq(RawInputs)
  OBVIOUS
<1>2. QED BY <1>1, NoValuesType DEF NoCheckpoint, Checkpoints, InterruptKinds

(* An event without details is an event.                                   *)
LEMMA EventType ==
  ASSUME NEW t \in Threads,
         NEW name \in {"request.submitted", "request.resumed", "human_review.requested",
                       "human_review.invalid_input", "human_review.recorded",
                       "decision.finalized", "decision.failed"}
  PROVE  Event(name, t) \in Events
BY DEF Event, Events, OtherSpellings, Statuses

(* The strengthened type invariant holds initially.                        *)
LEMMA InitType == Init => TypeInv
<1>1. SUFFICES ASSUME Init PROVE TypeInv
  OBVIOUS
<1>2. TypeOK
  BY <1>1, NoCheckpointType, NoCallType, NoRunType, NoResultType DEF Init, TypeOK, PCs
<1>3. CallOnThread
  BY <1>1 DEF Init, CallOnThread
<1>4. QED BY <1>2, <1>3 DEF TypeInv

-----------------------------------------------------------------------------
(* The parts the actions are built from. *)

(* The end of a call with a well-formed result.                            *)
LEMMA ReturnType ==
  ASSUME TypeInv, NEW c \in Callers, NEW r \in Results, Return(c, r),
         UNCHANGED submissions,
         log' \subseteq Events, checkpoint' \in [Threads -> Checkpoints]
  PROVE  TypeInv'
<1>1. TypeOK'
  BY NoCallType, NoRunType DEF TypeInv, TypeOK, Return, PCs
<1>2. CallOnThread'
  BY DEF TypeInv, TypeOK, CallOnThread, Return
<1>3. QED BY <1>1, <1>2 DEF TypeInv

(* The end of a call by an exception.                                      *)
LEMMA RaiseType ==
  ASSUME TypeInv, NEW c \in Callers, NEW kind \in ResultKinds,
         NEW op \in {"none", "submit", "resume"}, NEW raw \in RawInputs,
         Raise(c, kind, op, raw), UNCHANGED submissions,
         log' \subseteq Events, checkpoint' \in [Threads -> Checkpoints]
  PROVE  TypeInv'
<1>1. [NoResult EXCEPT !.kind = kind, !.op = op, !.input = raw] \in Results
  BY NoResultType DEF Results
<1>2. QED BY <1>1, ReturnType DEF Raise

(* The end of a node with well-formed channels and events.                 *)
LEMMA NodeEndsType ==
  ASSUME TypeInv, NEW c \in Callers, pc[c] = "run", NEW v \in Values,
         NEW events \in SUBSET Events, NodeEnds(c, v, events)
  PROVE  TypeInv'
<1>1. run[c] \in Runs
  BY DEF TypeInv, TypeOK
<1>2. [run[c] EXCEPT !.values = v, !.next = Successor(run[c].next, v), !.offered = FALSE] \in Runs
  BY <1>1, SuccessorType DEF Runs
<1>3. run' \in [Callers -> Runs]
  BY <1>2 DEF TypeInv, TypeOK, NodeEnds
<1>4. TypeOK'
  BY <1>3 DEF TypeInv, TypeOK, NodeEnds, PCs
<1>5. CallOnThread'
  BY DEF TypeInv, TypeOK, CallOnThread, NodeEnds
<1>6. QED BY <1>4, <1>5 DEF TypeInv

(* Runs stay well formed when another run saves a checkpoint.              *)
LEMMA SupersededType ==
  ASSUME TypeInv, NEW c \in Callers, NEW t \in Threads
  PROVE  Superseded(c, t) \in [Callers -> Runs]
<1>1. ASSUME NEW d \in Callers
      PROVE  [run[d] EXCEPT !.latest = FALSE] \in Runs
  <2>1. run[d] \in Runs
    BY DEF TypeInv, TypeOK
  <2>2. QED BY <2>1 DEF Runs
<1>2. \A d \in Callers : run[d] \in Runs
  BY DEF TypeInv, TypeOK
<1>3. QED BY <1>1, <1>2 DEF Superseded

(* The values an interrupted node has been given are raw inputs.           *)
LEMMA GivenType ==
  ASSUME TypeInv, NEW c \in Callers
  PROVE  Given(c) \in Seq(RawInputs)
<1>1. run[c].resumes \in Seq(RawInputs)
  BY DEF TypeInv, TypeOK, Runs
<1>2. call[c].input \in RawInputs
  BY DEF TypeInv, TypeOK, Calls
<1>3. QED BY <1>1, <1>2 DEF Given

(* The input that decides is one of the values given.                      *)
LEMMA DecisiveType ==
  ASSUME NEW g \in Seq(RawInputs), Decided(g)
  PROVE  Decisive(g) \in RawInputs /\ Accepted(Decisive(g))
BY DEF Decided, Decisive

(* The resume values that a refused second input leaves are raw inputs.    *)
LEMMA KeptType ==
  ASSUME NEW g \in Seq(RawInputs), ~Decided(g), ~Suspends(g)
  PROVE  SubSeq(g, 1, 2) \in Seq(RawInputs)
<1>1. Len(g) >= 2 /\ Len(g) \in Nat
  BY DEF Suspends
<1>2. \A i \in 1 .. 2 : g[i] \in RawInputs
  BY <1>1
<1>3. QED BY <1>1, <1>2, SubSeqProperties

(* The events the gate emits are events.                                   *)
LEMMA ReviewEventsType ==
  ASSUME NEW t \in Threads, NEW g
  PROVE  ReviewEvents(t, g) \subseteq Events
<1>1. /\ Event("human_review.requested", t) \in Events
      /\ Event("human_review.invalid_input", t) \in Events
  BY EventType
<1>2. QED BY <1>1 DEF ReviewEvents

(* The rows of a task leave checkpoints well formed.                       *)
LEMMA TaskRowsType ==
  ASSUME TypeInv, NEW c \in Callers, call[c].thread \in Threads,
         NEW interrupt \in InterruptKinds, NEW resumes \in Seq(RawInputs)
  PROVE  TaskRows(c, interrupt, resumes) \in [Threads -> Checkpoints]
<1>1. checkpoint \in [Threads -> Checkpoints]
  BY DEF TypeInv, TypeOK
<1>2. [checkpoint[call[c].thread] EXCEPT !.interrupt = interrupt, !.resumes = resumes]
        \in Checkpoints
  BY <1>1 DEF Checkpoints
<1>3. QED BY <1>1, <1>2 DEF TaskRows

-----------------------------------------------------------------------------
(* The actions. *)

(* submit preserves the type invariant.                                    *)
LEMMA SubmitType ==
  ASSUME TypeInv, NEW c \in Callers, NEW t \in Threads, NEW q \in Questions,
         NEW forced \in BOOLEAN, Submit(c, t, q, forced)
  PROVE  TypeInv'
<1> DEFINE v == NewRequestState(checkpoint[t].values, q, forced)
           r == [NoRun EXCEPT !.values = v, !.next = "retrieve_policy", !.latest = TRUE]
<1>1. checkpoint[t].values \in Values
  BY DEF TypeInv, TypeOK, Checkpoints
<1>2. v \in Values
  BY <1>1, NewRequestStateType
<1> HIDE DEF v
<1>3. "retrieve_policy" \in Nodes
  BY DEF Nodes, WorkNodes
<1>4. checkpoint' \in [Threads -> Checkpoints]
  <2>1. checkpoint' = [checkpoint EXCEPT ![t] = Saved(v, "retrieve_policy")]
    BY DEF Submit, v
  <2>2. QED BY <1>2, <1>3, <2>1, SavedType DEF TypeInv, TypeOK
<1>5. run' \in [Callers -> Runs]
  <2>1. run' = [Superseded(c, t) EXCEPT ![c] = r]
    BY DEF Submit, v
  <2>2. r \in Runs
    BY <1>2, <1>3, NoRunType DEF Runs
  <2> HIDE DEF r
  <2>3. QED BY <2>1, <2>2, SupersededType
<1>6. call' \in [Callers -> Calls]
  BY NoInputType DEF Submit, TypeInv, TypeOK, Calls
<1>7. log' \subseteq Events
  <2>1. Event("request.submitted", t) \in Events
    BY EventType
  <2>2. QED BY <2>1 DEF Submit, TypeInv, TypeOK
<1>8. submissions' \in [Threads -> Nat] /\ pc' \in [Callers -> PCs] /\ result' \in [Callers -> Results]
  BY DEF Submit, TypeInv, TypeOK, PCs
<1>9. CallOnThread'
  BY DEF Submit, TypeInv, TypeOK, CallOnThread
<1>10. QED BY <1>4, <1>5, <1>6, <1>7, <1>8, <1>9 DEF TypeInv, TypeOK

(* A refused resume preserves the type invariant.                          *)
LEMMA ResumeRefusedType ==
  ASSUME TypeInv, NEW c \in Callers, NEW t \in Threads, NEW raw \in RawInputs,
         ResumeRefused(c, t, raw)
  PROVE  TypeInv'
<1>1. PICK kind \in {"UnknownThread", "NotAwaitingReview", "InvalidReviewInput"} :
        Raise(c, kind, "resume", raw)
  BY DEF ResumeRefused
<1>2. kind \in ResultKinds
  BY DEF ResultKinds
<1>3. log' \subseteq Events /\ checkpoint' \in [Threads -> Checkpoints] /\ UNCHANGED submissions
  BY DEF ResumeRefused, TypeInv, TypeOK
<1>4. QED BY <1>1, <1>2, <1>3, RaiseType

(* A resume past its checks preserves the type invariant.                  *)
LEMMA ResumeCheckedType ==
  ASSUME TypeInv, NEW c \in Callers, NEW t \in Threads, NEW raw \in RawInputs,
         ResumeChecked(c, t, raw)
  PROVE  TypeInv'
<1>1. [Event("request.resumed", t) EXCEPT !.decision = raw.decision,
                                          !.reviewer = raw.reviewer] \in Events
  <2>1. Event("request.resumed", t) \in Events
    BY EventType
  <2>2. raw.decision \in DOMAIN Aliases \cup OtherSpellings
        /\ raw.reviewer \in Reviewers \cup {NoReviewer}
    BY DEF RawInputs
  <2>3. QED BY <2>1, <2>2 DEF Events
<1>2. log' \subseteq Events
  BY <1>1 DEF ResumeChecked, TypeInv, TypeOK
<1>3. call' \in [Callers -> Calls] /\ pc' \in [Callers -> PCs]
  BY DEF ResumeChecked, TypeInv, TypeOK, Calls, PCs
<1>4. TypeOK'
  BY <1>2, <1>3 DEF ResumeChecked, TypeInv, TypeOK
<1>5. CallOnThread'
  BY DEF ResumeChecked, TypeInv, TypeOK, CallOnThread
<1>6. QED BY <1>4, <1>5 DEF TypeInv

(* An invocation preserves the type invariant.                             *)
LEMMA InvokeType ==
  ASSUME TypeInv, NEW c \in Callers, Invoke(c)
  PROVE  TypeInv'
<1> DEFINE cp == checkpoint[call[c].thread]
           r  == [NoRun EXCEPT !.values = cp.values, !.next = cp.next,
                               !.resumes = cp.resumes, !.offered = TRUE, !.latest = TRUE]
<1>1. call[c].thread \in Threads
  BY DEF Invoke, TypeInv, CallOnThread
<1>2. cp \in Checkpoints
  BY <1>1 DEF TypeInv, TypeOK
<1>3. r \in Runs
  <2> HIDE DEF cp
  <2>1. QED BY <1>2, NoRunType DEF Runs, Checkpoints
<1>4. run' \in [Callers -> Runs]
  <2>1. run' = [run EXCEPT ![c] = r]
    BY DEF Invoke
  <2> HIDE DEF r
  <2>2. QED BY <1>3, <2>1 DEF TypeInv, TypeOK
<1>5. pc' \in [Callers -> PCs]
  BY DEF Invoke, TypeInv, TypeOK, PCs
<1>6. TypeOK'
  BY <1>4, <1>5 DEF Invoke, TypeInv, TypeOK
<1>7. CallOnThread'
  BY DEF Invoke, TypeInv, TypeOK, CallOnThread
<1>8. QED BY <1>6, <1>7 DEF TypeInv

(* What the actions of a run have at hand. *)
LEMMA RunContext ==
  ASSUME TypeInv, NEW c \in Callers, pc[c] # "idle"
  PROVE  /\ call[c].thread \in Threads
         /\ call[c].op \in {"none", "submit", "resume"}
         /\ call[c].input \in RawInputs
         /\ run[c].values \in Values
         /\ run[c].next \in Nodes \cup {"none"}
         /\ run[c].resumes \in Seq(RawInputs)
         /\ run[c].paused \in InterruptKinds
         /\ checkpoint[call[c].thread] \in Checkpoints
<1>1. call[c].thread \in Threads
  BY DEF TypeInv, CallOnThread
<1>2. call[c] \in Calls /\ run[c] \in Runs /\ checkpoint[call[c].thread] \in Checkpoints
  BY <1>1 DEF TypeInv, TypeOK
<1>3. QED BY <1>1, <1>2 DEF Calls, Runs

(* An exception out of a node preserves the type invariant.                *)
LEMMA NodeRaisesType ==
  ASSUME TypeInv, NEW c \in Callers, pc[c] = "run", NEW kind \in ResultKinds,
         NodeRaises(c, kind)
  PROVE  TypeInv'
<1>1. call[c].op \in {"none", "submit", "resume"} /\ call[c].input \in RawInputs
  BY RunContext
<1>2. log' \subseteq Events /\ checkpoint' \in [Threads -> Checkpoints] /\ UNCHANGED submissions
  BY DEF NodeRaises, TypeInv, TypeOK
<1>3. QED BY <1>1, <1>2, RaiseType DEF NodeRaises

(* retrieve_policy preserves the type invariant.                           *)
LEMMA RetrieveType ==
  ASSUME TypeInv, NEW c \in Callers, Retrieve(c)
  PROVE  TypeInv'
<1>1. pc[c] = "run" /\ run[c].values \in Values
  BY RunContext DEF Retrieve, At
<1>2. PICK outcome \in Retrievals : NodeEnds(c, RetrievePolicy(run[c].values, outcome), {})
  BY DEF Retrieve
<1>3. RetrievePolicy(run[c].values, outcome) \in Values
  BY <1>1, RetrievePolicyType, InstanceAssumption
<1>4. QED BY <1>1, <1>2, <1>3, NodeEndsType

(* draft_assessment preserves the type invariant, answering or raising.    *)
LEMMA DraftType ==
  ASSUME TypeInv, NEW c \in Callers, Draft(c)
  PROVE  TypeInv'
<1>1. pc[c] = "run" /\ run[c].values \in Values
  BY RunContext DEF Draft, At
<1>2. PICK reply \in Assessments :
        IF DraftRaises(run[c].values, reply)
          THEN NodeRaises(c, "DraftTypeError")
          ELSE NodeEnds(c, DraftAssessment(run[c].values, reply), {})
  BY DEF Draft
<1>3. DraftAssessment(run[c].values, reply) \in Values
  BY <1>1, DraftAssessmentType, InstanceAssumption
<1>4. "DraftTypeError" \in ResultKinds
  BY DEF ResultKinds
<1>5. QED BY <1>1, <1>2, <1>3, <1>4, NodeEndsType, NodeRaisesType

(* classify_risk preserves the type invariant, answering or raising.       *)
LEMMA ClassifyNodeType ==
  ASSUME TypeInv, NEW c \in Callers, ClassifyNode(c)
  PROVE  TypeInv'
<1>1. pc[c] = "run" /\ run[c].values \in Values
  BY RunContext DEF ClassifyNode, At
<1>2. PICK reply \in Verdicts :
        IF ClassifyRaises(Signals[run[c].values.question], reply)
          THEN NodeRaises(c, "ClassifierTypeError")
          ELSE NodeEnds(c, ClassifyRisk(run[c].values, reply), {})
  BY DEF ClassifyNode
<1>3. ClassifyRisk(run[c].values, reply) \in Values
  BY <1>1, ClassifyRiskType, InstanceAssumption
<1>4. "ClassifierTypeError" \in ResultKinds
  BY DEF ResultKinds
<1>5. QED BY <1>1, <1>2, <1>3, <1>4, NodeEndsType, NodeRaisesType

(* The gate's interrupt preserves the type invariant.                      *)
LEMMA ReviewSuspendsType ==
  ASSUME TypeInv, NEW c \in Callers, ReviewSuspends(c)
  PROVE  TypeInv'
<1> DEFINE g    == Given(c)
           kind == IF g = <<>> THEN "review" ELSE "review_with_error"
<1>1. pc[c] = "run" /\ call[c].thread \in Threads
  BY RunContext DEF ReviewSuspends, At
<1>2. g \in Seq(RawInputs) /\ kind \in InterruptKinds
  BY GivenType DEF InterruptKinds
<1>3. /\ checkpoint' = TaskRows(c, kind, g)
      /\ log' = log \cup ReviewEvents(call[c].thread, g)
      /\ run' = [run EXCEPT ![c] = [run[c] EXCEPT !.paused = kind]]
      /\ pc' = [pc EXCEPT ![c] = "answer"]
      /\ UNCHANGED <<submissions, call, result>>
  BY DEF ReviewSuspends
<1> HIDE DEF g, kind
<1>4. checkpoint' \in [Threads -> Checkpoints]
  BY <1>1, <1>2, <1>3, TaskRowsType
<1>5. log' \subseteq Events
  BY <1>1, <1>3, ReviewEventsType DEF TypeInv, TypeOK
<1>6. run' \in [Callers -> Runs]
  <2>1. run[c] \in Runs
    BY DEF TypeInv, TypeOK
  <2>2. [run[c] EXCEPT !.paused = kind] \in Runs
    BY <1>2, <2>1 DEF Runs
  <2>3. QED BY <1>3, <2>2 DEF TypeInv, TypeOK
<1>7. TypeOK'
  BY <1>3, <1>4, <1>5, <1>6 DEF TypeInv, TypeOK, PCs
<1>8. CallOnThread'
  BY <1>1, <1>3 DEF TypeInv, TypeOK, CallOnThread
<1>9. QED BY <1>7, <1>8 DEF TypeInv

(* The gate's decision preserves the type invariant.                       *)
LEMMA ReviewDecidedType ==
  ASSUME TypeInv, NEW c \in Callers, ReviewDecided(c)
  PROVE  TypeInv'
<1> DEFINE g == Given(c)
           d == ParseReviewInput(Decisive(g))
           recorded == [Event("human_review.recorded", call[c].thread)
                          EXCEPT !.decision = d.decision, !.reviewer = d.reviewer]
<1>1. pc[c] = "run" /\ call[c].thread \in Threads /\ run[c].values \in Values
  BY RunContext DEF ReviewDecided, At
<1>2. Decided(g) /\ NodeEnds(c, InterruptForReview(run[c].values, d),
                             ReviewEvents(call[c].thread, g) \cup {recorded})
  BY DEF ReviewDecided
<1>3. Decisive(g) \in RawInputs /\ Accepted(Decisive(g))
  BY <1>2, GivenType, DecisiveType
<1>4. d \in ReviewDecisions
  BY <1>3, ParsedType
<1> HIDE DEF d
<1>5. InterruptForReview(run[c].values, d) \in Values
  BY <1>1, <1>4, InterruptForReviewType
<1>6. recorded \in Events
  <2>1. Event("human_review.recorded", call[c].thread) \in Events
    BY <1>1, EventType
  <2>2. d.decision \in DOMAIN Aliases /\ d.reviewer \in Reviewers
    BY <1>4 DEF ReviewDecisions, Decisions, Aliases
  <2>3. QED BY <2>1, <2>2 DEF Events
<1>7. ReviewEvents(call[c].thread, g) \cup {recorded} \in SUBSET Events
  <2> HIDE DEF recorded, g
  <2>1. QED BY <1>1, <1>6, ReviewEventsType
<1>8. QED BY <1>1, <1>2, <1>5, <1>7, NodeEndsType

(* The gate's refusal of a second input preserves the type invariant.      *)
LEMMA ReviewRaisesType ==
  ASSUME TypeInv, NEW c \in Callers, ReviewRaises(c)
  PROVE  TypeInv'
<1> DEFINE g == Given(c)
           t == call[c].thread
<1>1. /\ pc[c] = "run" /\ t \in Threads
      /\ call[c].op \in {"none", "submit", "resume"} /\ call[c].input \in RawInputs
      /\ run[c].resumes \in Seq(RawInputs) /\ checkpoint[t].interrupt \in InterruptKinds
  BY RunContext DEF ReviewRaises, At, Checkpoints
<1>2. g \in Seq(RawInputs)
  BY GivenType
<1>3. ~Suspends(g) /\ ~Decided(g)
  BY DEF ReviewRaises
<1>4. SubSeq(g, 1, 2) \in Seq(RawInputs)
  BY <1>2, <1>3, KeptType
<1>5. PICK kept \in {run[c].resumes, SubSeq(g, 1, 2)} :
        checkpoint' = TaskRows(c, checkpoint[t].interrupt, kept)
  BY DEF ReviewRaises
<1>6. /\ log' = log \cup ReviewEvents(t, g)
      /\ Raise(c, "InvalidReviewInput", call[c].op, call[c].input)
      /\ UNCHANGED submissions
  BY DEF ReviewRaises
<1> HIDE DEF g
<1>7. checkpoint' \in [Threads -> Checkpoints]
  BY <1>1, <1>4, <1>5, TaskRowsType
<1>8. log' \subseteq Events
  BY <1>1, <1>6, ReviewEventsType DEF TypeInv, TypeOK
<1>9. "InvalidReviewInput" \in ResultKinds
  BY DEF ResultKinds
<1>10. QED BY <1>1, <1>6, <1>7, <1>8, <1>9, RaiseType

(* apply_feedback preserves the type invariant.                            *)
LEMMA ApplyReviewType ==
  ASSUME TypeInv, NEW c \in Callers, ApplyReview(c)
  PROVE  TypeInv'
<1>1. pc[c] = "run" /\ run[c].values \in Values
  BY RunContext DEF ApplyReview, At
<1>2. QED BY <1>1, ApplyFeedbackType, NodeEndsType DEF ApplyReview

(* finalize_decision preserves the type invariant, guard included.         *)
LEMMA FinalizeType ==
  ASSUME TypeInv, NEW c \in Callers, Finalize(c)
  PROVE  TypeInv'
<1> DEFINE v == run[c].values
           finalized == [Event("decision.finalized", call[c].thread)
                           EXCEPT !.decision = v.review_decision, !.status = StatusFor(v)]
<1>1. pc[c] = "run" /\ call[c].thread \in Threads /\ v \in Values
  BY RunContext DEF Finalize, At
<1>2. IF BypassDetected(v)
        THEN NodeRaises(c, "HumanReviewBypassError")
        ELSE NodeEnds(c, FinalizeDecision(v), {finalized})
  BY DEF Finalize
<1> HIDE DEF v
<1>3. FinalizeDecision(v) \in Values
  BY <1>1, FinalizeDecisionType
<1>4. finalized \in Events
  <2>1. Event("decision.finalized", call[c].thread) \in Events
    BY <1>1, EventType
  <2>2. v.review_decision \in DOMAIN Aliases \cup OtherSpellings
    <3>1. v.review_decision \in Decisions \cup {""}
      BY <1>1 DEF Values
    <3>2. QED BY <3>1 DEF Decisions, Aliases, OtherSpellings
  <2>3. StatusFor(v) \in Statuses
    BY DEF StatusFor, Statuses
  <2>4. QED BY <2>1, <2>2, <2>3 DEF Events
<1>5. "HumanReviewBypassError" \in ResultKinds
  BY DEF ResultKinds
<1> HIDE DEF finalized
<1>6. QED BY <1>1, <1>2, <1>3, <1>4, <1>5, NodeEndsType, NodeRaisesType

(* record_failure preserves the type invariant.                            *)
LEMMA FailType ==
  ASSUME TypeInv, NEW c \in Callers, Fail(c)
  PROVE  TypeInv'
<1>1. pc[c] = "run" /\ call[c].thread \in Threads /\ run[c].values \in Values
  BY RunContext DEF Fail, At
<1>2. Event("decision.failed", call[c].thread) \in Events
  BY <1>1, EventType
<1>3. QED BY <1>1, <1>2, RecordFailureType, NodeEndsType DEF Fail

(* The checkpoint of a node's end preserves the type invariant.            *)
LEMMA CommitType ==
  ASSUME TypeInv, NEW c \in Callers, Commit(c)
  PROVE  TypeInv'
<1> DEFINE t == call[c].thread
           r == [run[c] EXCEPT !.resumes = <<>>, !.latest = TRUE]
<1>1. t \in Threads /\ run[c].values \in Values /\ run[c].next \in Nodes \cup {"none"}
  BY RunContext DEF Commit
<1>2. checkpoint' \in [Threads -> Checkpoints]
  BY <1>1, SavedType DEF Commit, TypeInv, TypeOK
<1>3. run' \in [Callers -> Runs]
  <2>1. run' = [Superseded(c, t) EXCEPT ![c] = r]
    BY DEF Commit
  <2>2. r \in Runs
    <3>1. run[c] \in Runs
      BY DEF TypeInv, TypeOK
    <3>2. <<>> \in Seq(RawInputs)
      OBVIOUS
    <3>3. QED BY <3>1, <3>2 DEF Runs
  <2> HIDE DEF r
  <2>3. QED BY <1>1, <2>1, <2>2, SupersededType
<1>4. TypeOK'
  BY <1>2, <1>3 DEF Commit, TypeInv, TypeOK, PCs
<1>5. CallOnThread'
  BY DEF Commit, TypeInv, TypeOK, CallOnThread
<1>6. QED BY <1>4, <1>5 DEF TypeInv

(* The result of a call preserves the type invariant.                      *)
LEMMA AnswerType ==
  ASSUME TypeInv, NEW c \in Callers, Answer(c)
  PROVE  TypeInv'
<1> DEFINE v == run[c].values
           payload == IF run[c].paused # "none" THEN run[c].paused
                      ELSE checkpoint[call[c].thread].interrupt
           r == [kind    |-> "returned",
                 op      |-> call[c].op,
                 input   |-> call[c].input,
                 status  |-> IF v.status # "" THEN v.status
                             ELSE IF payload # "none" THEN "pending_human_review"
                             ELSE "failed",
                 payload |-> payload,
                 answer  |-> v.final_answer]
<1>1. /\ call[c].op \in {"none", "submit", "resume"} /\ call[c].input \in RawInputs
      /\ v \in Values /\ payload \in InterruptKinds
  BY RunContext DEF Answer, Checkpoints
<1>2. v.status \in Statuses /\ v.final_answer \in FinalAnswers
  BY <1>1 DEF Values
<1>3. Return(c, r)
  BY DEF Answer
<1>4. r \in Results
  <2> HIDE DEF v, payload
  <2>1. QED BY <1>1, <1>2 DEF Results, ResultKinds, Statuses
<1>5. log' \subseteq Events /\ checkpoint' \in [Threads -> Checkpoints] /\ UNCHANGED submissions
  BY DEF Answer, TypeInv, TypeOK
<1> HIDE DEF r
<1>6. QED BY <1>3, <1>4, <1>5, ReturnType

(* The death of a caller's process preserves the type invariant.           *)
LEMMA CrashType ==
  ASSUME TypeInv, NEW c \in Callers, Crash(c)
  PROVE  TypeInv'
<1>1. call[c].op \in {"none", "submit", "resume"} /\ call[c].input \in RawInputs
  BY RunContext DEF Crash
<1>2. log' \subseteq Events /\ checkpoint' \in [Threads -> Checkpoints] /\ UNCHANGED submissions
  BY DEF Crash, TypeInv, TypeOK
<1>3. "crashed" \in ResultKinds
  BY DEF ResultKinds
<1>4. QED BY <1>1, <1>2, <1>3, RaiseType DEF Crash

-----------------------------------------------------------------------------
(* Every step preserves the type invariant.                                *)
LEMMA NextType == TypeInv /\ [Next]_vars => TypeInv'
<1>1. SUFFICES ASSUME TypeInv, [Next]_vars PROVE TypeInv'
  OBVIOUS
<1>2. ASSUME NEW c \in Callers, NEW t \in Threads, NEW q \in Questions, NEW forced \in BOOLEAN,
             Submit(c, t, q, forced)
      PROVE  TypeInv'
  BY <1>1, <1>2, SubmitType
<1>3. ASSUME NEW c \in Callers, NEW t \in Threads, NEW raw \in ReviewerInputs,
             ResumeRefused(c, t, raw) \/ ResumeChecked(c, t, raw)
      PROVE  TypeInv'
  <2>1. raw \in RawInputs
    BY InstanceAssumption
  <2>2. QED BY <1>1, <1>3, <2>1, ResumeRefusedType, ResumeCheckedType
<1>4. ASSUME NEW c \in Callers, RunNode(c)
      PROVE  TypeInv'
  BY <1>1, <1>4, RetrieveType, DraftType, ClassifyNodeType, ReviewSuspendsType,
     ReviewDecidedType, ReviewRaisesType, ApplyReviewType, FinalizeType, FailType DEF RunNode
<1>5. ASSUME NEW c \in Callers, Proceed(c)
      PROVE  TypeInv'
  BY <1>1, <1>4, <1>5, InvokeType, CommitType, AnswerType DEF Proceed
<1>6. ASSUME NEW c \in Callers, Crash(c)
      PROVE  TypeInv'
  BY <1>1, <1>6, CrashType
<1>7. CASE UNCHANGED vars
  BY <1>1, <1>7 DEF TypeInv, TypeOK, CallOnThread, vars
<1>8. QED BY <1>1, <1>2, <1>3, <1>5, <1>6, <1>7 DEF Next

(* Whatever callers, reviewers, the retriever and the model do, the        *)
(* checkpoints, the runs, the results and the log stay well formed, and a  *)
(* call in progress is on a thread.                                        *)
THEOREM TypeInvariant == Spec => []TypeInv
<1>1. Init => TypeInv
  BY InitType
<1>2. TypeInv /\ [Next]_vars => TypeInv'
  BY NextType
<1>3. QED BY <1>1, <1>2, PTL DEF Spec

(* The type invariant the lifecycle run checks. *)
THEOREM TypeCorrect == Spec => []TypeOK
<1>1. TypeInv => TypeOK
  BY DEF TypeInv
<1>2. QED BY <1>1, TypeInvariant, PTL
=============================================================================
