------------------ MODULE PolicyReviewRequirements_proofs ------------------
(***************************************************************************)
(* The governance of the service, for every value of its constants: the    *)
(* graph invariant, the safety properties that follow from it, and the     *)
(* audit trail.                                                            *)
(*                                                                         *)
(* GraphInvariant is not inductive by itself.  A run writes its interrupt  *)
(* row beside the checkpoint it holds, so one must also know that a run    *)
(* that still holds the thread's latest checkpoint is about to execute the *)
(* node that this checkpoint names (HoldsLatest).                          *)
(*                                                                         *)
(* What the log says of a checkpoint was emitted before it was saved, so   *)
(* that the audit trail is one of runs as well as of checkpoints, and of   *)
(* the inputs that a resume announces before the gate is given them        *)
(* (TrailInv).                                                             *)
(***************************************************************************)
EXTENDS PolicyReviewRequirements, PolicyReviewService_proofs

-----------------------------------------------------------------------------
(* One node after the other leaves the channels coherent with the node     *)
(* that the routes choose next.                                            *)

(* What a node leaves of a draft: all of it, or what it says beside its    *)
(* answer.                                                                 *)
SameParts(v, w) ==
  /\ w.draft_basis = v.draft_basis
  /\ w.draft_conditions = v.draft_conditions
  /\ w.draft_uncertainty = v.draft_uncertainty

SameDraft(v, w) == w.draft_answer = v.draft_answer /\ SameParts(v, w)

(* A draft that is left alone is what it was.                              *)
LEMMA DraftStays ==
  ASSUME NEW v, NEW w, SameDraft(v, w)
  PROVE  /\ Drafted(v) => Drafted(w)
         /\ Undrafted(v) => Undrafted(w)
         /\ Undrafted(v) => Grounded(w)
         /\ w.evidence_grade = v.evidence_grade /\ Grounded(v) => Grounded(w)
BY DEF SameDraft, SameParts, Drafted, Undrafted, Grounded

(* A submission leaves the channels fit for the first node, whatever they  *)
(* were.                                                                   *)
LEMMA NewRequestCoherent ==
  ASSUME NEW old \in Values, NEW q \in Questions, NEW forced \in BOOLEAN
  PROVE  Coherent(NewRequestState(old, q, forced), "retrieve_policy")
<1> DEFINE w == NewRequestState(old, q, forced)
<1>1. /\ w.question = q /\ w.risk_level = "" /\ w.review_required = FALSE
      /\ w.reviewer_feedback = FALSE /\ w.review_decision = "" /\ w.approved = FALSE
      /\ w.reviewer_id = NoReviewer /\ w.final_answer = NoAnswer
      /\ w.decision_record = NoRecord /\ w.status = "" /\ w.draft_answer = ""
      /\ w.draft_basis = "" /\ w.draft_conditions = "" /\ w.draft_uncertainty = ""
  BY DEF NewRequestState, NoValues
<1> HIDE DEF w
<1>2. Coherent(w, "retrieve_policy")
  BY <1>1 DEF Coherent, Unreviewed, Unreleased, Undrafted, Grounded
<1>3. QED BY <1>2 DEF w

(* retrieve_policy leaves the channels fit for the route it takes.         *)
LEMMA RetrieveCoherent ==
  ASSUME NEW v \in Values, NEW outcome \in RetrievalOutcomes, Coherent(v, "retrieve_policy")
  PROVE  LET w == RetrievePolicy(v, outcome)
         IN  Coherent(w, Successor("retrieve_policy", w))
<1> DEFINE w == RetrievePolicy(v, outcome)
<1>1. /\ w.question = v.question /\ w.risk_level = v.risk_level
      /\ w.review_required = v.review_required /\ w.reviewer_feedback = v.reviewer_feedback
      /\ w.review_decision = v.review_decision /\ w.approved = v.approved
      /\ w.reviewer_id = v.reviewer_id /\ w.final_answer = v.final_answer
      /\ w.decision_record = v.decision_record /\ w.status = v.status
      /\ SameDraft(v, w)
  BY DEF RetrievePolicy, Visited, Values, SameDraft, SameParts
<1>2. w.retrieval_error \in BOOLEAN
  BY RetrievePolicyType DEF Values
<1> HIDE DEF w
<1>3. Undrafted(w) /\ Grounded(w)
  BY <1>1, DraftStays DEF Coherent
<1>4. CASE w.retrieval_error
  <2>1. Successor("retrieve_policy", w) = "record_failure"
    BY <1>4 DEF Successor, RouteAfterRetrieval
  <2>2. QED BY <1>1, <1>3, <1>4, <2>1 DEF Coherent, Unreviewed, Unreleased, w
<1>5. CASE ~w.retrieval_error
  <2>1. Successor("retrieve_policy", w) = "draft_assessment"
    BY <1>5 DEF Successor, RouteAfterRetrieval
  <2>2. QED BY <1>1, <1>3, <1>5, <2>1 DEF Coherent, Unreviewed, Unreleased, w
<1>6. QED BY <1>4, <1>5

(* draft_assessment leaves the channels fit for classify_risk.             *)
LEMMA DraftCoherent ==
  ASSUME NEW v \in Values, NEW reply \in AssessmentReplies, Coherent(v, "draft_assessment")
  PROVE  LET w == DraftAssessment(v, reply)
         IN  Coherent(w, Successor("draft_assessment", w))
<1> DEFINE w    == DraftAssessment(v, reply)
           kind == DraftKind(v, reply)
<1>1. /\ w.question = v.question /\ w.risk_level = v.risk_level
      /\ w.review_required = v.review_required /\ w.reviewer_feedback = v.reviewer_feedback
      /\ w.review_decision = v.review_decision /\ w.approved = v.approved
      /\ w.reviewer_id = v.reviewer_id /\ w.final_answer = v.final_answer
      /\ w.decision_record = v.decision_record /\ w.status = v.status
      /\ w.retrieval_error = v.retrieval_error /\ w.evidence_grade = v.evidence_grade
  BY DEF DraftAssessment, Visited, Values
<1>2. /\ w.draft_answer = kind
      /\ w.draft_basis = DraftBasis(kind, reply)
      /\ w.draft_conditions = DraftConditions(kind, reply)
      /\ w.draft_uncertainty = DraftUncertainty(kind, reply, v.evidence_grade)
  BY DEF DraftAssessment, Visited, Values
<1>3. /\ kind \in {"assessed", "no_evidence", "model_failed"}
      /\ v.evidence_grade = "none" => kind # "assessed"
  BY DEF Coherent, DraftKind, AsksForAssessment
<1> HIDE DEF w, kind
<1>4. Successor("draft_assessment", w) = "classify_risk"
  BY DEF Successor
<1>5. /\ kind = "assessed" => w.draft_basis # ""
      /\ kind # "assessed" => /\ w.draft_basis = "" /\ w.draft_conditions = ""
                              /\ w.draft_uncertainty = "insufficiency"
  BY <1>2 DEF DraftBasis, DraftConditions, DraftUncertainty
<1>6. Drafted(w) /\ Grounded(w)
  BY <1>1, <1>2, <1>3, <1>5 DEF Drafted, Grounded
<1>7. QED BY <1>1, <1>4, <1>6 DEF Coherent, Unreviewed, Unreleased, w

(* classify_risk leaves them fit for the gate or for finalisation: here    *)
(* the route and the classification agree.                                 *)
LEMMA ClassifyCoherent ==
  ASSUME NEW v \in Values, NEW reply \in ModelReplies, Coherent(v, "classify_risk")
  PROVE  LET w == ClassifyRisk(v, reply)
         IN  Coherent(w, Successor("classify_risk", w))
<1> DEFINE w     == ClassifyRisk(v, reply)
           level == Classify(Signals[v.question], reply)
<1>1. /\ w.question = v.question /\ w.reviewer_feedback = v.reviewer_feedback
      /\ w.review_decision = v.review_decision /\ w.approved = v.approved
      /\ w.reviewer_id = v.reviewer_id /\ w.final_answer = v.final_answer
      /\ w.decision_record = v.decision_record /\ w.status = v.status
      /\ w.retrieval_error = v.retrieval_error
      /\ w.evidence_grade = v.evidence_grade /\ SameDraft(v, w)
      /\ w.force_human_review = v.force_human_review
      /\ w.risk_level = level
      /\ w.review_required = (level = "high" \/ v.force_human_review)
  BY DEF ClassifyRisk, Visited, Values, SameDraft, SameParts
<1>2. level \in RiskLevels /\ RiskOrder[level] >= RiskOrder[BaselineLevel(Signals[v.question])]
  BY ClassifyNeverLowers
<1> HIDE DEF w, level
<1>3. w.review_required = NeedsReview(w)
  BY <1>1 DEF NeedsReview
<1>4. Classified(w)
  BY <1>1, <1>2, <1>3 DEF Coherent, Classified
<1>5. /\ Unreviewed(w) /\ Unreleased(w)
      /\ Drafted(w) /\ Grounded(w)
  BY <1>1, DraftStays DEF Coherent, Unreviewed, Unreleased
<1>6. CASE w.review_required
  <2>1. Successor("classify_risk", w) = "interrupt_for_review"
    BY <1>3, <1>6 DEF Successor, RouteAfterRisk
  <2>2. QED BY <1>4, <1>5, <1>6, <2>1 DEF Coherent, w
<1>7. CASE ~w.review_required
  <2>1. Successor("classify_risk", w) = "finalize_decision"
    BY <1>1, <1>2, <1>3, <1>7 DEF Successor, RouteAfterRisk
  <2>2. QED BY <1>4, <1>5, <1>7, <2>1 DEF Coherent, ReviewedAsRequired, DraftReconciled, w
<1>8. QED BY <1>6, <1>7

(* An accepted input leaves the gate with a complete review.               *)
LEMMA ReviewCoherent ==
  ASSUME NEW v \in Values, NEW raw \in RawInputs, Accepted(raw),
         Coherent(v, "interrupt_for_review")
  PROVE  LET w == InterruptForReview(v, ParseReviewInput(raw))
         IN  Coherent(w, Successor("interrupt_for_review", w))
<1> DEFINE d == ParseReviewInput(raw)
           w == InterruptForReview(v, d)
<1>1. /\ d.decision \in Decisions /\ d.reviewer # NoReviewer
      /\ d.decision # "approved" => d.feedback
  BY ParsedType DEF ReviewDecisions
<1> HIDE DEF d
<1>2. /\ w.question = v.question /\ w.risk_level = v.risk_level
      /\ w.review_required = v.review_required
      /\ w.force_human_review = v.force_human_review
      /\ w.retrieval_error = v.retrieval_error
      /\ w.evidence_grade = v.evidence_grade /\ SameDraft(v, w)
      /\ w.final_answer = v.final_answer /\ w.decision_record = v.decision_record
      /\ w.review_decision = d.decision /\ w.approved = (d.decision = "approved")
      /\ w.reviewer_id = d.reviewer /\ w.reviewer_feedback = d.feedback
      /\ w.status = "pending_human_review"
  BY DEF InterruptForReview, Visited, Values, SameDraft, SameParts
<1> HIDE DEF w
<1>3. /\ Classified(w) /\ w.review_required /\ Unreleased(w)
      /\ Drafted(w) /\ Grounded(w)
  BY <1>2, DraftStays DEF Coherent, Classified, NeedsReview, Unreleased
<1>4. Reviewed(w)
  BY <1>1, <1>2 DEF Reviewed
<1>5. Successor("interrupt_for_review", w) = "apply_feedback"
  BY DEF Successor
<1>6. Coherent(w, Successor("interrupt_for_review", w))
  BY <1>3, <1>4, <1>5 DEF Coherent
<1>7. QED BY <1>6 DEF w, d

(* apply_feedback leaves a draft that agrees with the review.              *)
LEMMA ApplyCoherent ==
  ASSUME NEW v \in Values, Coherent(v, "apply_feedback")
  PROVE  LET w == ApplyFeedback(v)
         IN  Coherent(w, Successor("apply_feedback", w))
<1> DEFINE w == ApplyFeedback(v)
<1>1. /\ w.question = v.question /\ w.risk_level = v.risk_level
      /\ w.review_required = v.review_required
      /\ w.force_human_review = v.force_human_review
      /\ w.retrieval_error = v.retrieval_error
      /\ w.final_answer = v.final_answer /\ w.decision_record = v.decision_record
      /\ w.review_decision = v.review_decision /\ w.approved = v.approved
      /\ w.reviewer_id = v.reviewer_id /\ w.reviewer_feedback = v.reviewer_feedback
      /\ w.status = v.status /\ w.evidence_grade = v.evidence_grade
      /\ SameParts(v, w)
  BY DEF ApplyFeedback, Visited, Values, SameParts
<1>2. /\ w.draft_answer \in {v.draft_answer, "superseded", "changes_required",
                            "uninterpretable"}
      /\ v.review_decision = "approved" => w.draft_answer = v.draft_answer
      /\ v.review_decision = "rejected" => w.draft_answer = "superseded"
      /\ v.review_decision = "changes_requested" => w.draft_answer = "changes_required"
  BY DEF ApplyFeedback, Visited, Values
<1> HIDE DEF w
<1>3. Classified(w) /\ w.review_required /\ Unreleased(w) /\ Grounded(w)
  BY <1>1, <1>2 DEF Coherent, Classified, NeedsReview, Unreleased, Grounded, SameParts
<1>4. Reviewed(w)
  BY <1>1 DEF Coherent, Reviewed
<1>5. DraftReconciled(w)
  <2>1. CASE v.review_decision = "approved"
    <3>1. Drafted(w)
      BY <1>1, <1>2, <2>1, DraftStays DEF SameDraft, Coherent
    <3>2. QED BY <1>1, <2>1, <3>1 DEF DraftReconciled
  <2>2. CASE v.review_decision # "approved"
    <3>1. v.review_decision \in {"rejected", "changes_requested"}
      BY <2>2 DEF Coherent, Reviewed, Decisions
    <3>2. w.review_required /\ w.review_decision = v.review_decision
      BY <1>1, <1>3
    <3>3. w.draft_answer = IF v.review_decision = "rejected" THEN "superseded"
                                                            ELSE "changes_required"
      BY <1>2, <3>1
    <3>4. QED BY <2>2, <3>2, <3>3 DEF DraftReconciled
  <2>3. QED BY <2>1, <2>2
<1>6. Successor("apply_feedback", w) = "finalize_decision"
  BY DEF Successor
<1>7. Coherent(w, Successor("apply_feedback", w))
  BY <1>3, <1>4, <1>5, <1>6 DEF Coherent, ReviewedAsRequired
<1>8. QED BY <1>7 DEF w

(* The guard of finalize_decision never fires on coherent channels. *)
LEMMA FinalizeNotBypassed ==
  ASSUME NEW v \in Values, Coherent(v, "finalize_decision")
  PROVE  ~BypassDetected(v)
<1>1. v.review_required = NeedsReview(v)
  BY DEF Coherent, Classified
<1>2. v.review_required => v.review_decision # ""
  BY DEF Coherent, ReviewedAsRequired, Reviewed, Decisions
<1>3. QED BY <1>1, <1>2 DEF BypassDetected

(* finalize_decision ends with the record, the answer and the status of    *)
(* its channels.                                                           *)
LEMMA FinalizeCoherent ==
  ASSUME NEW v \in Values, Coherent(v, "finalize_decision")
  PROVE  LET w == FinalizeDecision(v)
         IN  Coherent(w, Successor("finalize_decision", w))
<1> DEFINE w == FinalizeDecision(v)
<1>1. /\ w.question = v.question /\ w.risk_level = v.risk_level
      /\ w.review_required = v.review_required
      /\ w.force_human_review = v.force_human_review
      /\ w.retrieval_error = v.retrieval_error /\ w.evidence_grade = v.evidence_grade
      /\ SameDraft(v, w)
      /\ w.review_decision = v.review_decision /\ w.approved = v.approved
      /\ w.reviewer_id = v.reviewer_id /\ w.reviewer_feedback = v.reviewer_feedback
  BY DEF FinalizeDecision, Visited, Values, SameDraft, SameParts
<1>2. /\ w.final_answer = ComposeAnswer(v) /\ w.status = StatusFor(v)
      /\ w.decision_record = BuildRecord(v, StatusFor(v))
  BY DEF FinalizeDecision, Visited, Values
<1> HIDE DEF w
<1>3. /\ Classified(w) /\ ReviewedAsRequired(w) /\ Grounded(w)
      /\ DraftReconciled(w)
  <2>1. Classified(w) /\ ReviewedAsRequired(w)
    BY <1>1 DEF Coherent, Classified, NeedsReview, ReviewedAsRequired, Reviewed, Unreviewed
  <2>2. Grounded(w)
    BY <1>1, DraftStays DEF Coherent
  <2>3. Drafted(v) => Drafted(w)
    BY <1>1, DraftStays
  <2>4. DraftReconciled(w)
    BY <1>1, <2>3 DEF Coherent, DraftReconciled, SameDraft
  <2>5. QED BY <2>1, <2>2, <2>4
<1>4. RecordAgrees(w)
  BY <1>1, <1>2 DEF RecordAgrees, BuildRecord, SameDraft, SameParts
<1>5. ComposeAnswer(w) = ComposeAnswer(v) /\ StatusFor(w) = StatusFor(v)
  BY <1>1 DEF ComposeAnswer, StatusFor, SameDraft, SameParts
<1>6. Successor("finalize_decision", w) = "END"
  BY DEF Successor
<1>7. Coherent(w, Successor("finalize_decision", w))
  BY <1>2, <1>3, <1>4, <1>5, <1>6 DEF Coherent, Finalized
<1>8. QED BY <1>7 DEF w

(* record_failure ends with a failure record and no review.                *)
LEMMA FailCoherent ==
  ASSUME NEW v \in Values, Coherent(v, "record_failure")
  PROVE  LET w == RecordFailure(v)
         IN  Coherent(w, Successor("record_failure", w))
<1> DEFINE w == RecordFailure(v)
<1>1. /\ w.question = v.question /\ w.risk_level = v.risk_level
      /\ w.review_required = v.review_required
      /\ w.retrieval_error = v.retrieval_error /\ SameDraft(v, w)
      /\ w.evidence_grade = v.evidence_grade
      /\ w.review_decision = v.review_decision /\ w.approved = v.approved
      /\ w.reviewer_id = v.reviewer_id /\ w.reviewer_feedback = v.reviewer_feedback
      /\ w.status = "failed"
      /\ w.final_answer = [NoAnswer EXCEPT !.body = "unresolved"]
  BY DEF RecordFailure, Visited, Values, SameDraft, SameParts
<1>2. w.decision_record = [NoRecord EXCEPT !.status   = "failed",
                                           !.question = v.question,
                                           !.grade    = v.evidence_grade,
                                           !.route    = v.route_history,
                                           !.errors   = v.errors]
  BY DEF RecordFailure, Visited, Values
<1>3. /\ w.decision_record.status = "failed" /\ w.decision_record.question = v.question
      /\ w.decision_record.level = "" /\ w.decision_record.required = FALSE
      /\ w.decision_record.decision = "" /\ w.decision_record.approved = FALSE
      /\ w.decision_record.reviewer = NoReviewer /\ w.decision_record.feedback = FALSE
      /\ w.decision_record.grade = v.evidence_grade
      /\ w.decision_record.answer = "" /\ w.decision_record.basis = ""
      /\ w.decision_record.conditions = "" /\ w.decision_record.uncertainty = ""
  BY <1>2 DEF NoRecord
<1> HIDE DEF w
<1>4. v.reviewer_feedback = FALSE /\ v.review_required = FALSE /\ v.approved = FALSE
  BY DEF Coherent, Unreviewed, Values
<1>5. Undrafted(w) /\ Grounded(w)
  BY <1>1, DraftStays DEF Coherent
<1>6. Failed(w)
  <2>1. w.retrieval_error /\ Unreviewed(w) /\ w.risk_level = ""
    BY <1>1 DEF Coherent, Unreviewed
  <2>2. w.review_required = FALSE /\ w.approved = FALSE /\ w.reviewer_feedback = FALSE
    BY <1>1, <1>4
  <2>3. RecordAgrees(w)
    BY <1>1, <1>3, <1>5, <2>1, <2>2 DEF Unreviewed, Undrafted, RecordAgrees
  <2>4. QED BY <1>1, <1>5, <2>1, <2>3 DEF Failed
<1>7. Successor("record_failure", w) = "END"
  BY DEF Successor
<1>8. Coherent(w, Successor("record_failure", w))
  BY <1>5, <1>6, <1>7 DEF Coherent
<1>9. QED BY <1>8 DEF w

-----------------------------------------------------------------------------
(* The inductive invariant. *)

CheckpointsCoherent == \A t \in Threads : Coherent(checkpoint[t].values, checkpoint[t].next)
RunsCoherent == \A c \in Callers : Coherent(run[c].values, run[c].next)

(* A run that holds its thread's latest checkpoint is where it says. *)
HoldsLatest ==
  \A c \in Callers : pc[c] = "run" /\ run[c].latest
                       => checkpoint[call[c].thread].next = run[c].next

ReviewInv ==
  /\ TypeInv
  /\ CheckpointsCoherent
  /\ RunsCoherent
  /\ InterruptAtNode
  /\ HoldsLatest
  /\ BypassUnreachable

(* A thread without a checkpoint is coherent.                              *)
LEMMA NoValuesCoherent == Coherent(NoValues, "none")
<1>1. /\ NoValues.draft_answer = "" /\ NoValues.draft_basis = ""
      /\ NoValues.draft_conditions = "" /\ NoValues.draft_uncertainty = ""
  BY DEF NoValues
<1>2. QED BY <1>1 DEF Coherent, Grounded

(* The invariant holds initially.                                          *)
LEMMA InitReview == Init => ReviewInv
<1>1. SUFFICES ASSUME Init PROVE ReviewInv
  OBVIOUS
<1>2. TypeInv
  BY <1>1, InitType
<1>3. CheckpointsCoherent
  BY <1>1, NoValuesCoherent DEF Init, NoCheckpoint, CheckpointsCoherent
<1>4. RunsCoherent
  BY <1>1, NoValuesCoherent DEF Init, NoRun, RunsCoherent
<1>5. InterruptAtNode
  BY <1>1 DEF Init, NoCheckpoint, InterruptAtNode
<1>6. HoldsLatest
  BY <1>1 DEF Init, HoldsLatest
<1>7. BypassUnreachable
  BY <1>1 DEF Init, NoResult, BypassUnreachable
<1>8. QED BY <1>2, <1>3, <1>4, <1>5, <1>6, <1>7 DEF ReviewInv

-----------------------------------------------------------------------------
(* The parts the actions are built from. *)

(* A step that moves no thread on, and leaves interrupt rows at the gate. *)
KeepsPlaces ==
  /\ \A t \in Threads : /\ checkpoint'[t].values = checkpoint[t].values
                        /\ checkpoint'[t].next = checkpoint[t].next
  /\ InterruptAtNode'

(* A step that leaves checkpoints and calls alone keeps where they are.    *)
LEMMA UnchangedKeepsPlaces ==
  ASSUME ReviewInv, UNCHANGED checkpoint
  PROVE  KeepsPlaces
BY DEF ReviewInv, KeepsPlaces, InterruptAtNode

(* Writing a task's rows changes neither the channels nor the next node    *)
(* of a checkpoint.                                                        *)
LEMMA TaskRowsKeepsPlaces ==
  ASSUME ReviewInv, NEW c \in Callers, At(c, "interrupt_for_review"),
         NEW interrupt \in InterruptKinds, NEW resumes \in Seq(RawInputs),
         checkpoint' = TaskRows(c, interrupt, resumes)
  PROVE  KeepsPlaces
<1> DEFINE t == call[c].thread
<1>1. t \in Threads /\ checkpoint \in [Threads -> Checkpoints]
  BY DEF ReviewInv, TypeInv, TypeOK, CallOnThread, At
<1>2. CASE ~run[c].latest
  BY <1>2, UnchangedKeepsPlaces DEF TaskRows
<1>3. CASE run[c].latest
  <2>1. checkpoint[t].next = "interrupt_for_review"
    BY <1>3 DEF ReviewInv, HoldsLatest, At
  <2>2. checkpoint' = [checkpoint EXCEPT ![t] = [checkpoint[t] EXCEPT !.interrupt = interrupt,
                                                                      !.resumes   = resumes]]
    BY <1>3 DEF TaskRows
  <2> HIDE DEF t
  <2>3. checkpoint[t] \in Checkpoints
    BY <1>1
  <2>4. \A u \in Threads : /\ checkpoint'[u].values = checkpoint[u].values
                           /\ checkpoint'[u].next = checkpoint[u].next
    BY <1>1, <2>2, <2>3 DEF Checkpoints
  <2>5. \A u \in Threads : u # t => checkpoint'[u] = checkpoint[u]
    BY <1>1, <2>2
  <2>6. InterruptAtNode'
    BY <2>1, <2>4, <2>5 DEF ReviewInv, InterruptAtNode
  <2>7. QED BY <2>4, <2>6 DEF KeepsPlaces
<1>4. QED BY <1>2, <1>3

(* The end of a call preserves the invariant of the other runs.            *)
LEMMA ReturnReview ==
  ASSUME ReviewInv, TypeInv', NEW c \in Callers, NEW r, r.kind # "HumanReviewBypassError",
         Return(c, r), KeepsPlaces
  PROVE  ReviewInv'
<1>0. /\ pc \in [Callers -> PCs] /\ run \in [Callers -> Runs]
      /\ call \in [Callers -> Calls] /\ result \in [Callers -> Results]
  BY DEF ReviewInv, TypeInv, TypeOK
<1>1. CheckpointsCoherent'
  BY DEF ReviewInv, CheckpointsCoherent, KeepsPlaces
<1>2. RunsCoherent'
  <2>1. run'[c] = NoRun /\ \A d \in Callers : d # c => run'[d] = run[d]
    BY <1>0 DEF Return
  <2>2. QED BY <2>1, NoValuesCoherent DEF ReviewInv, RunsCoherent, NoRun
<1>3. HoldsLatest'
  <2>1. /\ pc'[c] = "idle"
        /\ \A d \in Callers : d # c => pc'[d] = pc[d] /\ run'[d] = run[d] /\ call'[d] = call[d]
    BY <1>0 DEF Return
  <2>2. \A d \in Callers : pc[d] = "run" => call[d].thread \in Threads
    BY DEF ReviewInv, TypeInv, CallOnThread
  <2>3. QED BY <2>1, <2>2 DEF ReviewInv, HoldsLatest, KeepsPlaces
<1>4. BypassUnreachable'
  BY <1>0 DEF ReviewInv, BypassUnreachable, Return
<1>5. QED BY <1>1, <1>2, <1>3, <1>4 DEF ReviewInv, KeepsPlaces

(* So does its end by an exception, other than the guard's.                *)
LEMMA RaiseReview ==
  ASSUME ReviewInv, TypeInv', NEW c \in Callers, NEW kind, NEW op, NEW raw,
         kind # "HumanReviewBypassError", Raise(c, kind, op, raw), KeepsPlaces
  PROVE  ReviewInv'
<1>1. [NoResult EXCEPT !.kind = kind, !.op = op, !.input = raw].kind = kind
  BY DEF NoResult
<1>2. QED BY <1>1, ReturnReview DEF Raise

(* The end of a node, whose update is coherent with its successor.         *)
LEMMA NodeEndsReview ==
  ASSUME ReviewInv, TypeInv', NEW c \in Callers, NEW v, NEW events,
         Coherent(v, Successor(run[c].next, v)), NodeEnds(c, v, events)
  PROVE  ReviewInv'
<1>0. pc \in [Callers -> PCs] /\ run \in [Callers -> Runs]
  BY DEF ReviewInv, TypeInv, TypeOK
<1>1. /\ run'[c].values = v /\ run'[c].next = Successor(run[c].next, v)
      /\ \A d \in Callers : d # c => run'[d] = run[d]
  <2>1. run[c] \in Runs
    BY <1>0
  <2>2. QED BY <1>0, <2>1 DEF NodeEnds, Runs
<1>2. RunsCoherent'
  BY <1>1 DEF ReviewInv, RunsCoherent
<1>3. pc'[c] = "commit" /\ \A d \in Callers : d # c => pc'[d] = pc[d]
  BY <1>0 DEF NodeEnds
<1>4. UNCHANGED <<checkpoint, call, result>>
  BY DEF NodeEnds
<1>5. HoldsLatest'
  BY <1>1, <1>3, <1>4 DEF ReviewInv, HoldsLatest
<1>6. QED BY <1>2, <1>4, <1>5 DEF ReviewInv, CheckpointsCoherent, InterruptAtNode, BypassUnreachable

(* An exception out of a node, other than the guard's.                     *)
LEMMA NodeRaisesReview ==
  ASSUME ReviewInv, TypeInv', NEW c \in Callers, NEW kind,
         kind # "HumanReviewBypassError", NodeRaises(c, kind)
  PROVE  ReviewInv'
<1>1. KeepsPlaces
  BY UnchangedKeepsPlaces DEF NodeRaises
<1>2. QED BY <1>1, RaiseReview DEF NodeRaises

-----------------------------------------------------------------------------
(* The actions. *)

(* What happens to the runs when c saves a checkpoint (v, node) of t. *)
LEMMA SavedReview ==
  ASSUME ReviewInv, TypeInv', NEW c \in Callers, NEW t \in Threads, NEW v, NEW node,
         Coherent(v, node),
         checkpoint' = [checkpoint EXCEPT ![t] = Saved(v, node)],
         \A d \in Callers : d # c => /\ run'[d] = Superseded(c, t)[d]
                                     /\ pc'[d] = pc[d] /\ call'[d] = call[d],
         run'[c].values = v, run'[c].next = node, call'[c].thread = t,
         UNCHANGED result
  PROVE  ReviewInv'
<1>0. checkpoint \in [Threads -> Checkpoints] /\ run \in [Callers -> Runs]
  BY DEF ReviewInv, TypeInv, TypeOK
<1>1. /\ checkpoint'[t].values = v /\ checkpoint'[t].next = node
      /\ checkpoint'[t].interrupt = "none"
      /\ \A u \in Threads : u # t => checkpoint'[u] = checkpoint[u]
  BY <1>0 DEF Saved
<1>2. \A d \in Callers : d # c =>
        /\ run'[d].values = run[d].values /\ run'[d].next = run[d].next
        /\ run'[d].latest => run[d].latest /\ call[d].thread # t
  <2>1. SUFFICES ASSUME NEW d \in Callers, d # c
                 PROVE  /\ run'[d].values = run[d].values /\ run'[d].next = run[d].next
                        /\ run'[d].latest => run[d].latest /\ call[d].thread # t
    OBVIOUS
  <2>2. run'[d] = IF call[d].thread = t THEN [run[d] EXCEPT !.latest = FALSE] ELSE run[d]
    BY <2>1 DEF Superseded
  <2>3. run[d] \in Runs
    BY <1>0
  <2>4. QED BY <2>2, <2>3 DEF Runs
<1>3. CheckpointsCoherent'
  BY <1>1 DEF ReviewInv, CheckpointsCoherent
<1>4. RunsCoherent'
  BY <1>2 DEF ReviewInv, RunsCoherent
<1>5. InterruptAtNode'
  BY <1>1 DEF ReviewInv, InterruptAtNode
<1>6. HoldsLatest'
  <2>1. \A d \in Callers : d # c /\ pc[d] = "run" => call[d].thread \in Threads
    BY DEF ReviewInv, TypeInv, CallOnThread
  <2>2. QED BY <1>1, <1>2, <2>1 DEF ReviewInv, HoldsLatest
<1>7. QED BY <1>3, <1>4, <1>5, <1>6 DEF ReviewInv, BypassUnreachable

(* A submission, at whatever point the thread is.                          *)
LEMMA SubmitReview ==
  ASSUME ReviewInv, TypeInv', NEW c \in Callers, NEW t \in Threads, NEW q \in Questions,
         NEW forced \in BOOLEAN, Submit(c, t, q, forced)
  PROVE  ReviewInv'
<1> DEFINE v == NewRequestState(checkpoint[t].values, q, forced)
           r == [NoRun EXCEPT !.values = v, !.next = "retrieve_policy", !.latest = TRUE]
<1>1. checkpoint[t].values \in Values /\ pc \in [Callers -> PCs] /\ call \in [Callers -> Calls]
  BY DEF ReviewInv, TypeInv, TypeOK, Checkpoints
<1>2. Coherent(v, "retrieve_policy")
  BY <1>1, NewRequestCoherent
<1>3. /\ checkpoint' = [checkpoint EXCEPT ![t] = Saved(v, "retrieve_policy")]
      /\ run' = [Superseded(c, t) EXCEPT ![c] = r]
      /\ pc' = [pc EXCEPT ![c] = "run"]
      /\ call' = [call EXCEPT ![c] = [op |-> "submit", thread |-> t, input |-> NoInput]]
      /\ UNCHANGED result
  BY DEF Submit
<1>4. r.values = v /\ r.next = "retrieve_policy"
  BY DEF NoRun
<1> HIDE DEF v, r
<1>5. run'[c] = r /\ \A d \in Callers : d # c => run'[d] = Superseded(c, t)[d]
  BY <1>3 DEF Superseded
<1>6. call'[c].thread = t /\ \A d \in Callers : d # c => pc'[d] = pc[d] /\ call'[d] = call[d]
  BY <1>1, <1>3
<1>7. QED BY <1>2, <1>3, <1>4, <1>5, <1>6, SavedReview

(* The checkpoint of a node's end replaces the latest one.                 *)
LEMMA CommitReview ==
  ASSUME ReviewInv, TypeInv', NEW c \in Callers, Commit(c)
  PROVE  ReviewInv'
<1> DEFINE t    == call[c].thread
           v    == run[c].values
           node == run[c].next
           r    == [run[c] EXCEPT !.resumes = <<>>, !.latest = TRUE]
<1>1. t \in Threads /\ pc \in [Callers -> PCs] /\ run[c] \in Runs
  BY DEF ReviewInv, TypeInv, TypeOK, CallOnThread, Commit
<1>2. Coherent(v, node)
  BY DEF ReviewInv, RunsCoherent
<1>3. /\ checkpoint' = [checkpoint EXCEPT ![t] = Saved(v, node)]
      /\ run' = [Superseded(c, t) EXCEPT ![c] = r]
      /\ pc' = [pc EXCEPT ![c] = IF node = "END" THEN "answer" ELSE "run"]
      /\ UNCHANGED <<call, result>>
  BY DEF Commit
<1>4. r.values = v /\ r.next = node
  BY <1>1 DEF Runs
<1>5. call'[c].thread = t /\ \A d \in Callers : d # c => pc'[d] = pc[d] /\ call'[d] = call[d]
  BY <1>1, <1>3
<1> HIDE DEF t, v, node, r
<1>6. run'[c] = r /\ \A d \in Callers : d # c => run'[d] = Superseded(c, t)[d]
  BY <1>3 DEF Superseded
<1>7. UNCHANGED result
  BY <1>3
<1>8. checkpoint' = [checkpoint EXCEPT ![t] = Saved(v, node)]
  BY <1>3
<1>9. QED BY <1>1, <1>2, <1>4, <1>5, <1>6, <1>7, <1>8, SavedReview

(* A resume that is refused, or that passes its checks.                    *)
LEMMA ResumeReview ==
  ASSUME ReviewInv, TypeInv', NEW c \in Callers, NEW t \in Threads, NEW raw \in RawInputs,
         ResumeRefused(c, t, raw) \/ ResumeChecked(c, t, raw)
  PROVE  ReviewInv'
<1>1. CASE ResumeRefused(c, t, raw)
  <2>1. PICK kind \in {"UnknownThread", "NotAwaitingReview", "InvalidReviewInput"} :
          Raise(c, kind, "resume", raw)
    BY <1>1 DEF ResumeRefused
  <2>2. KeepsPlaces
    BY <1>1, UnchangedKeepsPlaces DEF ResumeRefused
  <2>3. kind # "HumanReviewBypassError"
    OBVIOUS
  <2>4. QED BY <2>1, <2>2, <2>3, RaiseReview
<1>2. CASE ResumeChecked(c, t, raw)
  <2>1. /\ pc' = [pc EXCEPT ![c] = "checked"]
        /\ \E k : call' = [call EXCEPT ![c] = k]
        /\ UNCHANGED <<checkpoint, run, result>>
    BY <1>2 DEF ResumeChecked
  <2>2. pc \in [Callers -> PCs] /\ call \in [Callers -> Calls]
    BY DEF ReviewInv, TypeInv, TypeOK
  <2>3. HoldsLatest'
    BY <2>1, <2>2 DEF ReviewInv, HoldsLatest
  <2>4. QED BY <2>1, <2>3 DEF ReviewInv, CheckpointsCoherent, RunsCoherent, InterruptAtNode,
                             BypassUnreachable
<1>3. QED BY <1>1, <1>2

(* An invocation holds the latest checkpoint.                              *)
LEMMA InvokeReview ==
  ASSUME ReviewInv, TypeInv', NEW c \in Callers, Invoke(c)
  PROVE  ReviewInv'
<1> DEFINE cp == checkpoint[call[c].thread]
           r  == [NoRun EXCEPT !.values = cp.values, !.next = cp.next,
                               !.resumes = cp.resumes, !.offered = TRUE, !.latest = TRUE]
<1>1. call[c].thread \in Threads /\ pc \in [Callers -> PCs] /\ run \in [Callers -> Runs]
  BY DEF ReviewInv, TypeInv, TypeOK, CallOnThread, Invoke
<1>2. Coherent(cp.values, cp.next)
  BY <1>1 DEF ReviewInv, CheckpointsCoherent
<1>3. r.values = cp.values /\ r.next = cp.next
  BY DEF NoRun
<1>4. run' = [run EXCEPT ![c] = r] /\ UNCHANGED <<checkpoint, call, result>>
  BY DEF Invoke
<1> HIDE DEF r
<1>5. run'[c] = r /\ \A d \in Callers : d # c => run'[d] = run[d]
  BY <1>1, <1>4
<1>6. \A d \in Callers : d # c => pc'[d] = pc[d]
  BY <1>1 DEF Invoke
<1>7. RunsCoherent'
  BY <1>2, <1>3, <1>5 DEF ReviewInv, RunsCoherent
<1>8. HoldsLatest'
  BY <1>3, <1>4, <1>5, <1>6 DEF ReviewInv, HoldsLatest
<1>9. QED BY <1>4, <1>7, <1>8 DEF ReviewInv, CheckpointsCoherent, InterruptAtNode,
                                  BypassUnreachable

(* Each node, with what it writes and the route it takes.                  *)
LEMMA RunNodeReview ==
  ASSUME ReviewInv, TypeInv', NEW c \in Callers, RunNode(c)
  PROVE  ReviewInv'
<1> DEFINE v == run[c].values
           t == call[c].thread
<1>1. pc[c] = "run"
  BY DEF RunNode, Retrieve, Draft, ClassifyNode, ReviewSuspends, ReviewDecided, ReviewRaises,
         ApplyReview, Finalize, Fail, At
<1>2. TypeInv
  BY DEF ReviewInv
<1>3. /\ v \in Values /\ t \in Threads /\ run[c].resumes \in Seq(RawInputs)
      /\ checkpoint[t].interrupt \in InterruptKinds
  BY <1>1, <1>2, RunContext DEF Checkpoints
<1>4. Coherent(v, run[c].next)
  BY DEF ReviewInv, RunsCoherent
<1>5. Given(c) \in Seq(RawInputs)
  BY <1>2, GivenType
<1>6. CASE Retrieve(c)
  <2>1. PICK outcome \in Retrievals : NodeEnds(c, RetrievePolicy(v, outcome), {})
    BY <1>6 DEF Retrieve
  <2>2. Coherent(RetrievePolicy(v, outcome),
                 Successor(run[c].next, RetrievePolicy(v, outcome)))
    BY <1>3, <1>4, <1>6, RetrieveCoherent, InstanceAssumption DEF Retrieve, At
  <2>3. QED BY <2>1, <2>2, NodeEndsReview
<1>7. CASE Draft(c)
  <2>1. PICK reply \in Assessments :
          NodeRaises(c, "DraftTypeError") \/ NodeEnds(c, DraftAssessment(v, reply), {})
    BY <1>7 DEF Draft
  <2>2. Coherent(DraftAssessment(v, reply),
                 Successor(run[c].next, DraftAssessment(v, reply)))
    BY <1>3, <1>4, <1>7, DraftCoherent, InstanceAssumption DEF Draft, At
  <2>3. QED BY <2>1, <2>2, NodeEndsReview, NodeRaisesReview
<1>8. CASE ClassifyNode(c)
  <2>1. PICK reply \in Verdicts :
          NodeRaises(c, "ClassifierTypeError") \/ NodeEnds(c, ClassifyRisk(v, reply), {})
    BY <1>8 DEF ClassifyNode
  <2>2. Coherent(ClassifyRisk(v, reply), Successor(run[c].next, ClassifyRisk(v, reply)))
    BY <1>3, <1>4, <1>8, ClassifyCoherent, InstanceAssumption DEF ClassifyNode, At
  <2>3. QED BY <2>1, <2>2, NodeEndsReview, NodeRaisesReview
<1>9. CASE ReviewSuspends(c)
  <2> DEFINE g    == Given(c)
             kind == IF g = <<>> THEN "review" ELSE "review_with_error"
  <2>1. /\ At(c, "interrupt_for_review")
        /\ checkpoint' = TaskRows(c, kind, g)
        /\ run' = [run EXCEPT ![c] = [run[c] EXCEPT !.paused = kind]]
        /\ pc' = [pc EXCEPT ![c] = "answer"]
        /\ UNCHANGED <<call, result>>
    BY <1>9 DEF ReviewSuspends
  <2>2. kind \in InterruptKinds
    BY DEF InterruptKinds
  <2> HIDE DEF g, kind
  <2>3. KeepsPlaces
    BY <1>5, <2>1, <2>2, TaskRowsKeepsPlaces DEF g
  <2>4. pc \in [Callers -> PCs] /\ run \in [Callers -> Runs]
    BY <1>2 DEF TypeInv, TypeOK
  <2>5. /\ run'[c].values = v /\ run'[c].next = run[c].next /\ pc'[c] = "answer"
        /\ \A d \in Callers : d # c => run'[d] = run[d] /\ pc'[d] = pc[d]
    <3>1. run[c] \in Runs
      BY <2>4
    <3>2. QED BY <2>1, <2>4, <3>1 DEF Runs
  <2>6. CheckpointsCoherent' /\ RunsCoherent'
    BY <2>3, <2>5 DEF ReviewInv, CheckpointsCoherent, RunsCoherent, KeepsPlaces
  <2>7. HoldsLatest'
    <3>1. \A d \in Callers : pc[d] = "run" => call[d].thread \in Threads
      BY <1>2 DEF TypeInv, CallOnThread
    <3>2. QED BY <2>1, <2>3, <2>5, <3>1 DEF ReviewInv, HoldsLatest, KeepsPlaces
  <2>8. QED BY <2>1, <2>3, <2>6, <2>7 DEF ReviewInv, KeepsPlaces, BypassUnreachable
<1>10. CASE ReviewDecided(c)
  <2> DEFINE raw == Decisive(Given(c))
             w   == InterruptForReview(v, ParseReviewInput(raw))
  <2>1. At(c, "interrupt_for_review") /\ Decided(Given(c)) /\ \E events : NodeEnds(c, w, events)
    BY <1>10 DEF ReviewDecided
  <2>2. raw \in RawInputs /\ Accepted(raw)
    BY <1>5, <2>1, DecisiveType
  <2>3. Coherent(w, Successor(run[c].next, w))
    BY <1>3, <1>4, <2>1, <2>2, ReviewCoherent DEF At
  <2> HIDE DEF w
  <2>4. QED BY <2>1, <2>3, NodeEndsReview
<1>11. CASE ReviewRaises(c)
  <2> DEFINE g == Given(c)
  <2>1. /\ At(c, "interrupt_for_review") /\ ~Suspends(g) /\ ~Decided(g)
        /\ Raise(c, "InvalidReviewInput", call[c].op, call[c].input)
    BY <1>11 DEF ReviewRaises
  <2>2. PICK kept \in {run[c].resumes, SubSeq(g, 1, 2)} :
          checkpoint' = TaskRows(c, checkpoint[t].interrupt, kept)
    BY <1>11 DEF ReviewRaises
  <2>3. SubSeq(g, 1, 2) \in Seq(RawInputs)
    BY <1>5, <2>1, KeptType
  <2>4. KeepsPlaces
    BY <1>3, <2>1, <2>2, <2>3, TaskRowsKeepsPlaces
  <2>5. QED BY <2>1, <2>4, RaiseReview
<1>12. CASE ApplyReview(c)
  <2>1. Coherent(ApplyFeedback(v), Successor(run[c].next, ApplyFeedback(v)))
    BY <1>3, <1>4, <1>12, ApplyCoherent DEF ApplyReview, At
  <2>2. NodeEnds(c, ApplyFeedback(v), {})
    BY <1>12 DEF ApplyReview
  <2>3. QED BY <2>1, <2>2, NodeEndsReview
<1>13. CASE Finalize(c)
  <2>1. run[c].next = "finalize_decision"
    BY <1>13 DEF Finalize, At
  <2>2. ~BypassDetected(v)
    BY <1>3, <1>4, <2>1, FinalizeNotBypassed
  <2>3. \E events : NodeEnds(c, FinalizeDecision(v), events)
    BY <1>13, <2>2 DEF Finalize
  <2>4. Coherent(FinalizeDecision(v), Successor(run[c].next, FinalizeDecision(v)))
    BY <1>3, <1>4, <2>1, FinalizeCoherent
  <2>5. QED BY <2>3, <2>4, NodeEndsReview
<1>14. CASE Fail(c)
  <2>1. Coherent(RecordFailure(v), Successor(run[c].next, RecordFailure(v)))
    BY <1>3, <1>4, <1>14, FailCoherent DEF Fail, At
  <2>2. \E events : NodeEnds(c, RecordFailure(v), events)
    BY <1>14 DEF Fail
  <2>3. QED BY <2>1, <2>2, NodeEndsReview
<1>15. QED BY <1>6, <1>7, <1>8, <1>9, <1>10, <1>11, <1>12, <1>13, <1>14 DEF RunNode

(* The end of a call, by its result or by the death of its process.        *)
LEMMA EndReview ==
  ASSUME ReviewInv, TypeInv', NEW c \in Callers, Answer(c) \/ Crash(c)
  PROVE  ReviewInv'
<1>1. KeepsPlaces
  BY UnchangedKeepsPlaces DEF Answer, Crash
<1>2. CASE Answer(c)
  <2> DEFINE v == run[c].values
             payload == IF run[c].paused # "none" THEN run[c].paused
                        ELSE checkpoint[call[c].thread].interrupt
             r == [kind    |-> "returned",
                   op      |-> call[c].op,
                   input   |-> call[c].input,
                   status  |-> IF v.status # "" THEN v.status
                               ELSE IF payload # "none" THEN "pending_human_review"
                               ELSE "failed",
                   payload |-> payload,
                   answer  |-> v.final_answer]
  <2>1. Return(c, r)
    BY <1>2 DEF Answer
  <2>2. r.kind # "HumanReviewBypassError"
    OBVIOUS
  <2> HIDE DEF r
  <2>3. QED BY <1>1, <2>1, <2>2, ReturnReview
<1>3. CASE Crash(c)
  BY <1>1, <1>3, RaiseReview DEF Crash
<1>4. QED BY <1>2, <1>3

-----------------------------------------------------------------------------
(* Every step preserves the invariant.                                     *)
LEMMA NextReview == ReviewInv /\ [Next]_vars => ReviewInv'
<1>1. SUFFICES ASSUME ReviewInv, [Next]_vars PROVE ReviewInv'
  OBVIOUS
<1>2. TypeInv'
  BY <1>1, NextType DEF ReviewInv
<1>3. ASSUME NEW c \in Callers, NEW t \in Threads, NEW q \in Questions, NEW forced \in BOOLEAN,
             Submit(c, t, q, forced)
      PROVE  ReviewInv'
  BY <1>1, <1>2, <1>3, SubmitReview
<1>4. ASSUME NEW c \in Callers, NEW t \in Threads, NEW raw \in ReviewerInputs,
             ResumeRefused(c, t, raw) \/ ResumeChecked(c, t, raw)
      PROVE  ReviewInv'
  <2>1. raw \in RawInputs
    BY InstanceAssumption
  <2>2. QED BY <1>1, <1>2, <1>4, <2>1, ResumeReview
<1>5. ASSUME NEW c \in Callers, Proceed(c)
      PROVE  ReviewInv'
  BY <1>1, <1>2, <1>5, InvokeReview, RunNodeReview, CommitReview, EndReview DEF Proceed
<1>6. ASSUME NEW c \in Callers, Crash(c)
      PROVE  ReviewInv'
  BY <1>1, <1>2, <1>6, EndReview
<1>7. CASE UNCHANGED vars
  BY <1>1, <1>2, <1>7 DEF ReviewInv, CheckpointsCoherent, RunsCoherent, InterruptAtNode,
                          HoldsLatest, BypassUnreachable, vars
<1>8. QED BY <1>1, <1>3, <1>4, <1>5, <1>6, <1>7 DEF Next

(* The inductive invariant holds throughout: whatever callers do and       *)
(* wherever they die, checkpoints and runs are what the nodes before their *)
(* next one can have left, and interrupt rows are pending at the gate.     *)
THEOREM ReviewInvariant == Spec => []ReviewInv
<1>1. Init => ReviewInv
  BY InitReview
<1>2. ReviewInv /\ [Next]_vars => ReviewInv'
  BY NextReview
<1>3. QED BY <1>1, <1>2, PTL DEF Spec

(* Every checkpoint and every run is coherent with the node it enters,     *)
(* and interrupt rows are pending at the gate only.                        *)
THEOREM GraphCorrect == Spec => []GraphInvariant
<1>1. ReviewInv => GraphInvariant
  BY DEF ReviewInv, CheckpointsCoherent, RunsCoherent, GraphInvariant, CheckpointStates,
         RunStates
<1>2. QED BY <1>1, ReviewInvariant, PTL

(* The exception that guards finalize_decision is never raised.            *)
THEOREM GuardNeverFires == Spec => []BypassUnreachable
<1>1. ReviewInv => BypassUnreachable
  BY DEF ReviewInv
<1>2. QED BY <1>1, ReviewInvariant, PTL

-----------------------------------------------------------------------------
(* What follows from the graph invariant. *)

(* A released, or refused, checkpoint is at the end of the graph.          *)
LEMMA SettledAtEnd ==
  ASSUME ReviewInv, NEW t \in Threads,
         checkpoint[t].values.status \in {"completed", "rejected_by_reviewer"}
  PROVE  Finalized(checkpoint[t].values)
<1> DEFINE v == checkpoint[t].values
<1>1. Coherent(v, checkpoint[t].next) /\ checkpoint[t].next \in Nodes \cup {"none"}
  BY DEF ReviewInv, CheckpointsCoherent, TypeInv, TypeOK, Checkpoints
<1> HIDE DEF v
<1>2. ~Unreleased(v)
  BY DEF Unreleased, v
<1>3. ~Failed(v) /\ v # NoValues
  <2>1. NoValues.status = ""
    BY DEF NoValues
  <2>2. v.status # "" /\ v.status # "failed"
    BY DEF v
  <2>3. QED BY <2>1, <2>2 DEF Failed
<1>4. checkpoint[t].next = "END"
  BY <1>1, <1>2, <1>3 DEF Coherent, Nodes, WorkNodes
<1>5. QED BY <1>1, <1>3, <1>4 DEF Coherent, v

(* No request that needs a review, by its risk or by its submitter's wish, *)
(* is completed without the approval of a named reviewer.                  *)
THEOREM ReleaseIsReviewed == Spec => []NoUnreviewedRelease
<1>1. ReviewInv => NoUnreviewedRelease
  <2>1. SUFFICES ASSUME ReviewInv, NEW t \in Threads,
                        checkpoint[t].values.status = "completed",
                        NeedsReview(checkpoint[t].values)
                 PROVE  LET v == checkpoint[t].values IN
                        /\ v.review_decision = "approved" /\ v.approved
                        /\ v.reviewer_id # NoReviewer
                        /\ v.decision_record.approved /\ v.decision_record.required
                        /\ v.decision_record.reviewer = v.reviewer_id
                        /\ v.final_answer.approval = "granted"
    BY DEF NoUnreviewedRelease
  <2> DEFINE v == checkpoint[t].values
  <2>2. Finalized(v)
    BY <2>1, SettledAtEnd
  <2> HIDE DEF v
  <2>3. v.status = "completed" /\ NeedsReview(v)
    BY <2>1 DEF v
  <2>4. v.review_required /\ ~v.retrieval_error
    BY <2>2, <2>3 DEF Finalized, Classified
  <2>5. Reviewed(v)
    BY <2>2, <2>4 DEF Finalized, ReviewedAsRequired
  <2>6. v.review_decision = "approved"
    BY <2>2, <2>3, <2>4 DEF Finalized, StatusFor
  <2>7. v.approved /\ v.reviewer_id # NoReviewer
    BY <2>5, <2>6 DEF Reviewed
  <2>8. /\ v.decision_record.approved = v.approved
        /\ v.decision_record.required = v.review_required
        /\ v.decision_record.reviewer = v.reviewer_id
    BY <2>2 DEF Finalized, RecordAgrees
  <2>9. v.final_answer.approval = "granted"
    BY <2>2, <2>4, <2>6 DEF Finalized, ComposeAnswer
  <2>10. QED BY <2>4, <2>6, <2>7, <2>8, <2>9 DEF v
<1>2. QED BY <1>1, ReviewInvariant, PTL

(* The conclusion of a refused request is the reviewer's, in its answer    *)
(* and in its record, and it carries a reason.                             *)
THEOREM RefusalIsReconciled == Spec => []RefusalReplacesConclusion
<1>1. ReviewInv => RefusalReplacesConclusion
  <2>1. SUFFICES ASSUME ReviewInv, NEW t \in Threads,
                        checkpoint[t].values.status = "rejected_by_reviewer"
                 PROVE  LET v == checkpoint[t].values IN
                        /\ v.final_answer.body = IF v.review_decision = "rejected"
                                                   THEN "superseded" ELSE "changes_required"
                        /\ v.final_answer.approval = "not_granted"
                        /\ v.decision_record.answer = v.final_answer.body
                        /\ v.decision_record.decision = v.review_decision
                        /\ v.reviewer_feedback
    BY DEF RefusalReplacesConclusion
  <2> DEFINE v == checkpoint[t].values
  <2>2. Finalized(v)
    BY <2>1, SettledAtEnd
  <2> HIDE DEF v
  <2>3. v.review_required /\ v.review_decision # "approved"
    BY <2>1, <2>2 DEF Finalized, StatusFor, v
  <2>4. v.reviewer_feedback
    BY <2>2, <2>3 DEF Finalized, ReviewedAsRequired, Reviewed
  <2>5. v.draft_answer = IF v.review_decision = "rejected"
                           THEN "superseded" ELSE "changes_required"
    BY <2>2, <2>3 DEF Finalized, DraftReconciled
  <2>6. v.final_answer.body = v.draft_answer /\ v.final_answer.approval = "not_granted"
    BY <2>2, <2>3 DEF Finalized, ComposeAnswer
  <2>7. /\ v.decision_record.answer = v.draft_answer
        /\ v.decision_record.decision = v.review_decision
    BY <2>2 DEF Finalized, RecordAgrees
  <2>8. QED BY <2>4, <2>5, <2>6, <2>7 DEF v
<1>2. QED BY <1>1, ReviewInvariant, PTL

(* The risk level of a thread is never below its question's baseline.      *)
THEOREM RiskNeverLowered == Spec => []ModelNeverLowersRisk
<1>1. ReviewInv => ModelNeverLowersRisk
  <2>1. SUFFICES ASSUME ReviewInv, NEW t \in Threads, checkpoint[t].values.risk_level # ""
                 PROVE  LET v == checkpoint[t].values IN
                        RiskOrder[v.risk_level] >= RiskOrder[BaselineLevel(Signals[v.question])]
    BY DEF ModelNeverLowersRisk
  <2> DEFINE v == checkpoint[t].values
  <2>2. Coherent(v, checkpoint[t].next) /\ checkpoint[t].next \in Nodes \cup {"none"}
    BY <2>1 DEF ReviewInv, CheckpointsCoherent, TypeInv, TypeOK, Checkpoints
  <2> HIDE DEF v
  <2>3. v # NoValues /\ ~Failed(v)
    <3>1. NoValues.risk_level = ""
      BY DEF NoValues
    <3>2. v.risk_level # ""
      BY <2>1 DEF v
    <3>3. QED BY <3>1, <3>2 DEF Failed
  <2>4. Classified(v)
    BY <2>1, <2>2, <2>3 DEF Coherent, Finalized, Nodes, WorkNodes, v
  <2>5. QED BY <2>4 DEF Classified, v
<1>2. QED BY <1>1, ReviewInvariant, PTL

-----------------------------------------------------------------------------
(* The audit trail. *)

(* The log l has the resume of t with the input raw. *)
Announced(l, t, raw) ==
  [Event("request.resumed", t) EXCEPT !.decision = raw.decision, !.reviewer = raw.reviewer] \in l

(* The log l has the decision in v, and a resume of t that spells it. *)
Recorded(l, t, v) ==
  /\ \E e \in l : /\ e.event = "human_review.recorded" /\ e.thread = t
                  /\ e.decision = v.review_decision
                  /\ e.reviewer = v.reviewer_id
  /\ \E e \in l : /\ e.event = "request.resumed" /\ e.thread = t
                  /\ e.decision \in DOMAIN Aliases
                  /\ Aliases[e.decision] = v.review_decision
                  /\ e.reviewer = v.reviewer_id

(* The log l has the end of t with v. *)
Ended(l, t, v) ==
  \E e \in l : /\ e.thread = t
               /\ \/ e.event = "decision.failed" /\ v.retrieval_error
                  \/ /\ e.event = "decision.finalized" /\ e.status = v.status
                     /\ e.decision = v.review_decision

(* The first node is in the route, and i is its last place there. *)
Starts(route, i) ==
  /\ i \in DOMAIN route /\ route[i] = "retrieve_policy"
  /\ \A j \in DOMAIN route : route[j] = "retrieve_policy" => j <= i

Started(route) == \E i \in DOMAIN route : Starts(route, i)

(* What is known of the channels v of t, about to enter node. *)
Trail(l, t, v, node) ==
  /\ v.review_decision # "" =>
       Recorded(l, t, v) /\ "interrupt_for_review" \in LastSubmission(v.route_history)
  /\ node = "END" => Ended(l, t, v)
  /\ node \notin {"none", "retrieve_policy"} => Started(v.route_history)

RowsTrail(t) ==
  LET cp == checkpoint[t] IN
  /\ Trail(log, t, cp.values, cp.next)
  /\ \A i \in DOMAIN cp.resumes : Announced(log, t, cp.resumes[i])
  /\ cp.interrupt # "none" => Event("human_review.requested", t) \in log

RunTrail(c) ==
  LET t == call[c].thread IN
  /\ pc[c] = "checked" => Announced(log, t, call[c].input)
  /\ pc[c] \in {"run", "commit"} =>
       /\ Trail(log, t, run[c].values, run[c].next)
       /\ \A i \in DOMAIN run[c].resumes : Announced(log, t, run[c].resumes[i])
       /\ run[c].offered => Announced(log, t, call[c].input)

TrailInv ==
  /\ ReviewInv
  /\ \A t \in Threads : RowsTrail(t)
  /\ \A c \in Callers : RunTrail(c)

(* Nothing leaves the log. *)
LEMMA TrailStays ==
  ASSUME NEW l, NEW m, l \subseteq m, NEW t, NEW v, NEW node, Trail(l, t, v, node)
  PROVE  Trail(m, t, v, node)
BY DEF Trail, Recorded, Ended

(* An announcement stays in the log. *)
LEMMA AnnouncedStays ==
  ASSUME NEW l, NEW m, l \subseteq m, NEW t, NEW raw, Announced(l, t, raw)
  PROVE  Announced(m, t, raw)
BY DEF Announced

(* A checkpoint that stays is explained as it was. *)
LEMMA RowsTrailStays ==
  ASSUME NEW t \in Threads, RowsTrail(t), log \subseteq log', checkpoint'[t] = checkpoint[t]
  PROVE  RowsTrail(t)'
<1>1. Trail(log', t, checkpoint'[t].values, checkpoint'[t].next)
  BY TrailStays DEF RowsTrail
<1>2. \A i \in DOMAIN checkpoint'[t].resumes : Announced(log', t, checkpoint'[t].resumes[i])
  BY AnnouncedStays DEF RowsTrail
<1>3. checkpoint'[t].interrupt # "none" => Event("human_review.requested", t) \in log'
  BY DEF RowsTrail
<1>4. Event("human_review.requested", t)' = Event("human_review.requested", t)
  BY DEF Event
<1>5. QED BY <1>1, <1>2, <1>3, <1>4 DEF RowsTrail

(* A run that another caller may have superseded. *)
LEMMA RunTrailStays ==
  ASSUME NEW d \in Callers, RunTrail(d), log \subseteq log',
         pc'[d] = pc[d], call'[d] = call[d],
         run'[d].values = run[d].values, run'[d].next = run[d].next,
         run'[d].resumes = run[d].resumes, run'[d].offered = run[d].offered
  PROVE  RunTrail(d)'
<1> DEFINE t == call[d].thread
<1>1. pc[d] = "checked" => Announced(log', t, call[d].input)
  BY AnnouncedStays DEF RunTrail
<1>2. ASSUME pc[d] \in {"run", "commit"}
      PROVE  /\ Trail(log', t, run[d].values, run[d].next)
             /\ \A i \in DOMAIN run[d].resumes : Announced(log', t, run[d].resumes[i])
             /\ run[d].offered => Announced(log', t, call[d].input)
  BY <1>2, TrailStays, AnnouncedStays DEF RunTrail
<1>3. QED BY <1>1, <1>2 DEF RunTrail

-----------------------------------------------------------------------------
(* The route. *)

(* Another node than the first one belongs to the same submission. *)
LEMMA SubmissionGrows ==
  ASSUME NEW route \in Seq(WorkNodes), NEW node \in WorkNodes, node # "retrieve_policy",
         Started(route)
  PROVE  /\ Started(Append(route, node))
         /\ LastSubmission(route) \subseteq LastSubmission(Append(route, node))
         /\ node \in LastSubmission(Append(route, node))
<1> DEFINE longer    == Append(route, node)
           starts(r) == {i \in DOMAIN r : r[i] = "retrieve_policy"}
           first(r)  == CHOOSE i \in starts(r) : \A j \in starts(r) : j <= i
<1>1. /\ Len(route) \in Nat /\ DOMAIN route = 1 .. Len(route)
      /\ Len(longer) = Len(route) + 1 /\ DOMAIN longer = 1 .. Len(route) + 1
      /\ \A i \in 1 .. Len(route) : longer[i] = route[i]
      /\ longer[Len(route) + 1] = node
  OBVIOUS
<1> HIDE DEF longer
<1>2. starts(longer) = starts(route)
  BY <1>1
<1>3. PICK i \in DOMAIN route : Starts(route, i)
  BY DEF Started
<1>4. i \in starts(route) /\ \A j \in starts(route) : j <= i
  BY <1>3 DEF Starts
<1>5. first(longer) = first(route)
  BY <1>2
<1>6. first(route) \in starts(route)
  BY <1>4
<1>7. starts(longer) # {} /\ starts(route) # {}
  BY <1>2, <1>4
<1> DEFINE f == first(route)
<1>8. f \in 1 .. Len(route)
  BY <1>1, <1>6
<1> HIDE DEF first
<1>9. LastSubmission(route) = {route[k] : k \in f .. Len(route)}
  BY <1>7 DEF LastSubmission, first
<1>10. LastSubmission(longer) = {longer[k] : k \in f .. Len(longer)}
  BY <1>5, <1>7 DEF LastSubmission, first
<1> HIDE DEF f, starts
<1>11. LastSubmission(route) \subseteq LastSubmission(longer)
  BY <1>1, <1>8, <1>9, <1>10
<1>12. node \in LastSubmission(longer)
  BY <1>1, <1>8, <1>10
<1>13. Starts(longer, i)
  BY <1>1, <1>3 DEF Starts
<1>14. QED BY <1>1, <1>3, <1>11, <1>12, <1>13 DEF Started, longer

(* The first node begins one. *)
LEMMA SubmissionStarts ==
  ASSUME NEW route \in Seq(WorkNodes)
  PROVE  Started(Append(route, "retrieve_policy"))
<1> DEFINE longer == Append(route, "retrieve_policy")
<1>1. Starts(longer, Len(route) + 1) /\ Len(route) + 1 \in DOMAIN longer
  BY DEF Starts
<1>2. QED BY <1>1 DEF Started

-----------------------------------------------------------------------------
(* The nodes. *)

(* w is v after node, which neither reviews nor ends it. *)
Continues(v, node, w) ==
  /\ w.review_decision = v.review_decision /\ w.reviewer_id = v.reviewer_id
  /\ w.route_history = Append(v.route_history, node)

(* retrieve_policy begins a submission, which nobody has reviewed. *)
LEMMA FirstTrail ==
  ASSUME NEW l, NEW t, NEW v \in Values, NEW w, NEW next, next # "END",
         v.review_decision = "", Continues(v, "retrieve_policy", w)
  PROVE  Trail(l, t, w, next)
<1>1. v.route_history \in Seq(WorkNodes)
  BY DEF Values
<1>2. Started(w.route_history)
  BY <1>1, SubmissionStarts DEF Continues
<1>3. QED BY <1>2 DEF Trail, Continues

(* Another node continues it, and keeps its review. *)
LEMMA NodeTrail ==
  ASSUME NEW l, NEW m, l \subseteq m, NEW t, NEW v \in Values, NEW w, NEW next,
         NEW node \in WorkNodes \ {"retrieve_policy"},
         Trail(l, t, v, node), Continues(v, node, w),
         next = "END" => Ended(m, t, w)
  PROVE  Trail(m, t, w, next)
<1>1. v.route_history \in Seq(WorkNodes) /\ Started(v.route_history)
  BY DEF Trail, Values, WorkNodes
<1>2. /\ Started(w.route_history)
      /\ LastSubmission(v.route_history) \subseteq LastSubmission(w.route_history)
  BY <1>1, SubmissionGrows DEF Continues
<1>3. ASSUME w.review_decision # ""
      PROVE  /\ Recorded(m, t, w)
             /\ "interrupt_for_review" \in LastSubmission(w.route_history)
  <2>1. v.review_decision # ""
    BY <1>3 DEF Continues
  <2>2. Recorded(l, t, v) /\ "interrupt_for_review" \in LastSubmission(v.route_history)
    BY <2>1 DEF Trail
  <2>3. Recorded(m, t, v)
    BY <2>2 DEF Recorded
  <2>4. QED BY <1>2, <2>2, <2>3 DEF Recorded, Continues
<1>4. QED BY <1>2, <1>3 DEF Trail

(* The gate: what decides was announced by a resume. *)
LEMMA GateTrail ==
  ASSUME NEW l, NEW m, l \subseteq m, NEW t, NEW v \in Values, NEW raw \in RawInputs,
         Accepted(raw), Announced(l, t, raw), Started(v.route_history),
         [Event("human_review.recorded", t)
            EXCEPT !.decision = ParseReviewInput(raw).decision,
                   !.reviewer = ParseReviewInput(raw).reviewer] \in m
  PROVE  Trail(m, t, InterruptForReview(v, ParseReviewInput(raw)), "apply_feedback")
<1> DEFINE d == ParseReviewInput(raw)
           w == InterruptForReview(v, d)
           asked    == [Event("request.resumed", t)
                          EXCEPT !.decision = raw.decision, !.reviewer = raw.reviewer]
           recorded == [Event("human_review.recorded", t)
                          EXCEPT !.decision = d.decision, !.reviewer = d.reviewer]
<1>1. d.decision = Aliases[raw.decision] /\ d.reviewer = raw.reviewer
  BY DEF ParseReviewInput
<1>2. asked \in m /\ recorded \in m
  BY DEF Announced
<1>3. /\ asked.event = "request.resumed" /\ asked.thread = t
      /\ asked.decision = raw.decision /\ asked.reviewer = raw.reviewer
  BY DEF Event
<1>4. /\ recorded.event = "human_review.recorded" /\ recorded.thread = t
      /\ recorded.decision = d.decision /\ recorded.reviewer = d.reviewer
  BY DEF Event
<1> HIDE DEF d, asked, recorded
<1>5. /\ w.review_decision = d.decision /\ w.reviewer_id = d.reviewer
      /\ w.route_history = Append(v.route_history, "interrupt_for_review")
  BY DEF InterruptForReview, Visited, Values
<1> HIDE DEF w
<1>6. raw.decision \in DOMAIN Aliases
  BY DEF Accepted
<1>7. Recorded(m, t, w)
  BY <1>1, <1>2, <1>3, <1>4, <1>5, <1>6 DEF Recorded
<1>8. /\ Started(w.route_history)
      /\ "interrupt_for_review" \in LastSubmission(w.route_history)
  <2>1. v.route_history \in Seq(WorkNodes) /\ "interrupt_for_review" \in WorkNodes
    BY DEF Values, WorkNodes
  <2>2. QED BY <1>5, <2>1, SubmissionGrows
<1>9. Trail(m, t, w, "apply_feedback")
  BY <1>7, <1>8 DEF Trail
<1>10. QED BY <1>9 DEF w, d

(* The ends. *)
LEMMA FinalizeTrail ==
  ASSUME NEW l, NEW m, l \subseteq m, NEW t, NEW v \in Values,
         Trail(l, t, v, "finalize_decision"),
         [Event("decision.finalized", t)
            EXCEPT !.decision = v.review_decision, !.status = StatusFor(v)] \in m
  PROVE  Trail(m, t, FinalizeDecision(v), "END")
<1> DEFINE w == FinalizeDecision(v)
           e == [Event("decision.finalized", t)
                   EXCEPT !.decision = v.review_decision, !.status = StatusFor(v)]
<1>1. /\ e \in m /\ e.event = "decision.finalized" /\ e.thread = t
      /\ e.decision = v.review_decision /\ e.status = StatusFor(v)
  BY DEF Event
<1>2. Continues(v, "finalize_decision", w) /\ w.status = StatusFor(v)
  BY DEF FinalizeDecision, Visited, Values, Continues
<1> HIDE DEF w, e
<1>3. Ended(m, t, w)
  BY <1>1, <1>2 DEF Ended, Continues
<1>4. Trail(m, t, w, "END")
  BY <1>2, <1>3, NodeTrail DEF WorkNodes
<1>5. QED BY <1>4 DEF w

(* record_failure logs the end it leaves in the channels. *)
LEMMA FailTrail ==
  ASSUME NEW l, NEW m, l \subseteq m, NEW t, NEW v \in Values,
         Coherent(v, "record_failure"), Trail(l, t, v, "record_failure"),
         Event("decision.failed", t) \in m
  PROVE  Trail(m, t, RecordFailure(v), "END")
<1> DEFINE w == RecordFailure(v)
           e == Event("decision.failed", t)
<1>1. e \in m /\ e.event = "decision.failed" /\ e.thread = t
  BY DEF Event
<1>2. Continues(v, "record_failure", w) /\ w.retrieval_error = v.retrieval_error
  BY DEF RecordFailure, Visited, Values, Continues
<1>3. v.retrieval_error
  BY DEF Coherent
<1> HIDE DEF w, e
<1>4. Ended(m, t, w)
  BY <1>1, <1>2, <1>3 DEF Ended
<1>5. Trail(m, t, w, "END")
  BY <1>2, <1>4, NodeTrail DEF WorkNodes
<1>6. QED BY <1>5 DEF w

-----------------------------------------------------------------------------
(* The steps of a call. *)

(* The types of the variables. *)
LEMMA TrailTypes ==
  ASSUME TrailInv
  PROVE  /\ TypeInv /\ ReviewInv /\ pc \in [Callers -> PCs] /\ run \in [Callers -> Runs]
         /\ call \in [Callers -> Calls] /\ checkpoint \in [Threads -> Checkpoints]
BY DEF TrailInv, ReviewInv, TypeInv, TypeOK

(* Nothing of the other callers changes, and no checkpoint. *)
LEMMA OthersTrail ==
  ASSUME TrailInv, ReviewInv', NEW c \in Callers, log \subseteq log',
         \A d \in Callers : d # c => /\ pc'[d] = pc[d] /\ call'[d] = call[d]
                                     /\ run'[d] = run[d],
         \A t \in Threads : RowsTrail(t)',
         RunTrail(c)'
  PROVE  TrailInv'
<1>1. SUFFICES ASSUME NEW d \in Callers, d # c PROVE RunTrail(d)'
  BY DEF TrailInv
<1>2. RunTrail(d)
  BY DEF TrailInv
<1>3. QED BY <1>1, <1>2, RunTrailStays

(* Checkpoints that stay are explained as they were. *)
LEMMA SameRowsTrail ==
  ASSUME TrailInv, log \subseteq log', UNCHANGED checkpoint
  PROVE  \A t \in Threads : RowsTrail(t)'
<1>1. SUFFICES ASSUME NEW t \in Threads PROVE RowsTrail(t)'
  OBVIOUS
<1>2. QED BY RowsTrailStays DEF TrailInv

(* The end of a call. *)
LEMMA ReturnTrail ==
  ASSUME TrailInv, ReviewInv', NEW c \in Callers, NEW r, Return(c, r), log \subseteq log',
         \A t \in Threads : RowsTrail(t)'
  PROVE  TrailInv'
<1>1. /\ pc'[c] = "idle"
      /\ \A d \in Callers : d # c => pc'[d] = pc[d] /\ call'[d] = call[d] /\ run'[d] = run[d]
  BY TrailTypes DEF Return
<1>2. RunTrail(c)'
  BY <1>1 DEF RunTrail
<1>3. QED BY <1>1, <1>2, OthersTrail

(* The end of a node, whose channels the events explain. *)
LEMMA NodeEndsTrail ==
  ASSUME TrailInv, ReviewInv', NEW c \in Callers, pc[c] = "run", NEW w, NEW events,
         Trail(log \cup events, call[c].thread, w, Successor(run[c].next, w)),
         NodeEnds(c, w, events)
  PROVE  TrailInv'
<1>1. /\ run'[c].values = w /\ run'[c].next = Successor(run[c].next, w)
      /\ run'[c].resumes = run[c].resumes /\ run'[c].offered = FALSE
      /\ \A d \in Callers : d # c => run'[d] = run[d]
  <2>1. run[c] \in Runs /\ run \in [Callers -> Runs]
    BY TrailTypes
  <2>2. QED BY <2>1 DEF NodeEnds, Runs
<1>2. /\ pc'[c] = "commit" /\ UNCHANGED <<checkpoint, call>> /\ log' = log \cup events
      /\ \A d \in Callers : d # c => pc'[d] = pc[d]
  BY TrailTypes DEF NodeEnds
<1>3. \A i \in DOMAIN run[c].resumes : Announced(log, call[c].thread, run[c].resumes[i])
  BY DEF TrailInv, RunTrail
<1>4. \A i \in DOMAIN run[c].resumes : Announced(log', call[c].thread, run[c].resumes[i])
  BY <1>2, <1>3, AnnouncedStays
<1>5. RunTrail(c)'
  BY <1>1, <1>2, <1>4 DEF RunTrail
<1>6. \A t \in Threads : RowsTrail(t)'
  BY <1>2, SameRowsTrail
<1>7. QED BY <1>1, <1>2, <1>5, <1>6, OthersTrail

(* An exception out of a node. *)
LEMMA NodeRaisesTrail ==
  ASSUME TrailInv, ReviewInv', NEW c \in Callers, NEW kind, NodeRaises(c, kind)
  PROVE  TrailInv'
<1>1. UNCHANGED <<checkpoint, log>> /\ \E r : Return(c, r)
  BY DEF NodeRaises, Raise
<1>2. QED BY <1>1, SameRowsTrail, ReturnTrail

(* c saves the checkpoint (v, node) of t. *)
LEMMA SavedTrail ==
  ASSUME TrailInv, ReviewInv', NEW c \in Callers, NEW t \in Threads, NEW v, NEW node,
         Trail(log, t, v, node), log \subseteq log',
         checkpoint' = [checkpoint EXCEPT ![t] = Saved(v, node)],
         \A d \in Callers : d # c => /\ run'[d] = Superseded(c, t)[d]
                                     /\ pc'[d] = pc[d] /\ call'[d] = call[d],
         RunTrail(c)'
  PROVE  TrailInv'
<1>1. /\ checkpoint'[t].values = v /\ checkpoint'[t].next = node
      /\ checkpoint'[t].interrupt = "none" /\ checkpoint'[t].resumes = <<>>
      /\ \A u \in Threads : u # t => checkpoint'[u] = checkpoint[u]
  BY TrailTypes DEF Saved
<1>2. RowsTrail(t)'
  <2>1. Trail(log', t, v, node)
    BY TrailStays
  <2>2. QED BY <1>1, <2>1 DEF RowsTrail
<1>3. ASSUME NEW u \in Threads PROVE RowsTrail(u)'
  <2>1. RowsTrail(u)
    BY DEF TrailInv
  <2>2. QED BY <1>1, <1>2, <2>1, RowsTrailStays
<1>4. ASSUME NEW d \in Callers, d # c PROVE RunTrail(d)'
  <2>1. run'[d] = IF call[d].thread = t THEN [run[d] EXCEPT !.latest = FALSE] ELSE run[d]
    BY <1>4 DEF Superseded
  <2>2. run[d] \in Runs /\ RunTrail(d)
    BY TrailTypes DEF TrailInv
  <2>3. /\ run'[d].values = run[d].values /\ run'[d].next = run[d].next
        /\ run'[d].resumes = run[d].resumes /\ run'[d].offered = run[d].offered
    BY <2>1, <2>2 DEF Runs
  <2>4. QED BY <1>4, <2>2, <2>3, RunTrailStays
<1>5. QED BY <1>3, <1>4 DEF TrailInv

(* A submission saves channels that nobody has reviewed. *)
LEMMA SubmitTrail ==
  ASSUME TrailInv, ReviewInv', NEW c \in Callers, NEW t \in Threads, NEW q \in Questions,
         NEW forced \in BOOLEAN, Submit(c, t, q, forced)
  PROVE  TrailInv'
<1> DEFINE v == NewRequestState(checkpoint[t].values, q, forced)
           r == [NoRun EXCEPT !.values = v, !.next = "retrieve_policy", !.latest = TRUE]
<1>1. pc \in [Callers -> PCs] /\ call \in [Callers -> Calls]
  BY TrailTypes
<1>2. v.review_decision = ""
  BY DEF NewRequestState, NoValues
<1>3. /\ checkpoint' = [checkpoint EXCEPT ![t] = Saved(v, "retrieve_policy")]
      /\ run' = [Superseded(c, t) EXCEPT ![c] = r]
      /\ pc' = [pc EXCEPT ![c] = "run"]
      /\ call' = [call EXCEPT ![c] = [op |-> "submit", thread |-> t, input |-> NoInput]]
      /\ log \subseteq log'
  BY DEF Submit
<1>4. r.values = v /\ r.next = "retrieve_policy" /\ r.resumes = <<>> /\ ~r.offered
  BY DEF NoRun
<1> HIDE DEF v, r
<1>5. run'[c] = r /\ \A d \in Callers : d # c => run'[d] = Superseded(c, t)[d]
  BY <1>3 DEF Superseded
<1>6. /\ call'[c].thread = t /\ pc'[c] = "run"
      /\ \A d \in Callers : d # c => pc'[d] = pc[d] /\ call'[d] = call[d]
  BY <1>1, <1>3
<1>7. \A l : Trail(l, t, v, "retrieve_policy")
  BY <1>2 DEF Trail
<1>8. RunTrail(c)'
  BY <1>4, <1>5, <1>6, <1>7 DEF RunTrail
<1>9. QED BY <1>3, <1>5, <1>6, <1>7, <1>8, SavedTrail

(* A commit saves channels that the log explains already. *)
LEMMA CommitTrail ==
  ASSUME TrailInv, ReviewInv', NEW c \in Callers, Commit(c)
  PROVE  TrailInv'
<1> DEFINE r == [run[c] EXCEPT !.resumes = <<>>, !.latest = TRUE]
<1>1. PICK t, v, node : t = call[c].thread /\ v = run[c].values /\ node = run[c].next
  OBVIOUS
<1>2. t \in Threads /\ run[c] \in Runs /\ pc[c] = "commit" /\ pc \in [Callers -> PCs]
  BY <1>1, TrailTypes DEF TypeInv, CallOnThread, Commit
<1>3. Trail(log, t, v, node) /\ (run[c].offered => Announced(log, t, call[c].input))
  BY <1>1, <1>2 DEF TrailInv, RunTrail
<1>4. /\ checkpoint' = [checkpoint EXCEPT ![t] = Saved(v, node)]
      /\ run' = [Superseded(c, t) EXCEPT ![c] = r]
      /\ pc' = [pc EXCEPT ![c] = IF node = "END" THEN "answer" ELSE "run"]
      /\ UNCHANGED <<call, log>>
  BY <1>1 DEF Commit
<1>5. r.values = v /\ r.next = node /\ r.resumes = <<>> /\ r.offered = run[c].offered
  BY <1>1, <1>2 DEF Runs
<1> HIDE DEF r
<1>6. run'[c] = r /\ \A d \in Callers : d # c => run'[d] = Superseded(c, t)[d]
  BY <1>4 DEF Superseded
<1>7. pc'[c] \in {"answer", "run"} /\ \A d \in Callers : d # c => pc'[d] = pc[d]
  BY <1>2, <1>4
<1>8. RunTrail(c)'
  BY <1>1, <1>3, <1>4, <1>5, <1>6, <1>7 DEF RunTrail
<1>9. QED BY <1>2, <1>3, <1>4, <1>6, <1>7, <1>8, SavedTrail

(* A resume announces its input, or is refused. *)
LEMMA ResumeTrail ==
  ASSUME TrailInv, ReviewInv', NEW c \in Callers, NEW t \in Threads, NEW raw \in RawInputs,
         ResumeRefused(c, t, raw) \/ ResumeChecked(c, t, raw)
  PROVE  TrailInv'
<1>1. CASE ResumeRefused(c, t, raw)
  <2>1. UNCHANGED <<checkpoint, log>> /\ \E r : Return(c, r)
    BY <1>1 DEF ResumeRefused, Raise
  <2>2. QED BY <2>1, SameRowsTrail, ReturnTrail
<1>2. CASE ResumeChecked(c, t, raw)
  <2>1. /\ log' = log \cup {[Event("request.resumed", t) EXCEPT !.decision = raw.decision,
                                                                 !.reviewer = raw.reviewer]}
        /\ pc' = [pc EXCEPT ![c] = "checked"]
        /\ call' = [call EXCEPT ![c] = [op |-> "resume", thread |-> t, input |-> raw]]
        /\ UNCHANGED <<checkpoint, run>>
    BY <1>2 DEF ResumeChecked
  <2>2. /\ pc'[c] = "checked" /\ call'[c].thread = t /\ call'[c].input = raw
        /\ \A d \in Callers : d # c => pc'[d] = pc[d] /\ call'[d] = call[d]
    BY <2>1, TrailTypes
  <2>3. Announced(log', t, raw)
    BY <2>1 DEF Announced
  <2>4. RunTrail(c)'
    BY <2>2, <2>3 DEF RunTrail
  <2>5. log \subseteq log' /\ \A u \in Threads : RowsTrail(u)'
    BY <2>1, SameRowsTrail
  <2>6. QED BY <2>1, <2>2, <2>4, <2>5, OthersTrail
<1>3. QED BY <1>1, <1>2

(* An invocation takes channels and inputs from the checkpoint. *)
LEMMA InvokeTrail ==
  ASSUME TrailInv, ReviewInv', NEW c \in Callers, Invoke(c)
  PROVE  TrailInv'
<1> DEFINE cp == checkpoint[call[c].thread]
           r  == [NoRun EXCEPT !.values = cp.values, !.next = cp.next,
                               !.resumes = cp.resumes, !.offered = TRUE, !.latest = TRUE]
<1>1. call[c].thread \in Threads /\ pc[c] = "checked"
  BY TrailTypes DEF TypeInv, CallOnThread, Invoke
<1>2. RowsTrail(call[c].thread) /\ RunTrail(c)
  BY <1>1 DEF TrailInv
<1>3. r.values = cp.values /\ r.next = cp.next /\ r.resumes = cp.resumes
  BY DEF NoRun
<1>4. run' = [run EXCEPT ![c] = r] /\ UNCHANGED <<checkpoint, call, log>>
  BY DEF Invoke
<1> HIDE DEF r
<1>5. run'[c] = r /\ \A d \in Callers : d # c => run'[d] = run[d]
  BY <1>4, TrailTypes
<1>6. \A d \in Callers : d # c => pc'[d] = pc[d]
  BY TrailTypes DEF Invoke
<1>7. Announced(log, call[c].thread, call[c].input)
  BY <1>1, <1>2 DEF RunTrail
<1>8. pc'[c] # "checked"
  BY TrailTypes DEF Invoke
<1>9. RunTrail(c)'
  BY <1>2, <1>3, <1>4, <1>5, <1>7, <1>8 DEF RunTrail, RowsTrail
<1>10. \A t \in Threads : RowsTrail(t)'
  BY <1>4, SameRowsTrail
<1>11. QED BY <1>4, <1>5, <1>6, <1>9, <1>10, OthersTrail

(* Everything the gate is given was announced. *)
LEMMA GivenAnnounced ==
  ASSUME TrailInv, NEW c \in Callers, pc[c] = "run"
  PROVE  \A i \in DOMAIN Given(c) : Announced(log, call[c].thread, Given(c)[i])
<1> DEFINE s == run[c].resumes
           x == call[c].input
<1>1. s \in Seq(RawInputs) /\ x \in RawInputs
  BY TrailTypes, RunContext
<1>2. /\ \A i \in DOMAIN s : Announced(log, call[c].thread, s[i])
      /\ run[c].offered => Announced(log, call[c].thread, x)
  BY DEF TrailInv, RunTrail
<1>3. Given(c) = IF run[c].offered THEN Append(s, x) ELSE s
  BY DEF Given
<1> HIDE DEF s, x
<1>4. CASE run[c].offered
  <2>1. /\ DOMAIN Append(s, x) = DOMAIN s \cup {Len(s) + 1}
        /\ Append(s, x)[Len(s) + 1] = x
        /\ \A i \in DOMAIN s : Append(s, x)[i] = s[i]
    BY <1>1
  <2>2. QED BY <1>2, <1>3, <1>4, <2>1
<1>5. CASE ~run[c].offered
  BY <1>2, <1>3, <1>5
<1>6. QED BY <1>4, <1>5

(* The rows of the gate: its interrupt, and what it was given. *)
LEMMA TaskRowsTrail ==
  ASSUME TrailInv, NEW c \in Callers, pc[c] = "run", NEW kind \in InterruptKinds,
         NEW g \in Seq(RawInputs), log \subseteq log',
         \A i \in DOMAIN g : Announced(log, call[c].thread, g[i]),
         kind # "none" => Event("human_review.requested", call[c].thread) \in log',
         checkpoint' = TaskRows(c, kind, g)
  PROVE  \A t \in Threads : RowsTrail(t)'
<1>1. PICK t : t = call[c].thread
  OBVIOUS
<1>2. t \in Threads /\ checkpoint[t] \in Checkpoints
  BY <1>1, TrailTypes, RunContext
<1>3. \A u \in Threads : RowsTrail(u)
  BY DEF TrailInv
<1>4. CASE ~run[c].latest
  BY <1>4, SameRowsTrail DEF TaskRows
<1>5. CASE run[c].latest
  <2>1. checkpoint' = [checkpoint EXCEPT ![t] = [checkpoint[t] EXCEPT !.interrupt = kind,
                                                                      !.resumes   = g]]
    BY <1>1, <1>5 DEF TaskRows
  <2>2. /\ checkpoint'[t].values = checkpoint[t].values
        /\ checkpoint'[t].next = checkpoint[t].next
        /\ checkpoint'[t].interrupt = kind /\ checkpoint'[t].resumes = g
        /\ \A u \in Threads : u # t => checkpoint'[u] = checkpoint[u]
    BY <1>2, <2>1, TrailTypes DEF Checkpoints
  <2>3. Trail(log', t, checkpoint[t].values, checkpoint[t].next)
    BY <1>2, <1>3, TrailStays DEF RowsTrail
  <2>4. \A i \in DOMAIN g : Announced(log', t, g[i])
    BY <1>1, AnnouncedStays
  <2>5. RowsTrail(t)'
    BY <1>1, <2>2, <2>3, <2>4 DEF RowsTrail, Event
  <2>6. ASSUME NEW u \in Threads PROVE RowsTrail(u)'
    BY <1>3, <2>2, <2>5, RowsTrailStays
  <2>7. QED BY <2>6
<1>6. QED BY <1>4, <1>5

(* The gate suspends, decides or raises. *)
LEMMA GateStepTrail ==
  ASSUME TrailInv, ReviewInv', NEW c \in Callers,
         ReviewSuspends(c) \/ ReviewDecided(c) \/ ReviewRaises(c)
  PROVE  TrailInv'
<1> DEFINE g == Given(c)
           v == run[c].values
<1>1. PICK t : t = call[c].thread
  OBVIOUS
<1>2. pc[c] = "run" /\ run[c].next = "interrupt_for_review"
  BY DEF ReviewSuspends, ReviewDecided, ReviewRaises, At
<1>3. /\ v \in Values /\ t \in Threads /\ g \in Seq(RawInputs)
      /\ checkpoint[t].interrupt \in InterruptKinds /\ run[c].resumes \in Seq(RawInputs)
  BY <1>1, <1>2, TrailTypes, RunContext, GivenType DEF Checkpoints
<1>4. \A i \in DOMAIN g : Announced(log, t, g[i])
  BY <1>1, <1>2, GivenAnnounced
<1>5. /\ Trail(log, t, v, "interrupt_for_review")
      /\ \A i \in DOMAIN run[c].resumes : Announced(log, t, run[c].resumes[i])
  BY <1>1, <1>2 DEF TrailInv, RunTrail
<1>6. CASE ReviewSuspends(c)
  <2> DEFINE kind == IF g = <<>> THEN "review" ELSE "review_with_error"
  <2>1. /\ checkpoint' = TaskRows(c, kind, g)
        /\ run' = [run EXCEPT ![c] = [run[c] EXCEPT !.paused = kind]]
        /\ pc' = [pc EXCEPT ![c] = "answer"]
        /\ log' = log \cup ReviewEvents(t, g)
        /\ UNCHANGED call
    BY <1>1, <1>6 DEF ReviewSuspends
  <2>2. kind \in InterruptKinds
    BY DEF InterruptKinds
  <2>3. log \subseteq log' /\ Event("human_review.requested", t) \in log'
    BY <2>1 DEF ReviewEvents
  <2> HIDE DEF g, kind
  <2>4. \A u \in Threads : RowsTrail(u)'
    BY <1>1, <1>2, <1>3, <1>4, <2>1, <2>2, <2>3, TaskRowsTrail
  <2>5. /\ pc'[c] = "answer"
        /\ \A d \in Callers : d # c => run'[d] = run[d] /\ pc'[d] = pc[d]
    BY <2>1, TrailTypes
  <2>6. RunTrail(c)'
    BY <2>5 DEF RunTrail
  <2>7. QED BY <2>1, <2>3, <2>4, <2>5, <2>6, OthersTrail
<1>7. CASE ReviewDecided(c)
  <2> DEFINE raw == Decisive(g)
             d   == ParseReviewInput(raw)
             w   == InterruptForReview(v, d)
             events == ReviewEvents(t, g)
                         \cup {[Event("human_review.recorded", t)
                                  EXCEPT !.decision = d.decision, !.reviewer = d.reviewer]}
  <2>1. Decided(g) /\ NodeEnds(c, w, events)
    BY <1>1, <1>7 DEF ReviewDecided
  <2>2. raw \in RawInputs /\ Accepted(raw)
    BY <1>3, <2>1, DecisiveType
  <2>3. Announced(log, t, raw)
    <3>1. \E i \in DOMAIN g : raw = g[i]
      BY <1>3, <2>1 DEF Decided, Decisive
    <3>2. QED BY <1>4, <3>1
  <2>4. Started(v.route_history)
    BY <1>5 DEF Trail
  <2>5. Trail(log \cup events, t, w, "apply_feedback")
    BY <1>3, <2>2, <2>3, <2>4, GateTrail
  <2>6. Successor(run[c].next, w) = "apply_feedback"
    BY <1>2 DEF Successor
  <2> HIDE DEF w, events
  <2>7. QED BY <1>1, <1>2, <2>1, <2>5, <2>6, NodeEndsTrail
<1>8. CASE ReviewRaises(c)
  <2>1. /\ ~Suspends(g) /\ ~Decided(g) /\ log' = log \cup ReviewEvents(t, g)
        /\ \E r : Return(c, r)
    BY <1>1, <1>8 DEF ReviewRaises, Raise
  <2>2. PICK kept \in {run[c].resumes, SubSeq(g, 1, 2)} :
          checkpoint' = TaskRows(c, checkpoint[t].interrupt, kept)
    BY <1>1, <1>8 DEF ReviewRaises
  <2>3. kept \in Seq(RawInputs) /\ \A i \in DOMAIN kept : Announced(log, t, kept[i])
    <3>1. SubSeq(g, 1, 2) \in Seq(RawInputs)
      BY <1>3, <2>1, KeptType
    <3>2. Len(g) >= 2 /\ Len(g) \in Nat
      BY <1>3, <2>1 DEF Suspends
    <3>3. /\ DOMAIN SubSeq(g, 1, 2) = 1 .. 2
          /\ \A i \in 1 .. 2 : SubSeq(g, 1, 2)[i] = g[i] /\ i \in DOMAIN g
      BY <1>3, <3>2
    <3>4. QED BY <1>3, <1>4, <1>5, <3>1, <3>3
  <2>4. checkpoint[t].interrupt # "none" => Event("human_review.requested", t) \in log'
    BY <2>1 DEF ReviewEvents
  <2>5. \A u \in Threads : RowsTrail(u)'
    BY <1>1, <1>2, <1>3, <2>1, <2>2, <2>3, <2>4, TaskRowsTrail
  <2>6. QED BY <2>1, <2>5, ReturnTrail
<1>9. QED BY <1>6, <1>7, <1>8

(* Each node. *)
LEMMA RunNodeTrail ==
  ASSUME TrailInv, ReviewInv', NEW c \in Callers, RunNode(c)
  PROVE  TrailInv'
<1> DEFINE v == run[c].values
           t == call[c].thread
<1>1. pc[c] = "run"
  BY DEF RunNode, Retrieve, Draft, ClassifyNode, ReviewSuspends, ReviewDecided, ReviewRaises,
         ApplyReview, Finalize, Fail, At
<1>2. v \in Values /\ Coherent(v, run[c].next) /\ Trail(log, t, v, run[c].next)
  <2>1. v \in Values
    BY <1>1, TrailTypes, RunContext
  <2>2. QED BY <1>1, <2>1 DEF TrailInv, RunTrail, ReviewInv, RunsCoherent
<1>3. CASE Retrieve(c)
  <2>1. PICK outcome \in Retrievals : NodeEnds(c, RetrievePolicy(v, outcome), {})
    BY <1>3 DEF Retrieve
  <2> DEFINE w == RetrievePolicy(v, outcome)
  <2>2. run[c].next = "retrieve_policy" /\ v.review_decision = ""
    BY <1>2, <1>3 DEF Retrieve, At, Coherent, Unreviewed
  <2>3. Continues(v, "retrieve_policy", w)
    BY <1>2 DEF RetrievePolicy, Visited, Values, Continues
  <2>4. Successor("retrieve_policy", w) # "END"
    BY DEF Successor, RouteAfterRetrieval
  <2> HIDE DEF v, w
  <2>5. Trail(log \cup {}, t, w, Successor(run[c].next, w))
    BY <1>2, <2>2, <2>3, <2>4, FirstTrail
  <2>6. QED BY <1>1, <2>1, <2>5, NodeEndsTrail DEF v, w
<1>4. CASE Draft(c)
  <2>1. PICK reply \in Assessments :
          NodeRaises(c, "DraftTypeError") \/ NodeEnds(c, DraftAssessment(v, reply), {})
    BY <1>4 DEF Draft
  <2> DEFINE w == DraftAssessment(v, reply)
  <2>2. run[c].next = "draft_assessment"
    BY <1>4 DEF Draft, At
  <2>3. Continues(v, "draft_assessment", w)
    BY <1>2 DEF DraftAssessment, Visited, Values, Continues
  <2>4. Successor("draft_assessment", w) # "END"
    BY DEF Successor
  <2> HIDE DEF v, w
  <2>5. Trail(log \cup {}, t, w, Successor(run[c].next, w))
    BY <1>2, <2>2, <2>3, <2>4, NodeTrail DEF WorkNodes
  <2>6. QED BY <1>1, <2>1, <2>5, NodeEndsTrail, NodeRaisesTrail DEF v, w
<1>5. CASE ClassifyNode(c)
  <2>1. PICK reply \in Verdicts :
          NodeRaises(c, "ClassifierTypeError") \/ NodeEnds(c, ClassifyRisk(v, reply), {})
    BY <1>5 DEF ClassifyNode
  <2> DEFINE w == ClassifyRisk(v, reply)
  <2>2. run[c].next = "classify_risk"
    BY <1>5 DEF ClassifyNode, At
  <2>3. Continues(v, "classify_risk", w)
    BY <1>2 DEF ClassifyRisk, Visited, Values, Continues
  <2>4. Successor("classify_risk", w) # "END"
    BY DEF Successor, RouteAfterRisk
  <2> HIDE DEF v, w
  <2>5. Trail(log \cup {}, t, w, Successor(run[c].next, w))
    BY <1>2, <2>2, <2>3, <2>4, NodeTrail DEF WorkNodes
  <2>6. QED BY <1>1, <2>1, <2>5, NodeEndsTrail, NodeRaisesTrail DEF v, w
<1>6. CASE ReviewSuspends(c) \/ ReviewDecided(c) \/ ReviewRaises(c)
  BY <1>6, GateStepTrail
<1>7. CASE ApplyReview(c)
  <2> DEFINE w == ApplyFeedback(v)
  <2>1. NodeEnds(c, w, {}) /\ run[c].next = "apply_feedback"
    BY <1>7 DEF ApplyReview, At
  <2>2. Continues(v, "apply_feedback", w)
    BY <1>2 DEF ApplyFeedback, Visited, Values, Continues
  <2>3. Successor("apply_feedback", w) # "END"
    BY DEF Successor
  <2> HIDE DEF v, w
  <2>4. Trail(log \cup {}, t, w, Successor(run[c].next, w))
    BY <1>2, <2>1, <2>2, <2>3, NodeTrail DEF WorkNodes
  <2>5. QED BY <1>1, <2>1, <2>4, NodeEndsTrail DEF v, w
<1>8. CASE Finalize(c)
  <2> DEFINE w == FinalizeDecision(v)
             events == {[Event("decision.finalized", t)
                           EXCEPT !.decision = v.review_decision, !.status = StatusFor(v)]}
  <2>1. run[c].next = "finalize_decision"
    BY <1>8 DEF Finalize, At
  <2>2. NodeEnds(c, w, events) \/ NodeRaises(c, "HumanReviewBypassError")
    BY <1>8 DEF Finalize
  <2>3. Trail(log \cup events, t, w, "END")
    BY <1>2, <2>1, FinalizeTrail
  <2>4. Successor("finalize_decision", w) = "END"
    BY DEF Successor
  <2> HIDE DEF w, events
  <2>5. QED BY <1>1, <2>1, <2>2, <2>3, <2>4, NodeEndsTrail, NodeRaisesTrail
<1>9. CASE Fail(c)
  <2> DEFINE w == RecordFailure(v)
             events == {Event("decision.failed", t)}
  <2>1. run[c].next = "record_failure" /\ NodeEnds(c, w, events)
    BY <1>9 DEF Fail, At
  <2>2. Trail(log \cup events, t, w, "END")
    BY <1>2, <2>1, FailTrail
  <2>3. Successor("record_failure", w) = "END"
    BY DEF Successor
  <2> HIDE DEF w, events
  <2>4. QED BY <1>1, <2>1, <2>2, <2>3, NodeEndsTrail
<1>10. QED BY <1>3, <1>4, <1>5, <1>6, <1>7, <1>8, <1>9 DEF RunNode

(* The end of a call, by its result or by the death of its process. *)
LEMMA EndTrail ==
  ASSUME TrailInv, ReviewInv', NEW c \in Callers, Answer(c) \/ Crash(c)
  PROVE  TrailInv'
<1>1. UNCHANGED <<checkpoint, log>> /\ \E r : Return(c, r)
  BY DEF Answer, Crash, Raise
<1>2. QED BY <1>1, SameRowsTrail, ReturnTrail

-----------------------------------------------------------------------------
(* Before any call there is nothing to explain. *)
LEMMA InitTrail == Init => TrailInv
<1>1. SUFFICES ASSUME Init PROVE TrailInv
  OBVIOUS
<1>2. ReviewInv
  BY <1>1, InitReview
<1>3. ASSUME NEW t \in Threads PROVE RowsTrail(t)
  <2>1. NoValues.review_decision = ""
    BY DEF NoValues
  <2>2. Trail(log, t, NoValues, "none")
    BY <2>1 DEF Trail
  <2>3. checkpoint[t] = NoCheckpoint
    BY <1>1 DEF Init
  <2>4. QED BY <2>2, <2>3 DEF RowsTrail, NoCheckpoint
<1>4. ASSUME NEW c \in Callers PROVE RunTrail(c)
  BY <1>1 DEF Init, RunTrail
<1>5. QED BY <1>2, <1>3, <1>4 DEF TrailInv

(* Every step preserves the trail. *)
LEMMA NextTrail == TrailInv /\ [Next]_vars => TrailInv'
<1>1. SUFFICES ASSUME TrailInv, [Next]_vars PROVE TrailInv'
  OBVIOUS
<1>2. ReviewInv'
  BY <1>1, NextReview DEF TrailInv
<1>3. ASSUME NEW c \in Callers, NEW t \in Threads, NEW q \in Questions, NEW forced \in BOOLEAN,
             Submit(c, t, q, forced)
      PROVE  TrailInv'
  BY <1>1, <1>2, <1>3, SubmitTrail
<1>4. ASSUME NEW c \in Callers, NEW t \in Threads, NEW raw \in ReviewerInputs,
             ResumeRefused(c, t, raw) \/ ResumeChecked(c, t, raw)
      PROVE  TrailInv'
  <2>1. raw \in RawInputs
    BY InstanceAssumption
  <2>2. QED BY <1>1, <1>2, <1>4, <2>1, ResumeTrail
<1>5. ASSUME NEW c \in Callers, Proceed(c)
      PROVE  TrailInv'
  BY <1>1, <1>2, <1>5, InvokeTrail, RunNodeTrail, CommitTrail, EndTrail DEF Proceed
<1>6. ASSUME NEW c \in Callers, Crash(c)
      PROVE  TrailInv'
  BY <1>1, <1>2, <1>6, EndTrail
<1>7. CASE UNCHANGED vars
  <2>1. /\ log \subseteq log' /\ UNCHANGED checkpoint
        /\ \A d \in Callers : pc'[d] = pc[d] /\ call'[d] = call[d] /\ run'[d] = run[d]
    BY <1>7 DEF vars
  <2>2. \A t \in Threads : RowsTrail(t)'
    BY <1>1, <2>1, SameRowsTrail
  <2>3. ASSUME NEW d \in Callers PROVE RunTrail(d)'
    BY <1>1, <2>1, RunTrailStays DEF TrailInv
  <2>4. QED BY <1>2, <2>2, <2>3 DEF TrailInv
<1>8. QED BY <1>1, <1>3, <1>4, <1>5, <1>6, <1>7 DEF Next

(* What a checkpoint says of a review or of an end is in the log, before   *)
(* it is in the checkpoint, and belongs to the last submission.            *)
THEOREM TrailInvariant == Spec => []TrailInv
<1>1. Init => TrailInv
  BY InitTrail
<1>2. TrailInv /\ [Next]_vars => TrailInv'
  BY NextTrail
<1>3. QED BY <1>1, <1>2, PTL DEF Spec

(* Every decision in a checkpoint was recorded, after a resume that asked  *)
(* for it, and every end was logged as it is.                              *)
THEOREM LogExplains == Spec => []AuditTrail
<1>1. TrailInv => AuditTrail
  BY DEF TrailInv, RowsTrail, Trail, Recorded, Ended, AuditTrail
<1>2. QED BY <1>1, TrailInvariant, PTL

(* A resubmitted id never carries the review of the request before it.     *)
THEOREM ReviewIsItsOwn == Spec => []DecisionOfThisSubmission
<1>1. TrailInv => DecisionOfThisSubmission
  BY DEF TrailInv, RowsTrail, Trail, DecisionOfThisSubmission
<1>2. QED BY <1>1, TrailInvariant, PTL

(* While a thread is parked nothing is decided or released, and the log    *)
(* has the request for its review.                                         *)
THEOREM ParkedIsUnreleased == Spec => []NothingReleasedWhileParked
<1>1. TrailInv => NothingReleasedWhileParked
  <2>1. SUFFICES ASSUME TrailInv, NEW t \in Threads, checkpoint[t].interrupt # "none"
                 PROVE  /\ Unreviewed(checkpoint[t].values)
                        /\ Unreleased(checkpoint[t].values)
                        /\ Event("human_review.requested", t) \in log
    BY DEF NothingReleasedWhileParked
  <2>2. /\ checkpoint[t].next = "interrupt_for_review"
        /\ Coherent(checkpoint[t].values, checkpoint[t].next)
    BY <2>1 DEF TrailInv, ReviewInv, InterruptAtNode, CheckpointsCoherent
  <2>3. QED BY <2>1, <2>2 DEF TrailInv, RowsTrail, Coherent
<1>2. QED BY <1>1, TrailInvariant, PTL
=============================================================================
