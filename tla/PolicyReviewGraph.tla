------------------------- MODULE PolicyReviewGraph -------------------------
(***************************************************************************)
(* The policy-review graph of agent/graph.py: the channel values of one    *)
(* thread (agent/state.py), what each node of agent/nodes/ writes to them, *)
(* and the routes between the nodes (agent/routes.py).                     *)
(*                                                                         *)
(* Passages, texts and time stamps are abstracted: the evidence is its     *)
(* grade (the retriever keeps no passage exactly when the grade is "none"),*)
(* a draft is the kind of statement it makes and, of its conditions, basis *)
(* and uncertainty, where they come from; a final answer is what it prints *)
(* of these, with its approval line.                                       *)
(***************************************************************************)
EXTENDS RiskClassification, ReviewInput, Sequences

CONSTANTS Questions,   \* the questions that can be submitted
          Signals      \* Signals[q]: the levels of the taxonomy signals q matches

ASSUME QuestionsAssumption == Signals \in [Questions -> SUBSET SignalLevels]

NoQuestion == "no question"

ASSUME NoQuestionAssumption == NoQuestion \notin Questions

WorkNodes == {"retrieve_policy", "draft_assessment", "classify_risk",
              "interrupt_for_review", "apply_feedback", "finalize_decision",
              "record_failure"}

(* What snapshot.next of a thread holds; "END" once the graph has ended.   *)
Nodes == WorkNodes \cup {"END"}

Grades == {"strong", "weak", "none"}

(* What the retriever can answer: a grade, or an error. *)
RetrievalOutcomes == Grades \cup {"error"}

(***************************************************************************)
(* What the model's reply to the assessment prompt can be: an answer; an   *)
(* object without an answer; LLMError; text without a JSON object; or an   *)
(* answer whose "basis" or "conditions" cannot be iterated over.  parts:   *)
(* what it fills in besides.                                               *)
(***************************************************************************)
AssessmentReplies ==
  [kind  : {"answer", "empty_answer", "unavailable", "no_object", "bad_fields"},
   parts : SUBSET {"basis", "conditions", "uncertainty"}]

(***************************************************************************)
(* Who wrote a part of a draft: nobody, the model, or the node in its      *)
(* place: the citations of the passages, a remark on a grade that is not   *)
(* strong, or the reason why there is no assessment.                       *)
(***************************************************************************)
Origins == {"", "model", "citations", "grade", "insufficiency"}

Drafts == {"", "assessed", "no_evidence", "retrieval_failed", "model_failed",
           "superseded", "changes_required", "uninterpretable"}

Statuses == {"", "pending_human_review", "completed", "rejected_by_reviewer", "failed"}

FinalAnswers == [body        : Drafts \cup {"unresolved"},
                 conditions  : Origins,
                 basis       : Origins,
                 uncertainty : Origins,
                 approval    : {"", "granted", "not_granted", "not_required"}]

NoAnswer == [body |-> "", conditions |-> "", basis |-> "", uncertainty |-> "", approval |-> ""]

DecisionRecords ==
  [status      : Statuses,
   question    : Questions \cup {NoQuestion},
   grade       : Grades \cup {""},
   level       : RiskLevels \cup {""},
   required    : BOOLEAN,
   decision    : Decisions \cup {""},
   approved    : BOOLEAN,
   reviewer    : Reviewers \cup {NoReviewer},
   feedback    : BOOLEAN,
   answer      : Drafts,
   basis       : Origins,
   conditions  : Origins,
   uncertainty : Origins,
   route       : Seq(WorkNodes),
   errors      : SUBSET WorkNodes]

NoRecord ==
  [status |-> "", question |-> NoQuestion, grade |-> "", level |-> "",
   required |-> FALSE, decision |-> "", approved |-> FALSE,
   reviewer |-> NoReviewer, feedback |-> FALSE, answer |-> "",
   basis |-> "", conditions |-> "", uncertainty |-> "",
   route |-> <<>>, errors |-> {}]

(***************************************************************************)
(* PolicyReviewState.  errors is the set of the nodes that appended to the *)
(* error list: its order and its repetitions are left out.                 *)
(***************************************************************************)
Values ==
  [question           : Questions \cup {NoQuestion},
   force_human_review : BOOLEAN,
   evidence_grade     : Grades,
   retrieval_error    : BOOLEAN,
   draft_answer       : Drafts,
   draft_basis        : Origins,
   draft_conditions   : Origins,
   draft_uncertainty  : Origins,
   risk_level         : RiskLevels \cup {""},
   review_required    : BOOLEAN,
   review_decision    : Decisions \cup {""},
   approved           : BOOLEAN,
   reviewer_id        : Reviewers \cup {NoReviewer},
   reviewer_feedback  : BOOLEAN,
   final_answer       : FinalAnswers,
   decision_record    : DecisionRecords,
   status             : Statuses,
   route_history      : Seq(WorkNodes),
   errors             : SUBSET WorkNodes]

(* The channels of a thread nothing was ever submitted to. *)
NoValues ==
  [question           |-> NoQuestion,
   force_human_review |-> FALSE,
   evidence_grade     |-> "none",
   retrieval_error    |-> FALSE,
   draft_answer       |-> "",
   draft_basis        |-> "",
   draft_conditions   |-> "",
   draft_uncertainty  |-> "",
   risk_level         |-> "",
   review_required    |-> FALSE,
   review_decision    |-> "",
   approved           |-> FALSE,
   reviewer_id        |-> NoReviewer,
   reviewer_feedback  |-> FALSE,
   final_answer       |-> NoAnswer,
   decision_record    |-> NoRecord,
   status             |-> "",
   route_history      |-> <<>>,
   errors             |-> {}]

(* Mutation: the review of the previous request is not reset. *)
MutantNewRequestState(old, q, forced) ==
  [NoValues EXCEPT !.question           = q,
                   !.force_human_review = forced,
                   !.review_decision    = old.review_decision,
                   !.approved           = old.approved,
                   !.reviewer_id        = old.reviewer_id,
                   !.route_history      = old.route_history,
                   !.errors             = old.errors]

(***************************************************************************)
(* The channels after new_request_state(q, forced) is given as input to a  *)
(* thread whose channels were old: every channel is overwritten, but       *)
(* route_history and errors carry the operator.add reducer, so that the    *)
(* empty lists of the input append nothing to them.                        *)
(***************************************************************************)
NewRequestState(old, q, forced) ==
  [NoValues EXCEPT !.question           = q,
                   !.force_human_review = forced,
                   !.route_history      = old.route_history,
                   !.errors             = old.errors]

-----------------------------------------------------------------------------
(* The nodes.  Visited is the part of traced_node that writes state.       *)

Visited(v, node) == [v EXCEPT !.route_history = Append(v.route_history, node)]

(* Mutation: the outcome is stored as the grade whatever it is. *)
MutantRetrievePolicy(v, outcome) ==
  Visited([v EXCEPT !.evidence_grade = outcome, !.retrieval_error = (outcome = "error")],
          "retrieve_policy")

RetrievePolicy(v, outcome) ==
  IF outcome = "error"
    THEN Visited([v EXCEPT !.evidence_grade  = "none",
                           !.retrieval_error = TRUE,
                           !.errors          = @ \cup {"retrieve_policy"}],
                 "retrieve_policy")
    ELSE Visited([v EXCEPT !.evidence_grade  = outcome,
                           !.retrieval_error = FALSE],
                 "retrieve_policy")

(* The model is called only with evidence to show it. *)
AsksForAssessment(v) == ~v.retrieval_error /\ v.evidence_grade # "none"

(* draft_assessment raises instead of returning. *)
DraftRaises(v, reply) == AsksForAssessment(v) /\ reply.kind = "bad_fields"

DraftKind(v, reply) ==
  CASE v.retrieval_error -> "retrieval_failed"
    [] ~v.retrieval_error /\ v.evidence_grade = "none" -> "no_evidence"
    [] AsksForAssessment(v) /\ reply.kind = "empty_answer" -> "no_evidence"
    [] AsksForAssessment(v) /\ reply.kind \in {"unavailable", "no_object"} -> "model_failed"
    [] OTHER -> "assessed"

(* What the draft says beside its answer; an insufficient one, the reason. *)
DraftBasis(kind, reply) ==
  IF kind # "assessed" THEN "" ELSE IF "basis" \in reply.parts THEN "model" ELSE "citations"

DraftConditions(kind, reply) ==
  IF kind = "assessed" /\ "conditions" \in reply.parts THEN "model" ELSE ""

DraftUncertainty(kind, reply, grade) ==
  CASE kind # "assessed" -> "insufficiency"
    [] kind = "assessed" /\ "uncertainty" \in reply.parts -> "model"
    [] OTHER -> IF grade = "strong" THEN "" ELSE "grade"

DraftAssessment(v, reply) ==
  LET kind == DraftKind(v, reply) IN
  Visited([v EXCEPT !.draft_answer      = kind,
                    !.draft_basis       = DraftBasis(kind, reply),
                    !.draft_conditions  = DraftConditions(kind, reply),
                    !.draft_uncertainty = DraftUncertainty(kind, reply, v.evidence_grade),
                    !.errors = IF kind = "assessed" THEN @ ELSE @ \cup {"draft_assessment"}],
          "draft_assessment")

(* Mutation: only the classifier's verdict makes a review required. *)
MutantClassifyRisk(v, reply) ==
  LET level == Classify(Signals[v.question], reply) IN
  Visited([v EXCEPT !.risk_level      = level,
                    !.review_required = (level = "high")],
          "classify_risk")

ClassifyRisk(v, reply) ==
  LET level == Classify(Signals[v.question], reply) IN
  Visited([v EXCEPT !.risk_level      = level,
                    !.review_required = (level = "high" \/ v.force_human_review)],
          "classify_risk")

(* interrupt_for_review once it has accepted a decision d. *)
InterruptForReview(v, d) ==
  Visited([v EXCEPT !.review_decision   = d.decision,
                    !.approved          = (d.decision = "approved"),
                    !.reviewer_id       = d.reviewer,
                    !.reviewer_feedback = d.feedback,
                    !.status            = "pending_human_review"],
          "interrupt_for_review")

(* Mutation: the reviewer's objection is added to the draft, which stays. *)
MutantApplyFeedback(v) == Visited(v, "apply_feedback")

(* Only draft_answer is replaced: what the draft says beside it stays.     *)
ApplyFeedback(v) ==
  LET draft == CASE v.review_decision = "approved"          -> v.draft_answer
                 [] v.review_decision = "rejected"          -> "superseded"
                 [] v.review_decision = "changes_requested" -> "changes_required"
                 [] OTHER                                   -> "uninterpretable"
  IN  Visited([v EXCEPT !.draft_answer = draft,
                        !.errors = IF draft = "uninterpretable"
                                     THEN @ \cup {"apply_feedback"} ELSE @],
              "apply_feedback")

NeedsReview(v) == v.risk_level = "high" \/ v.force_human_review

(* _assert_human_review_not_bypassed raises. *)
BypassDetected(v) == NeedsReview(v) /\ v.review_decision = ""

(* Mutation: a review that took place completes the request. *)
MutantStatusFor(v) ==
  CASE v.retrieval_error -> "failed"
    [] ~v.retrieval_error /\ v.review_required -> "completed"
    [] OTHER -> IF v.evidence_grade = "none" THEN "failed" ELSE "completed"

StatusFor(v) ==
  CASE v.retrieval_error -> "failed"
    [] ~v.retrieval_error /\ v.review_required ->
         IF v.review_decision = "approved" THEN "completed" ELSE "rejected_by_reviewer"
    [] OTHER -> IF v.evidence_grade = "none" THEN "failed" ELSE "completed"

ComposeAnswer(v) ==
  [body        |-> v.draft_answer,
   conditions  |-> v.draft_conditions,
   basis       |-> v.draft_basis,
   uncertainty |-> v.draft_uncertainty,
   approval    |-> IF ~v.review_required THEN "not_required"
                   ELSE IF v.review_decision = "approved" THEN "granted"
                   ELSE "not_granted"]

BuildRecord(v, status) ==
  [status |-> status, question |-> v.question, grade |-> v.evidence_grade,
   level |-> v.risk_level, required |-> v.review_required,
   decision |-> v.review_decision, approved |-> v.approved,
   reviewer |-> v.reviewer_id, feedback |-> v.reviewer_feedback,
   answer |-> v.draft_answer, basis |-> v.draft_basis,
   conditions |-> v.draft_conditions, uncertainty |-> v.draft_uncertainty,
   route |-> v.route_history, errors |-> v.errors]

FinalizeDecision(v) ==
  Visited([v EXCEPT !.final_answer    = ComposeAnswer(v),
                    !.decision_record = BuildRecord(v, StatusFor(v)),
                    !.status          = StatusFor(v)],
          "finalize_decision")

RecordFailure(v) ==
  Visited([v EXCEPT !.final_answer    = [NoAnswer EXCEPT !.body = "unresolved"],
                    !.status          = "failed",
                    !.decision_record = [NoRecord EXCEPT !.status   = "failed",
                                                         !.question = v.question,
                                                         !.grade    = v.evidence_grade,
                                                         !.route    = v.route_history,
                                                         !.errors   = v.errors]],
          "record_failure")

-----------------------------------------------------------------------------
(* The routes. *)

RouteAfterRetrieval(v) == IF v.retrieval_error THEN "record_failure" ELSE "draft_assessment"

(* Mutation: the submitter's request for a review is not looked at. *)
MutantRouteAfterRisk(v) ==
  IF v.risk_level = "high" \/ v.risk_level \notin RiskLevels
    THEN "interrupt_for_review" ELSE "finalize_decision"

RouteAfterRisk(v) ==
  IF NeedsReview(v) \/ v.risk_level \notin RiskLevels
    THEN "interrupt_for_review" ELSE "finalize_decision"

(* Mutation: a request that was not approved goes back to the gate. *)
MutantSuccessor(node, v) ==
  CASE node = "retrieve_policy"      -> RouteAfterRetrieval(v)
    [] node = "draft_assessment"     -> "classify_risk"
    [] node = "classify_risk"        -> RouteAfterRisk(v)
    [] node = "interrupt_for_review" -> "apply_feedback"
    [] node = "apply_feedback"       -> IF v.approved THEN "finalize_decision"
                                                      ELSE "interrupt_for_review"
    [] OTHER                         -> "END"

(* The edges: the node that follows node once it has left the channels at v. *)
Successor(node, v) ==
  CASE node = "retrieve_policy"      -> RouteAfterRetrieval(v)
    [] node = "draft_assessment"     -> "classify_risk"
    [] node = "classify_risk"        -> RouteAfterRisk(v)
    [] node = "interrupt_for_review" -> "apply_feedback"
    [] node = "apply_feedback"       -> "finalize_decision"
    [] OTHER                         -> "END"
=============================================================================
