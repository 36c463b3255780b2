---------------------- MODULE PolicyReviewGraph_proofs ----------------------
(***************************************************************************)
(* What the nodes and the routes of the graph preserve, for every question,*)
(* reviewer, model reply and setting.                                      *)
(***************************************************************************)
EXTENDS PolicyReviewGraph, TLAPS

(* Whatever a question matches, no reply of the model makes the classifier *)
(* return a lower level than the deterministic pass gives it, with any     *)
(* values of its three settings.                                           *)
THEOREM ClassifyNeverLowers ==
  ASSUME NEW matched, NEW reply \in ModelReplies
  PROVE  /\ Classify(matched, reply) \in RiskLevels
         /\ RiskOrder[Classify(matched, reply)] >= RiskOrder[BaselineLevel(matched)]
<1>1. BaselineLevel(matched) \in RiskLevels
  BY DEF BaselineLevel, RiskLevels
<1>2. \A level \in RiskLevels : RiskOrder[level] >= RiskOrder[level]
  BY DEF RiskLevels, RiskOrder
<1>3. \A level \in RiskLevels : RiskOrder["high"] >= RiskOrder[level]
  BY DEF RiskLevels, RiskOrder
<1>4. ASSUME NEW verdict \in RiskLevels, NEW baseline \in RiskLevels
      PROVE  /\ Composed(baseline, verdict) \in RiskLevels
             /\ RiskOrder[Composed(baseline, verdict)] >= RiskOrder[baseline]
  <2> DEFINE level == IF EscalateOnlyLlm THEN MaxRisk({baseline, verdict}) ELSE verdict
  <2>1. level \in RiskLevels
    BY DEF MaxRisk, RiskLevels
  <2>2. Composed(baseline, verdict) =
          IF RiskOrder[level] > RiskOrder[baseline] THEN level ELSE baseline
    BY DEF Composed
  <2>3. RiskOrder[level] \in Int /\ RiskOrder[baseline] \in Int
    BY <2>1 DEF RiskLevels, RiskOrder
  <2> HIDE DEF level
  <2>4. QED BY <2>1, <2>2, <2>3
<1>5. CASE ~AsksModel(matched)
  BY <1>1, <1>2, <1>5 DEF Classify
<1>6. CASE AsksModel(matched) /\ reply \in HandledFailures
  <2>1. Classify(matched, reply) = IF HighRiskOnClassifierError THEN "high"
                                   ELSE BaselineLevel(matched)
    BY <1>6 DEF Classify, HandledFailures, RiskLevels
  <2>2. QED BY <1>1, <1>2, <1>3, <2>1, RiskSettingsAssumption DEF RiskLevels
<1>7. CASE AsksModel(matched) /\ reply \in RiskLevels
  <2>1. Classify(matched, reply) = Composed(BaselineLevel(matched), reply)
    BY <1>7 DEF Classify, HandledFailures, RiskLevels
  <2>2. QED BY <1>1, <1>4, <1>7, <2>1
<1>8. CASE AsksModel(matched) /\ reply \notin HandledFailures /\ reply \notin RiskLevels
  BY <1>1, <1>2, <1>8 DEF Classify
<1>9. QED BY <1>5, <1>6, <1>7, <1>8

-----------------------------------------------------------------------------
(* Type correctness of the channels. *)

(* A node's visit appends to the route of well-formed channels.            *)
LEMMA VisitedType ==
  ASSUME NEW v \in Values, NEW node \in WorkNodes
  PROVE  Visited(v, node) \in Values
<1>1. v.route_history \in Seq(WorkNodes)
  BY DEF Values
<1>2. Append(v.route_history, node) \in Seq(WorkNodes)
  <2> HIDE DEF Values
  <2>1. QED BY <1>1
<1>3. QED BY <1>2 DEF Visited, Values

(* The channels of a fresh thread are well formed.                         *)
LEMMA NoValuesType == NoValues \in Values
<1>1. NoAnswer \in FinalAnswers
  BY DEF NoAnswer, FinalAnswers, Drafts, Origins
<1>2. <<>> \in Seq(WorkNodes)
  OBVIOUS
<1>3. NoRecord \in DecisionRecords
  BY <1>2 DEF NoRecord, DecisionRecords, Statuses, Drafts, Origins
<1>4. QED BY <1>1, <1>2, <1>3 DEF NoValues, Values, Grades, Drafts, Statuses, Origins

(* So are those of a new request.                                          *)
LEMMA NewRequestStateType ==
  ASSUME NEW old \in Values, NEW q \in Questions, NEW forced \in BOOLEAN
  PROVE  NewRequestState(old, q, forced) \in Values
<1>1. old.route_history \in Seq(WorkNodes) /\ old.errors \in SUBSET WorkNodes
  BY DEF Values
<1>2. QED BY <1>1, NoValuesType DEF NewRequestState, Values

(* retrieve_policy returns well-formed channels.                           *)
LEMMA RetrievePolicyType ==
  ASSUME NEW v \in Values, NEW outcome \in RetrievalOutcomes
  PROVE  RetrievePolicy(v, outcome) \in Values
<1>1. "retrieve_policy" \in WorkNodes
  BY DEF WorkNodes
<1>2. CASE outcome = "error"
  <2> DEFINE w == [v EXCEPT !.evidence_grade  = "none",
                            !.retrieval_error = TRUE,
                            !.errors          = @ \cup {"retrieve_policy"}]
  <2>1. w \in Values
    BY <1>1 DEF Values, Grades
  <2>2. RetrievePolicy(v, outcome) = Visited(w, "retrieve_policy")
    BY <1>2 DEF RetrievePolicy
  <2> HIDE DEF w
  <2>3. QED BY <1>1, <2>1, <2>2, VisitedType
<1>3. CASE outcome # "error"
  <2> DEFINE w == [v EXCEPT !.evidence_grade = outcome, !.retrieval_error = FALSE]
  <2>1. w \in Values
    BY <1>3 DEF Values, Grades, RetrievalOutcomes
  <2>2. RetrievePolicy(v, outcome) = Visited(w, "retrieve_policy")
    BY <1>3 DEF RetrievePolicy
  <2> HIDE DEF w
  <2>3. QED BY <1>1, <2>1, <2>2, VisitedType
<1>4. QED BY <1>2, <1>3

(* draft_assessment returns well-formed channels.                          *)
LEMMA DraftAssessmentType ==
  ASSUME NEW v \in Values, NEW reply \in AssessmentReplies
  PROVE  DraftAssessment(v, reply) \in Values
<1> DEFINE kind == DraftKind(v, reply)
           basis == DraftBasis(kind, reply)
           conditions == DraftConditions(kind, reply)
           uncertainty == DraftUncertainty(kind, reply, v.evidence_grade)
           w == [v EXCEPT !.draft_answer      = kind,
                          !.draft_basis       = basis,
                          !.draft_conditions  = conditions,
                          !.draft_uncertainty = uncertainty,
                          !.errors = IF kind = "assessed"
                                       THEN @ ELSE @ \cup {"draft_assessment"}]
<1>1. "draft_assessment" \in WorkNodes
  BY DEF WorkNodes
<1>2. kind \in Drafts
  BY DEF DraftKind, Drafts
<1>3. basis \in Origins /\ conditions \in Origins /\ uncertainty \in Origins
  BY DEF DraftBasis, DraftConditions, DraftUncertainty, Origins
<1>4. w \in Values
  <2> HIDE DEF kind, basis, conditions, uncertainty
  <2>1. QED BY <1>1, <1>2, <1>3 DEF Values
<1>5. DraftAssessment(v, reply) = Visited(w, "draft_assessment")
  BY DEF DraftAssessment
<1> HIDE DEF w
<1>6. QED BY <1>1, <1>4, <1>5, VisitedType

(* classify_risk returns well-formed channels.                             *)
LEMMA ClassifyRiskType ==
  ASSUME NEW v \in Values, NEW reply \in ModelReplies
  PROVE  ClassifyRisk(v, reply) \in Values
<1> DEFINE level == Classify(Signals[v.question], reply)
           w == [v EXCEPT !.risk_level      = level,
                          !.review_required = (level = "high" \/ v.force_human_review)]
<1>1. "classify_risk" \in WorkNodes
  BY DEF WorkNodes
<1>2. level \in RiskLevels
  BY ClassifyNeverLowers
<1>3. w \in Values
  <2> HIDE DEF level
  <2>1. QED BY <1>2 DEF Values
<1>4. ClassifyRisk(v, reply) = Visited(w, "classify_risk")
  BY DEF ClassifyRisk
<1> HIDE DEF w
<1>5. QED BY <1>1, <1>3, <1>4, VisitedType

(* What is parsed from an accepted input is a review decision.             *)
LEMMA ParsedType ==
  ASSUME NEW raw \in RawInputs, Accepted(raw)
  PROVE  /\ ParseReviewInput(raw) \in ReviewDecisions
         /\ ParseReviewInput(raw).reviewer # NoReviewer
         /\ ParseReviewInput(raw).decision # "approved" => ParseReviewInput(raw).feedback
<1>1. \A d \in DOMAIN Aliases : Aliases[d] \in Decisions
  BY DEF Aliases, Decisions
<1>2. QED BY <1>1 DEF Accepted, ParseReviewInput, ReviewDecisions, RawInputs

(* interrupt_for_review returns well-formed channels.                      *)
LEMMA InterruptForReviewType ==
  ASSUME NEW v \in Values, NEW d \in ReviewDecisions
  PROVE  InterruptForReview(v, d) \in Values
<1> DEFINE w == [v EXCEPT !.review_decision   = d.decision,
                          !.approved          = (d.decision = "approved"),
                          !.reviewer_id       = d.reviewer,
                          !.reviewer_feedback = d.feedback,
                          !.status            = "pending_human_review"]
<1>1. "interrupt_for_review" \in WorkNodes
  BY DEF WorkNodes
<1>2. w \in Values
  BY DEF Values, ReviewDecisions, Statuses
<1>3. InterruptForReview(v, d) = Visited(w, "interrupt_for_review")
  BY DEF InterruptForReview
<1> HIDE DEF w
<1>4. QED BY <1>1, <1>2, <1>3, VisitedType

(* apply_feedback returns well-formed channels.                            *)
LEMMA ApplyFeedbackType ==
  ASSUME NEW v \in Values
  PROVE  ApplyFeedback(v) \in Values
<1> DEFINE draft == CASE v.review_decision = "approved"          -> v.draft_answer
                      [] v.review_decision = "rejected"          -> "superseded"
                      [] v.review_decision = "changes_requested" -> "changes_required"
                      [] OTHER                                   -> "uninterpretable"
           w == [v EXCEPT !.draft_answer = draft,
                          !.errors = IF draft = "uninterpretable"
                                       THEN @ \cup {"apply_feedback"} ELSE @]
<1>1. "apply_feedback" \in WorkNodes
  BY DEF WorkNodes
<1>2. draft \in Drafts
  <2>1. v.draft_answer \in Drafts
    BY DEF Values
  <2>2. QED BY <2>1 DEF Drafts
<1>3. w \in Values
  <2> HIDE DEF draft
  <2>1. QED BY <1>1, <1>2 DEF Values
<1>4. ApplyFeedback(v) = Visited(w, "apply_feedback")
  BY DEF ApplyFeedback
<1> HIDE DEF w
<1>5. QED BY <1>1, <1>3, <1>4, VisitedType

(* finalize_decision returns well-formed channels.                         *)
LEMMA FinalizeDecisionType ==
  ASSUME NEW v \in Values
  PROVE  FinalizeDecision(v) \in Values
<1> DEFINE w == [v EXCEPT !.final_answer    = ComposeAnswer(v),
                          !.decision_record = BuildRecord(v, StatusFor(v)),
                          !.status          = StatusFor(v)]
<1>1. "finalize_decision" \in WorkNodes
  BY DEF WorkNodes
<1>2. StatusFor(v) \in Statuses
  BY DEF StatusFor, Statuses
<1>3. ComposeAnswer(v) \in FinalAnswers
  <2>1. /\ v.draft_answer \in Drafts /\ v.draft_conditions \in Origins
        /\ v.draft_basis \in Origins /\ v.draft_uncertainty \in Origins
    BY DEF Values
  <2>2. QED BY <2>1 DEF ComposeAnswer, FinalAnswers
<1>4. BuildRecord(v, StatusFor(v)) \in DecisionRecords
  <2>1. v.evidence_grade \in Grades
    BY DEF Values
  <2>2. QED BY <1>2, <2>1 DEF BuildRecord, DecisionRecords, Values
<1>5. w \in Values
  BY <1>2, <1>3, <1>4 DEF Values
<1>6. FinalizeDecision(v) = Visited(w, "finalize_decision")
  BY DEF FinalizeDecision
<1> HIDE DEF w
<1>7. QED BY <1>1, <1>5, <1>6, VisitedType

(* record_failure returns well-formed channels.                            *)
LEMMA RecordFailureType ==
  ASSUME NEW v \in Values
  PROVE  RecordFailure(v) \in Values
<1> DEFINE record == [NoRecord EXCEPT !.status   = "failed",
                                      !.question = v.question,
                                      !.grade    = v.evidence_grade,
                                      !.route    = v.route_history,
                                      !.errors   = v.errors]
           answer == [NoAnswer EXCEPT !.body = "unresolved"]
           w == [v EXCEPT !.final_answer    = answer,
                          !.status          = "failed",
                          !.decision_record = record]
<1>1. "record_failure" \in WorkNodes
  BY DEF WorkNodes
<1>2. record \in DecisionRecords
  <2>1. NoRecord \in DecisionRecords
    BY NoValuesType DEF NoValues, Values
  <2>2. /\ v.question \in Questions \cup {NoQuestion}
        /\ v.evidence_grade \in Grades \cup {""}
        /\ v.route_history \in Seq(WorkNodes)
        /\ v.errors \in SUBSET WorkNodes
    BY DEF Values
  <2>3. QED BY <2>1, <2>2 DEF DecisionRecords, Statuses
<1>3. answer \in FinalAnswers
  BY DEF FinalAnswers, NoAnswer, Origins
<1>4. w \in Values
  <2> HIDE DEF record, answer
  <2>1. QED BY <1>2, <1>3 DEF Values, Statuses
<1>5. RecordFailure(v) = Visited(w, "record_failure")
  BY DEF RecordFailure
<1> HIDE DEF w
<1>6. QED BY <1>1, <1>4, <1>5, VisitedType

(* The routes lead to nodes of the graph.                                  *)
LEMMA SuccessorType ==
  ASSUME NEW node, NEW v
  PROVE  Successor(node, v) \in Nodes
BY DEF Successor, Nodes, WorkNodes, RouteAfterRetrieval, RouteAfterRisk
=============================================================================
