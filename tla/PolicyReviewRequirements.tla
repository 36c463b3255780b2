---------------------- MODULE PolicyReviewRequirements ----------------------
(***************************************************************************)
(* What the service must do whatever its callers do: the invariants, the   *)
(* action properties and the liveness of PolicyReviewService, and the      *)
(* statements of the repository's documents that its code does not keep.   *)
(***************************************************************************)
EXTENDS PolicyReviewService

(* Every copy of the channels, with the node it is about to enter. *)
CheckpointStates == {<<checkpoint[t].values, checkpoint[t].next>> : t \in Threads}
RunStates == {<<run[c].values, run[c].next>> : c \in Callers}

-----------------------------------------------------------------------------
(* The channels v of a thread about to enter node are what the nodes       *)
(* before it can have left: the conjuncts say which of them have run.      *)

Unreviewed(v) ==
  /\ v.review_decision = ""
  /\ ~v.approved
  /\ v.reviewer_id = NoReviewer

Reviewed(v) ==
  /\ v.review_decision \in Decisions
  /\ v.approved = (v.review_decision = "approved")
  /\ v.reviewer_id # NoReviewer
  /\ v.review_decision # "approved" => v.reviewer_feedback

Unreleased(v) ==
  /\ v.final_answer = NoAnswer
  /\ v.decision_record = NoRecord
  /\ v.status \in {"", "pending_human_review"}

Classified(v) ==
  /\ v.question \in Questions
  /\ v.risk_level \in RiskLevels
  /\ RiskOrder[v.risk_level] >= RiskOrder[BaselineLevel(Signals[v.question])]
  /\ v.review_required = NeedsReview(v)
  /\ ~v.retrieval_error

(* Reviewed exactly when the classification or the submitter requires it. *)
ReviewedAsRequired(v) == IF v.review_required THEN Reviewed(v) ELSE Unreviewed(v)

Undrafted(v) ==
  /\ v.draft_answer = ""
  /\ v.draft_basis = "" /\ v.draft_conditions = "" /\ v.draft_uncertainty = ""

(* An assessment has a basis; any other draft has nothing but a reason.    *)
Drafted(v) ==
  \/ v.draft_answer = "assessed" /\ v.draft_basis # ""
  \/ /\ v.draft_answer \in {"no_evidence", "model_failed"}
     /\ v.draft_basis = "" /\ v.draft_conditions = ""
     /\ v.draft_uncertainty = "insufficiency"

(* Without evidence there is no assessment, and no part of one.            *)
Grounded(v) ==
  v.evidence_grade = "none" =>
    /\ v.draft_answer # "assessed"
    /\ v.draft_basis = "" /\ v.draft_conditions = "" /\ v.draft_uncertainty # "model"

(* Once reviewed, the conclusion of a draft that was not approved is       *)
(* superseded; every other draft is as it was drafted.                     *)
DraftReconciled(v) ==
  IF v.review_required /\ v.review_decision # "approved"
    THEN v.draft_answer = IF v.review_decision = "rejected" THEN "superseded"
                                                            ELSE "changes_required"
    ELSE Drafted(v)

(* The record and the answer are those of the channels beside them. *)
RecordAgrees(v) ==
  LET r == v.decision_record IN
  /\ r.status = v.status
  /\ r.question = v.question
  /\ r.grade = v.evidence_grade
  /\ r.level = v.risk_level
  /\ r.required = v.review_required
  /\ r.decision = v.review_decision
  /\ r.approved = v.approved
  /\ r.reviewer = v.reviewer_id
  /\ r.feedback = v.reviewer_feedback
  /\ r.answer = v.draft_answer
  /\ r.basis = v.draft_basis
  /\ r.conditions = v.draft_conditions
  /\ r.uncertainty = v.draft_uncertainty

Finalized(v) ==
  /\ Classified(v) /\ ReviewedAsRequired(v) /\ DraftReconciled(v)
  /\ RecordAgrees(v)
  /\ v.final_answer = ComposeAnswer(v)
  /\ v.status = StatusFor(v)

Failed(v) ==
  /\ v.retrieval_error
  /\ Unreviewed(v) /\ Undrafted(v)
  /\ v.risk_level = ""
  /\ v.status = "failed"
  /\ v.final_answer = [NoAnswer EXCEPT !.body = "unresolved"]
  /\ RecordAgrees(v)

Coherent(v, node) ==
  /\ node = "none" => v = NoValues
  /\ node \in {"retrieve_policy", "draft_assessment", "classify_risk", "record_failure"} =>
       v.question \in Questions /\ v.risk_level = "" /\ ~v.review_required
         /\ ~v.reviewer_feedback /\ Unreviewed(v) /\ Unreleased(v)
  /\ node \in {"draft_assessment", "classify_risk"} => ~v.retrieval_error
  /\ node \in {"retrieve_policy", "draft_assessment", "record_failure"} => Undrafted(v)
  /\ node \in {"classify_risk", "interrupt_for_review", "apply_feedback"} => Drafted(v)
  /\ Grounded(v)
  /\ node = "record_failure" => v.retrieval_error
  /\ node = "interrupt_for_review" =>
       Classified(v) /\ v.review_required /\ Unreviewed(v) /\ Unreleased(v)
  /\ node = "apply_feedback" =>
       Classified(v) /\ v.review_required /\ Reviewed(v) /\ Unreleased(v)
  /\ node = "finalize_decision" =>
       Classified(v) /\ ReviewedAsRequired(v) /\ DraftReconciled(v) /\ Unreleased(v)
  /\ node = "END" => Finalized(v) \/ Failed(v)

(* An interrupt row is pending only on the interrupt node. *)
InterruptAtNode ==
  \A t \in Threads : checkpoint[t].interrupt # "none"
                       => checkpoint[t].next = "interrupt_for_review"

(***************************************************************************)
(* Every checkpoint and every copy of the channels a run holds is coherent *)
(* with the node it is about to enter, and interrupt rows are where the    *)
(* gate is: the invariant from which the others follow.                    *)
(***************************************************************************)
GraphInvariant ==
  /\ \A s \in CheckpointStates \cup RunStates : Coherent(s[1], s[2])
  /\ InterruptAtNode

-----------------------------------------------------------------------------
(* Safety. *)

(* A thread whose risk is high, or whose submitter asked for a review, is  *)
(* completed only with an approval by a named reviewer, and its record and *)
(* its answer say so: the governance gate of routes.py, and the guard and  *)
(* the status of finalize_decision.                                        *)
NoUnreviewedRelease ==
  \A t \in Threads :
    LET v == checkpoint[t].values IN
    v.status = "completed" /\ NeedsReview(v) =>
      /\ v.review_decision = "approved" /\ v.approved
      /\ v.reviewer_id # NoReviewer
      /\ v.decision_record.approved /\ v.decision_record.required
      /\ v.decision_record.reviewer = v.reviewer_id
      /\ v.final_answer.approval = "granted"

(* HumanReviewBypassError is unreachable under the shipped graph, as the   *)
(* comment of finalize_decision says: whatever is crashed, resubmitted or  *)
(* resumed, no run reaches finalisation unreviewed.                        *)
BypassUnreachable == \A c \in Callers : result[c].kind # "HumanReviewBypassError"

(* While a thread is parked no answer, record or decision is in its        *)
(* checkpoint, not even one of an earlier submission of the same id, and   *)
(* no event says the review asked for was never requested.                 *)
NothingReleasedWhileParked ==
  \A t \in Threads :
    checkpoint[t].interrupt # "none" =>
      /\ Unreviewed(checkpoint[t].values)
      /\ Unreleased(checkpoint[t].values)
      /\ Event("human_review.requested", t) \in log

(* The conclusion of a refused request, in its answer and in its record,   *)
(* is that of the decision in the checkpoint: the assistant's is gone, the *)
(* approval is denied, and there is a reason (apply_feedback,              *)
(* parse_review_input).  Of the rest of the answer see                     *)
(* RefusalReplacesAssessment.                                              *)
RefusalReplacesConclusion ==
  \A t \in Threads :
    LET v == checkpoint[t].values IN
    v.status = "rejected_by_reviewer" =>
      /\ v.final_answer.body = IF v.review_decision = "rejected" THEN "superseded"
                                                                 ELSE "changes_required"
      /\ v.final_answer.approval = "not_granted"
      /\ v.decision_record.answer = v.final_answer.body
      /\ v.decision_record.decision = v.review_decision
      /\ v.reviewer_feedback

(* No reply of the model leaves a thread with a lower risk level than the  *)
(* deterministic pass gives its question.                                  *)
ModelNeverLowersRisk ==
  \A t \in Threads :
    LET v == checkpoint[t].values IN
    v.risk_level # "" =>
      RiskOrder[v.risk_level] >= RiskOrder[BaselineLevel(Signals[v.question])]

(* The steps of the route since the graph was last entered at its start. *)
LastSubmission(route) ==
  LET starts == {i \in DOMAIN route : route[i] = "retrieve_policy"}
      first  == CHOOSE i \in starts : \A j \in starts : j <= i
  IN  IF starts = {} THEN {} ELSE {route[i] : i \in first .. Len(route)}

(* A decision in a checkpoint was taken at the gate of this submission: a  *)
(* resubmitted id never inherits the review of the request before it.      *)
DecisionOfThisSubmission ==
  \A t \in Threads :
    LET v == checkpoint[t].values IN
    v.review_decision # "" => "interrupt_for_review" \in LastSubmission(v.route_history)

(* The event log accounts for every reviewed thread: the decision in the   *)
(* checkpoint was recorded in the log, after a resume by that reviewer     *)
(* with a spelling of that decision, and every ending was logged with its  *)
(* status.  Events are emitted before the checkpoint that they explain.    *)
AuditTrail ==
  \A t \in Threads :
    LET v == checkpoint[t].values IN
    /\ v.review_decision # "" =>
         /\ \E e \in log : /\ e.event = "human_review.recorded" /\ e.thread = t
                           /\ e.decision = v.review_decision
                           /\ e.reviewer = v.reviewer_id
         /\ \E e \in log : /\ e.event = "request.resumed" /\ e.thread = t
                           /\ e.decision \in DOMAIN Aliases
                           /\ Aliases[e.decision] = v.review_decision
                           /\ e.reviewer = v.reviewer_id
    /\ checkpoint[t].next = "END" =>
         \E e \in log : /\ e.thread = t
                        /\ \/ e.event = "decision.failed" /\ v.retrieval_error
                           \/ /\ e.event = "decision.finalized" /\ e.status = v.status
                              /\ e.decision = v.review_decision

(* What a resume returns is what its own input asked for: it says          *)
(* completed only to an accepted approval, and rejected only to an         *)
(* accepted refusal ("the reviewer's decision governs", apply_feedback).   *)
ReviewerDecisionGoverns ==
  \A c \in Callers :
    LET r == result[c] IN
    r.kind = "returned" /\ r.op = "resume" =>
      /\ r.status = "completed" =>
           Accepted(r.input) /\ Aliases[r.input.decision] = "approved"
      /\ r.status = "rejected_by_reviewer" =>
           Accepted(r.input) /\ Aliases[r.input.decision] # "approved"

(* submit: "Returns either a final answer or a pending interrupt".  What a *)
(* call returns is one of them whole: the request for a review while the   *)
(* case is pending, or the status and the answer the case has ended with.  *)
(* _result reads the two at different times; where calls on one thread do  *)
(* not overlap, they agree.                                                *)
AnswerOrInterrupt ==
  \A c \in Callers :
    LET r == result[c] IN
    r.kind = "returned" =>
      IF r.payload # "none"
        THEN r.status = "pending_human_review" /\ r.answer = NoAnswer
        ELSE r.status # "pending_human_review" /\ r.answer # NoAnswer

-----------------------------------------------------------------------------
(* Action properties. *)

SameSubmission(t) == submissions'[t] = submissions[t]

DecisionKept(v, w) ==
  v.review_decision # "" =>
    /\ w.review_decision = v.review_decision
    /\ w.reviewer_id = v.reviewer_id
    /\ w.reviewer_feedback = v.reviewer_feedback

(* Unless the id is submitted again, a recorded decision is never replaced *)
(* or withdrawn, whatever is crashed, retried or resumed after it.         *)
DecisionIsFinal ==
  [][\A t \in Threads :
       SameSubmission(t) => DecisionKept(checkpoint[t].values, checkpoint'[t].values)]_vars

(* What was done before the gate, in channels v about to enter node, is    *)
(* still in w: the drafted answer too, until the review is applied.        *)
WorkKept(v, node, w) ==
  v.risk_level # "" =>
    /\ w.question = v.question
    /\ w.evidence_grade = v.evidence_grade
    /\ w.risk_level = v.risk_level
    /\ w.review_required = v.review_required
    /\ node # "apply_feedback" => w.draft_answer = v.draft_answer
    /\ w.draft_basis = v.draft_basis
    /\ w.draft_conditions = v.draft_conditions
    /\ w.draft_uncertainty = v.draft_uncertainty
    /\ Len(w.route_history) >= Len(v.route_history)
    /\ SubSeq(w.route_history, 1, Len(v.route_history)) = v.route_history

(* Unless the id is submitted again, no step redoes the work done before   *)
(* the gate: evidence, classification, route and draft stay, and only the  *)
(* answer of the draft is ever replaced, when the review is applied        *)
(* ("recovery does not restart").                                          *)
ReviewedWorkPreserved ==
  [][\A t \in Threads :
       SameSubmission(t) =>
         WorkKept(checkpoint[t].values, checkpoint[t].next, checkpoint'[t].values)]_vars

-----------------------------------------------------------------------------
(* The contract, where calls on one thread do not overlap. *)

(* No two callers have a call on the same thread. *)
Serial ==
  \A c, d \in Callers :
    c # d /\ call[c].thread = call[d].thread => call[c].thread = NoThread

SerialSpec == Init /\ [][Next /\ Serial']_vars

(* The stage of the contract a thread is in: that of the node it enters. *)
StageOf(v, node) ==
  CASE node = "none" -> "unknown"
    [] node \in {"retrieve_policy", "draft_assessment", "classify_risk", "record_failure"} ->
         "open"
    [] node = "interrupt_for_review" -> "gate"
    [] node \in {"apply_feedback", "finalize_decision"} ->
         IF v.review_decision = "" THEN "cleared" ELSE "decided"
    [] OTHER -> CASE v.status = "completed"            -> "released"
                  [] v.status = "rejected_by_reviewer" -> "refused"
                  [] OTHER                             -> "failed"

(* What makes a review mandatory before anything was asked of the model. *)
Mandatory(v) ==
  v.force_human_review \/ (v.question \in Questions /\ BaselineLevel(Signals[v.question]) = "high")

(* Whose position the answer given out states, in its body: of the parts   *)
(* that follow it the contract says nothing.                               *)
PositionOf(v) ==
  LET body == v.final_answer.body IN
  CASE body = ""                                   -> ""
    [] body = "assessed"                           -> "assistant"
    [] body \in {"superseded", "changes_required"} -> "reviewer"
    [] OTHER                                       -> "notice"

CaseOf(v, node) ==
  [stage     |-> StageOf(v, node),
   mandatory |-> Mandatory(v),
   verdict   |-> v.review_decision,
   by        |-> v.reviewer_id,
   position  |-> PositionOf(v)]

ThreadCases == [t \in Threads |-> CaseOf(checkpoint[t].values, checkpoint[t].next)]

Contract ==
  INSTANCE ReviewContract WITH Cases <- Threads, Nobody <- NoReviewer, cases <- ThreadCases

(* Every step of the service is a step of the contract, or none: whatever  *)
(* crashes, is retried or resubmitted, a case is decided only at the gate, *)
(* by somebody, ends as it was decided, and states the position of the     *)
(* assistant only when it is released, that of the reviewer when it is     *)
(* refused.                                                                *)
ContractKept == Contract!Spec

-----------------------------------------------------------------------------
(* Liveness, under FairSpec. *)

(* Every call returns or raises: no route of the graph keeps a caller. *)
EveryCallReturns == \A c \in Callers : pc[c] # "idle" ~> pc[c] = "idle"

(* A submitted request is eventually answered or parked for a reviewer.    *)
(* It holds where processes do not die and the model's replies are well    *)
(* formed: a reply whose signals are no list ends the call in the node.    *)
SubmissionSettles ==
  \A t \in Threads :
    checkpoint[t].next = "retrieve_policy"
      ~> checkpoint[t].next = "END" \/ checkpoint[t].interrupt # "none"

-----------------------------------------------------------------------------
(* What the documents say and the code does not do. *)

(* README: "the request stays parked and interrupts again, carrying the    *)
(* validation error": no malformed input makes the resume itself raise.    *)
MalformedInputStaysParked ==
  \A c \in Callers : result[c].kind = "InvalidReviewInput" => ~result[c].input.mapping

(* draft_assessment: "A model failure must not become an answer. The       *)
(* request stays unresolved": it is never completed without a reviewer.    *)
ModelFailureStaysUnresolved ==
  \A t \in Threads :
    LET v == checkpoint[t].values IN
    v.status = "completed" /\ ~v.review_required => v.final_answer.body # "model_failed"

(* apply_feedback: "Where a reviewer rejects or requires changes, their    *)
(* feedback replaces the assistant's conclusion rather than being appended *)
(* as a caveat", and the answer itself: "The assistant's preliminary       *)
(* assessment is superseded": no part of a refused answer is the model's.  *)
RefusalReplacesAssessment ==
  \A t \in Threads :
    LET v == checkpoint[t].values IN
    v.status = "rejected_by_reviewer" =>
      "model" \notin {v.final_answer.conditions, v.final_answer.basis,
                      v.final_answer.uncertainty}
=============================================================================
