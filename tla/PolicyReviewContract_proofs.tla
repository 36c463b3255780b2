-------------------- MODULE PolicyReviewContract_proofs --------------------
(***************************************************************************)
(* Where calls on one thread do not overlap, the service implements        *)
(* ReviewContract, neither a decision nor the work before it is lost, and  *)
(* what a call returns is whole and is what its own input asked for.       *)
(*                                                                         *)
(* The invariant relates what a run holds to the checkpoint of its thread: *)
(* about to execute a node it holds that checkpoint, and about to save a   *)
(* new one it holds what the contract allows to follow it.                 *)
(***************************************************************************)
EXTENDS PolicyReviewRequirements_proofs, SequenceTheorems

(* A case a may become b by a step of the contract that is no submission.  *)
MayBecome(a, b) ==
  \/ b = a
  \/ a.stage = "open" /\ b = [a EXCEPT !.stage = "gate"]
  \/ a.stage = "open" /\ ~a.mandatory /\ b = [a EXCEPT !.stage = "cleared"]
  \/ /\ a.stage = "gate"
     /\ \E verdict \in Contract!Rulings, reviewer \in Reviewers :
          b = [a EXCEPT !.stage = "decided", !.verdict = verdict, !.by = reviewer]
  \/ /\ a.stage = "cleared" \/ (a.stage = "decided" /\ a.verdict = "approved")
     /\ \E position \in {"assistant", "notice"} :
          b = [a EXCEPT !.stage = "released", !.position = position]
  \/ /\ a.stage = "decided" /\ a.verdict # "approved"
     /\ b = [a EXCEPT !.stage = "refused", !.position = "reviewer"]
  \/ /\ a.stage \in {"open", "cleared"}
     /\ b = [a EXCEPT !.stage = "failed", !.position = "notice"]

(* The channels w about to enter succ may follow v about to enter node.    *)
Follows(v, node, w, succ) ==
  /\ MayBecome(CaseOf(v, node), CaseOf(w, succ))
  /\ DecisionKept(v, w)
  /\ WorkKept(v, node, w)

-----------------------------------------------------------------------------
(* Each node is a step of the contract, or none. *)

(* The route grows by one node, and keeps what it had. *)
LEMMA RouteGrows ==
  ASSUME NEW route \in Seq(WorkNodes), NEW node \in WorkNodes
  PROVE  /\ Len(Append(route, node)) >= Len(route)
         /\ SubSeq(Append(route, node), 1, Len(route)) = route
<1>1. /\ Append(route, node) \in Seq(WorkNodes)
      /\ Len(Append(route, node)) = Len(route) + 1
      /\ \A i \in 1 .. Len(route) : Append(route, node)[i] = route[i]
      /\ Len(route) \in Nat
  OBVIOUS
<1>2. /\ SubSeq(Append(route, node), 1, Len(route)) \in Seq(WorkNodes)
      /\ Len(SubSeq(Append(route, node), 1, Len(route))) = Len(route)
      /\ \A i \in 1 .. Len(route) : SubSeq(Append(route, node), 1, Len(route))[i] = route[i]
  BY <1>1
<1>3. QED BY <1>1, <1>2, SeqEqual

(* The stage of channels, by the node they are about to enter. *)
LEMMA OpenStage ==
  ASSUME NEW v,
         NEW node \in {"retrieve_policy", "draft_assessment", "classify_risk", "record_failure"}
  PROVE  StageOf(v, node) = "open"
BY DEF StageOf

(* About to enter the gate it is at the gate. *)
LEMMA GateStage == ASSUME NEW v PROVE StageOf(v, "interrupt_for_review") = "gate"
BY DEF StageOf

(* Behind the gate it is cleared or decided. *)
LEMMA AfterGateStage ==
  ASSUME NEW v, NEW node \in {"apply_feedback", "finalize_decision"}
  PROVE  /\ v.review_decision = "" => StageOf(v, node) = "cleared"
         /\ v.review_decision # "" => StageOf(v, node) = "decided"
BY DEF StageOf

(* At the end it is what its status says. *)
LEMMA EndStage ==
  ASSUME NEW v
  PROVE  /\ v.status = "completed" => StageOf(v, "END") = "released"
         /\ v.status = "rejected_by_reviewer" => StageOf(v, "END") = "refused"
         /\ v.status = "failed" => StageOf(v, "END") = "failed"
BY DEF StageOf

(* Before it ends a case states nobody's position. *)
LEMMA NothingGiven == ASSUME NEW v, v.final_answer = NoAnswer PROVE PositionOf(v) = ""
<1>1. NoAnswer.body = ""
  BY DEF NoAnswer
<1>2. v.final_answer.body = ""
  BY <1>1, Zenon
<1>3. QED BY <1>2 DEF PositionOf

(* Whose position a case states is in its answer. *)
LEMMA SameAnswer ==
  ASSUME NEW v, NEW w, w.final_answer = v.final_answer
  PROVE  PositionOf(w) = PositionOf(v)
BY Zenon DEF PositionOf

(* Two channels with the same request, signed by the same reviewer. *)
SameRequest(v, w) ==
  w.question = v.question /\ w.force_human_review = v.force_human_review

SameSignature(v, w) ==
  w.review_decision = v.review_decision /\ w.reviewer_id = v.reviewer_id

(* The same request is mandatory as before. *)
LEMMA CaseAt ==
  ASSUME NEW v, NEW node, NEW w, SameRequest(v, w)
  PROVE  CaseOf(w, node) = [stage |-> StageOf(w, node), mandatory |-> Mandatory(v),
                            verdict |-> w.review_decision, by |-> w.reviewer_id,
                            position |-> PositionOf(w)]
<1>1. Mandatory(w) = Mandatory(v)
  BY DEF SameRequest, Mandatory
<1>2. QED BY <1>1, Zenon DEF CaseOf

(* A step in which only the stage moves, or nothing. *)
LEMMA StageStep ==
  ASSUME NEW v, NEW node, NEW w, NEW succ, NEW from, NEW to,
         SameRequest(v, w), SameSignature(v, w), PositionOf(w) = PositionOf(v),
         StageOf(v, node) = from, StageOf(w, succ) = to,
         \/ from = to
         \/ from = "open" /\ to = "gate"
         \/ from = "open" /\ ~Mandatory(v) /\ to = "cleared"
  PROVE  MayBecome(CaseOf(v, node), CaseOf(w, succ))
<1> DEFINE a == CaseOf(v, node)
           b == CaseOf(w, succ)
<1>1. PICK m \in BOOLEAN : m = Mandatory(v)
  BY DEF Mandatory
<1>2. PICK e : e = PositionOf(v)
  OBVIOUS
<1>3. a = [stage |-> from, mandatory |-> m, verdict |-> v.review_decision,
           by |-> v.reviewer_id, position |-> e]
  BY <1>1, <1>2, CaseAt, Zenon DEF SameRequest
<1>4. b = [stage |-> to, mandatory |-> m, verdict |-> v.review_decision,
           by |-> v.reviewer_id, position |-> e]
  BY <1>1, <1>2, CaseAt, Zenon DEF SameSignature
<1> HIDE DEF a, b
<1>5. /\ b = [a EXCEPT !.stage = to]
      /\ a.stage = from /\ a.mandatory = m
      /\ from = to => a = b
  BY <1>3, <1>4
<1>6. MayBecome(a, b)
  BY <1>1, <1>5 DEF MayBecome
<1>7. QED BY <1>6 DEF a, b

(* The end of a case: a release, a refusal or a failure, with its answer.  *)
LEMMA EndStep ==
  ASSUME NEW v, NEW node, NEW w, NEW succ, SameRequest(v, w), SameSignature(v, w),
         NEW from, NEW to, StageOf(v, node) = from, StageOf(w, succ) = to,
         \/ /\ to = "released" /\ PositionOf(w) \in {"assistant", "notice"}
            /\ from = "cleared" \/ (from = "decided" /\ v.review_decision = "approved")
         \/ /\ to = "refused" /\ PositionOf(w) = "reviewer"
            /\ from = "decided" /\ v.review_decision # "approved"
         \/ /\ to = "failed" /\ PositionOf(w) = "notice"
            /\ from \in {"open", "cleared"}
  PROVE  MayBecome(CaseOf(v, node), CaseOf(w, succ))
<1> DEFINE a == CaseOf(v, node)
           b == CaseOf(w, succ)
<1>1. PICK m \in BOOLEAN : m = Mandatory(v)
  BY DEF Mandatory
<1>2. PICK e : e = PositionOf(v)
  OBVIOUS
<1>3. PICK position : position = PositionOf(w)
  OBVIOUS
<1>4. a = [stage |-> from, mandatory |-> m, verdict |-> v.review_decision,
           by |-> v.reviewer_id, position |-> e]
  BY <1>1, <1>2, CaseAt, Zenon DEF SameRequest
<1>5. b = [stage |-> to, mandatory |-> m, verdict |-> v.review_decision,
           by |-> v.reviewer_id, position |-> position]
  BY <1>1, <1>3, CaseAt, Zenon DEF SameSignature
<1> HIDE DEF a, b
<1>6. b = [a EXCEPT !.stage = to, !.position = position]
  <2> DEFINE c == [a EXCEPT !.stage = to]
  <2>1. c = [stage |-> to, mandatory |-> m, verdict |-> v.review_decision,
             by |-> v.reviewer_id, position |-> e]
    BY <1>4
  <2> HIDE DEF c
  <2>2. b = [c EXCEPT !.position = position]
    BY <1>5, <2>1
  <2>3. QED BY <2>2 DEF c
<1>7. a.stage = from /\ a.verdict = v.review_decision
  BY <1>4
<1>8. MayBecome(a, b)
  BY <1>3, <1>6, <1>7 DEF MayBecome
<1>9. QED BY <1>8 DEF a, b

(* A decision at the gate. *)
LEMMA DecideStep ==
  ASSUME NEW v, NEW node, NEW w, NEW succ, SameRequest(v, w), PositionOf(w) = PositionOf(v),
         w.review_decision \in Decisions, w.reviewer_id \in Reviewers,
         StageOf(v, node) = "gate", StageOf(w, succ) = "decided"
  PROVE  MayBecome(CaseOf(v, node), CaseOf(w, succ))
<1> DEFINE a == CaseOf(v, node)
           b == CaseOf(w, succ)
<1>1. PICK m \in BOOLEAN : m = Mandatory(v)
  BY DEF Mandatory
<1>2. PICK e : e = PositionOf(v)
  OBVIOUS
<1>3. a = [stage |-> "gate", mandatory |-> m, verdict |-> v.review_decision,
           by |-> v.reviewer_id, position |-> e]
  BY <1>1, <1>2, CaseAt, Zenon DEF SameRequest
<1>4. b = [stage |-> "decided", mandatory |-> m, verdict |-> w.review_decision,
           by |-> w.reviewer_id, position |-> e]
  BY <1>1, <1>2, CaseAt, Zenon
<1> HIDE DEF a, b
<1>5. b = [a EXCEPT !.stage = "decided", !.verdict = w.review_decision, !.by = w.reviewer_id]
  <2> DEFINE c == [a EXCEPT !.stage = "decided"]
             f == [c EXCEPT !.verdict = w.review_decision]
  <2>1. c = [stage |-> "decided", mandatory |-> m, verdict |-> v.review_decision,
             by |-> v.reviewer_id, position |-> e]
    BY <1>3
  <2> HIDE DEF c
  <2>2. f = [stage |-> "decided", mandatory |-> m, verdict |-> w.review_decision,
             by |-> v.reviewer_id, position |-> e]
    BY <2>1
  <2> HIDE DEF f
  <2>3. b = [f EXCEPT !.by = w.reviewer_id]
    BY <1>4, <2>2
  <2>4. QED BY <2>3 DEF c, f
<1>6. a.stage = "gate"
  BY <1>3
<1>7. w.review_decision \in Contract!Rulings
  BY DEF Decisions, Contract!Rulings
<1>8. MayBecome(a, b)
  BY <1>5, <1>6, <1>7 DEF MayBecome
<1>9. QED BY <1>8 DEF a, b

(* The steps before the classification decide nothing. *)
LEMMA RetrieveFollows ==
  ASSUME NEW v \in Values, NEW outcome \in RetrievalOutcomes, Coherent(v, "retrieve_policy")
  PROVE  LET w == RetrievePolicy(v, outcome)
         IN  Follows(v, "retrieve_policy", w, Successor("retrieve_policy", w))
<1> DEFINE w == RetrievePolicy(v, outcome)
           succ == Successor("retrieve_policy", w)
<1>1. SameRequest(v, w) /\ SameSignature(v, w) /\ w.final_answer = v.final_answer
  BY DEF RetrievePolicy, Visited, Values, SameRequest, SameSignature
<1>2. succ \in {"record_failure", "draft_assessment"}
  BY DEF Successor, RouteAfterRetrieval
<1> HIDE DEF w, succ
<1>3. StageOf(w, succ) = "open" /\ StageOf(v, "retrieve_policy") = "open"
  BY <1>2, OpenStage
<1>4. PositionOf(w) = PositionOf(v)
  BY <1>1, SameAnswer
<1>5. MayBecome(CaseOf(v, "retrieve_policy"), CaseOf(w, succ))
  BY <1>1, <1>3, <1>4, StageStep
<1>6. v.review_decision = "" /\ v.risk_level = ""
  BY DEF Coherent, Unreviewed
<1>7. Follows(v, "retrieve_policy", w, succ)
  BY <1>5, <1>6 DEF Follows, DecisionKept, WorkKept
<1>8. QED BY <1>7 DEF w, succ

(* draft_assessment moves no case. *)
LEMMA DraftFollows ==
  ASSUME NEW v \in Values, NEW reply \in AssessmentReplies, Coherent(v, "draft_assessment")
  PROVE  LET w == DraftAssessment(v, reply)
         IN  Follows(v, "draft_assessment", w, Successor("draft_assessment", w))
<1> DEFINE w == DraftAssessment(v, reply)
<1>1. SameRequest(v, w) /\ SameSignature(v, w) /\ w.final_answer = v.final_answer
  BY DEF DraftAssessment, Visited, Values, SameRequest, SameSignature
<1>2. Successor("draft_assessment", w) = "classify_risk"
  BY DEF Successor
<1> HIDE DEF w
<1>3. StageOf(w, "classify_risk") = "open" /\ StageOf(v, "draft_assessment") = "open"
  BY OpenStage
<1>4. PositionOf(w) = PositionOf(v)
  BY <1>1, SameAnswer
<1>5. MayBecome(CaseOf(v, "draft_assessment"), CaseOf(w, "classify_risk"))
  BY <1>1, <1>3, <1>4, StageStep
<1>6. v.review_decision = "" /\ v.risk_level = ""
  BY DEF Coherent, Unreviewed
<1>7. Follows(v, "draft_assessment", w, "classify_risk")
  BY <1>5, <1>6 DEF Follows, DecisionKept, WorkKept
<1>8. QED BY <1>2, <1>7 DEF w

(* A case is cleared only if its review is not mandatory: the level of the *)
(* classification is not below that of the deterministic pass.             *)
LEMMA ClassifyFollows ==
  ASSUME NEW v \in Values, NEW reply \in ModelReplies, Coherent(v, "classify_risk")
  PROVE  LET w == ClassifyRisk(v, reply)
         IN  Follows(v, "classify_risk", w, Successor("classify_risk", w))
<1> DEFINE w     == ClassifyRisk(v, reply)
           level == Classify(Signals[v.question], reply)
           base  == BaselineLevel(Signals[v.question])
           succ  == Successor("classify_risk", w)
<1>1. /\ SameRequest(v, w) /\ SameSignature(v, w) /\ w.final_answer = v.final_answer
      /\ w.force_human_review = v.force_human_review /\ w.risk_level = level
  BY DEF ClassifyRisk, Visited, Values, SameRequest, SameSignature
<1>2. level \in RiskLevels /\ RiskOrder[level] >= RiskOrder[base]
  BY ClassifyNeverLowers
<1>3. base = "high" => level = "high"
  BY <1>2 DEF RiskLevels, RiskOrder
<1>4. v.review_decision = "" /\ v.risk_level = ""
  BY DEF Coherent, Unreviewed
<1> HIDE DEF w, level, base
<1>5. /\ succ \in {"interrupt_for_review", "finalize_decision"}
      /\ succ = "finalize_decision" => level # "high" /\ ~v.force_human_review
  BY <1>1, <1>2 DEF Successor, RouteAfterRisk, NeedsReview
<1> HIDE DEF succ
<1>6. StageOf(v, "classify_risk") = "open" /\ PositionOf(w) = PositionOf(v)
  BY <1>1, OpenStage, SameAnswer
<1>7. w.review_decision = ""
  BY <1>1, <1>4 DEF SameSignature
<1>8. ASSUME succ = "interrupt_for_review"
      PROVE  MayBecome(CaseOf(v, "classify_risk"), CaseOf(w, succ))
  <2>1. StageOf(w, succ) = "gate"
    BY <1>8, GateStage
  <2>2. QED BY <1>1, <1>6, <2>1, StageStep
<1>9. ASSUME succ = "finalize_decision"
      PROVE  MayBecome(CaseOf(v, "classify_risk"), CaseOf(w, succ))
  <2>1. StageOf(w, succ) = "cleared"
    BY <1>7, <1>9, AfterGateStage
  <2>2. ~Mandatory(v)
    BY <1>3, <1>5, <1>9 DEF Mandatory, base
  <2>3. QED BY <1>1, <1>6, <2>1, <2>2, StageStep
<1>10. MayBecome(CaseOf(v, "classify_risk"), CaseOf(w, succ))
  BY <1>5, <1>8, <1>9
<1>11. Follows(v, "classify_risk", w, succ)
  BY <1>4, <1>10 DEF Follows, DecisionKept, WorkKept
<1>12. QED BY <1>11 DEF w, succ

(* A case is decided at the gate, and by somebody.                         *)
LEMMA ReviewFollows ==
  ASSUME NEW v \in Values, NEW raw \in RawInputs, Accepted(raw),
         Coherent(v, "interrupt_for_review")
  PROVE  LET w == InterruptForReview(v, ParseReviewInput(raw))
         IN  Follows(v, "interrupt_for_review", w, Successor("interrupt_for_review", w))
<1> DEFINE d == ParseReviewInput(raw)
           w == InterruptForReview(v, d)
<1>1. d.decision \in Decisions /\ d.reviewer \in Reviewers
  BY ParsedType DEF ReviewDecisions
<1> HIDE DEF d
<1>2. /\ SameRequest(v, w) /\ w.final_answer = v.final_answer
      /\ w.question = v.question /\ SameDraft(v, w)
      /\ w.evidence_grade = v.evidence_grade /\ w.risk_level = v.risk_level
      /\ w.review_required = v.review_required
      /\ w.review_decision = d.decision /\ w.reviewer_id = d.reviewer
      /\ w.route_history = Append(v.route_history, "interrupt_for_review")
  BY DEF InterruptForReview, Visited, Values, SameRequest, SameDraft, SameParts
<1>3. v.route_history \in Seq(WorkNodes) /\ "interrupt_for_review" \in WorkNodes
  BY DEF Values, WorkNodes
<1> HIDE DEF w
<1>4. Successor("interrupt_for_review", w) = "apply_feedback"
  BY DEF Successor
<1>5. w.review_decision \in Decisions /\ w.reviewer_id \in Reviewers
  BY <1>1, <1>2
<1>6. StageOf(w, "apply_feedback") = "decided"
  <2>1. w.review_decision # ""
    BY <1>5 DEF Decisions
  <2>2. QED BY <2>1, AfterGateStage
<1>7. StageOf(v, "interrupt_for_review") = "gate" /\ PositionOf(w) = PositionOf(v)
  BY <1>2, GateStage, SameAnswer
<1>8. MayBecome(CaseOf(v, "interrupt_for_review"), CaseOf(w, "apply_feedback"))
  BY <1>2, <1>5, <1>6, <1>7, DecideStep
<1>9. v.review_decision = ""
  BY DEF Coherent, Unreviewed
<1>10. WorkKept(v, "interrupt_for_review", w)
  BY <1>2, <1>3, RouteGrows DEF WorkKept, SameDraft, SameParts
<1>11. Follows(v, "interrupt_for_review", w, "apply_feedback")
  BY <1>8, <1>9, <1>10 DEF Follows, DecisionKept
<1>12. QED BY <1>4, <1>11 DEF w, d

(* apply_feedback keeps a decided case decided. *)
LEMMA ApplyFollows ==
  ASSUME NEW v \in Values, Coherent(v, "apply_feedback")
  PROVE  LET w == ApplyFeedback(v)
         IN  Follows(v, "apply_feedback", w, Successor("apply_feedback", w))
<1> DEFINE w == ApplyFeedback(v)
<1>1. /\ SameRequest(v, w) /\ SameSignature(v, w) /\ w.final_answer = v.final_answer
      /\ w.question = v.question /\ SameParts(v, w)
      /\ w.evidence_grade = v.evidence_grade /\ w.risk_level = v.risk_level
      /\ w.review_required = v.review_required
      /\ w.review_decision = v.review_decision /\ w.reviewer_id = v.reviewer_id
      /\ w.reviewer_feedback = v.reviewer_feedback
      /\ w.route_history = Append(v.route_history, "apply_feedback")
  BY DEF ApplyFeedback, Visited, Values, SameRequest, SameSignature, SameParts
<1>2. v.route_history \in Seq(WorkNodes) /\ "apply_feedback" \in WorkNodes
  BY DEF Values, WorkNodes
<1> HIDE DEF w
<1>3. Successor("apply_feedback", w) = "finalize_decision"
  BY DEF Successor
<1>4. v.review_decision # ""
  BY DEF Coherent, Reviewed, Decisions
<1>5. StageOf(v, "apply_feedback") = "decided" /\ PositionOf(w) = PositionOf(v)
  BY <1>1, <1>4, AfterGateStage, SameAnswer
<1>6. StageOf(w, "finalize_decision") = "decided"
  <2>1. w.review_decision # ""
    BY <1>1, <1>4
  <2>2. QED BY <2>1, AfterGateStage
<1>7. MayBecome(CaseOf(v, "apply_feedback"), CaseOf(w, "finalize_decision"))
  BY <1>1, <1>5, <1>6, StageStep
<1>8. WorkKept(v, "apply_feedback", w)
  BY <1>1, <1>2, RouteGrows DEF WorkKept, SameParts
<1>9. Follows(v, "apply_feedback", w, "finalize_decision")
  BY <1>1, <1>7, <1>8 DEF Follows, DecisionKept
<1>10. QED BY <1>3, <1>9 DEF w

(* An answer states the position of the draft it is composed of. *)
LEMMA AnswerPosition ==
  ASSUME NEW v, NEW w, w.final_answer = ComposeAnswer(v)
  PROVE  /\ v.draft_answer = "assessed" => PositionOf(w) = "assistant"
         /\ v.draft_answer \in {"superseded", "changes_required"} => PositionOf(w) = "reviewer"
         /\ v.draft_answer \in {"no_evidence", "model_failed"} => PositionOf(w) = "notice"
<1>1. ComposeAnswer(v).body = v.draft_answer
  BY DEF ComposeAnswer
<1>2. w.final_answer.body = v.draft_answer
  BY <1>1, Zenon
<1>3. QED BY <1>2 DEF PositionOf

(* A case ends as it was decided; one that needed no review fails without  *)
(* evidence, and then its answer is a notice.                              *)
LEMMA FinalizeFollows ==
  ASSUME NEW v \in Values, Coherent(v, "finalize_decision")
  PROVE  LET w == FinalizeDecision(v)
         IN  Follows(v, "finalize_decision", w, Successor("finalize_decision", w))
<1> DEFINE w == FinalizeDecision(v)
<1>1. /\ SameRequest(v, w) /\ SameSignature(v, w)
      /\ w.final_answer = ComposeAnswer(v) /\ w.status = StatusFor(v)
      /\ w.question = v.question /\ SameDraft(v, w)
      /\ w.evidence_grade = v.evidence_grade /\ w.risk_level = v.risk_level
      /\ w.review_required = v.review_required
      /\ w.review_decision = v.review_decision /\ w.reviewer_id = v.reviewer_id
      /\ w.reviewer_feedback = v.reviewer_feedback
      /\ w.route_history = Append(v.route_history, "finalize_decision")
  BY DEF FinalizeDecision, Visited, Values, SameRequest, SameSignature, SameDraft, SameParts
<1>2. v.route_history \in Seq(WorkNodes) /\ "finalize_decision" \in WorkNodes
  BY DEF Values, WorkNodes
<1> HIDE DEF w
<1>3. Successor("finalize_decision", w) = "END"
  BY DEF Successor
<1>4. ~v.retrieval_error
  BY DEF Coherent, Classified
<1>5. Drafted(v) => PositionOf(w) \in {"assistant", "notice"}
  BY <1>1, AnswerPosition DEF Drafted
<1>6. ASSUME v.review_required
      PROVE  MayBecome(CaseOf(v, "finalize_decision"), CaseOf(w, "END"))
  <2>1. v.review_decision # ""
    BY <1>6 DEF Coherent, ReviewedAsRequired, Reviewed, Decisions
  <2>2. StageOf(v, "finalize_decision") = "decided"
    BY <2>1, AfterGateStage
  <2>3. CASE v.review_decision = "approved"
    <3>1. w.status = "completed"
      BY <1>1, <1>4, <1>6, <2>3 DEF StatusFor
    <3>2. StageOf(w, "END") = "released"
      BY <3>1, EndStage
    <3>3. PositionOf(w) \in {"assistant", "notice"}
      BY <1>5, <2>3 DEF Coherent, DraftReconciled
    <3>4. QED BY <1>1, <2>2, <2>3, <3>2, <3>3, EndStep
  <2>4. CASE v.review_decision # "approved"
    <3>1. w.status = "rejected_by_reviewer"
      BY <1>1, <1>4, <1>6, <2>4 DEF StatusFor
    <3>2. StageOf(w, "END") = "refused"
      BY <3>1, EndStage
    <3>3. v.draft_answer \in {"superseded", "changes_required"}
      BY <1>6, <2>4 DEF Coherent, DraftReconciled
    <3>4. PositionOf(w) = "reviewer"
      BY <1>1, <3>3, AnswerPosition
    <3>5. QED BY <1>1, <2>2, <2>4, <3>2, <3>4, EndStep
  <2>5. QED BY <2>3, <2>4
<1>7. ASSUME ~v.review_required
      PROVE  MayBecome(CaseOf(v, "finalize_decision"), CaseOf(w, "END"))
  <2>1. v.review_decision = ""
    BY <1>7 DEF Coherent, ReviewedAsRequired, Unreviewed
  <2>2. StageOf(v, "finalize_decision") = "cleared"
    BY <2>1, AfterGateStage
  <2>3. Drafted(v)
    BY <1>7 DEF Coherent, DraftReconciled
  <2>4. CASE v.evidence_grade = "none"
    <3>1. w.status = "failed"
      BY <1>1, <1>4, <1>7, <2>4 DEF StatusFor
    <3>2. StageOf(w, "END") = "failed"
      BY <3>1, EndStage
    <3>3. v.draft_answer \in {"no_evidence", "model_failed"}
      BY <2>3, <2>4 DEF Coherent, Grounded, Drafted
    <3>4. PositionOf(w) = "notice"
      BY <1>1, <3>3, AnswerPosition
    <3>5. QED BY <1>1, <2>2, <3>2, <3>4, EndStep
  <2>5. CASE v.evidence_grade # "none"
    <3>1. w.status = "completed"
      BY <1>1, <1>4, <1>7, <2>5 DEF StatusFor
    <3>2. StageOf(w, "END") = "released"
      BY <3>1, EndStage
    <3>3. QED BY <1>1, <1>5, <2>2, <2>3, <3>2, EndStep
  <2>6. QED BY <2>4, <2>5
<1>8. MayBecome(CaseOf(v, "finalize_decision"), CaseOf(w, "END"))
  BY <1>6, <1>7
<1>9. WorkKept(v, "finalize_decision", w)
  BY <1>1, <1>2, RouteGrows DEF WorkKept, SameDraft, SameParts
<1>10. Follows(v, "finalize_decision", w, "END")
  BY <1>1, <1>8, <1>9 DEF Follows, DecisionKept
<1>11. QED BY <1>3, <1>10 DEF w

(* The answer of a failed case is a notice. *)
LEMMA FailFollows ==
  ASSUME NEW v \in Values, Coherent(v, "record_failure")
  PROVE  LET w == RecordFailure(v)
         IN  Follows(v, "record_failure", w, Successor("record_failure", w))
<1> DEFINE w == RecordFailure(v)
           notice == [NoAnswer EXCEPT !.body = "unresolved"]
<1>1. /\ SameRequest(v, w) /\ SameSignature(v, w)
      /\ w.status = "failed" /\ w.final_answer = notice
  BY DEF RecordFailure, Visited, Values, SameRequest, SameSignature
<1>2. notice.body = "unresolved"
  BY DEF NoAnswer
<1> HIDE DEF w, notice
<1>3. Successor("record_failure", w) = "END"
  BY DEF Successor
<1>4. v.review_decision = "" /\ v.risk_level = ""
  BY DEF Coherent, Unreviewed
<1>5. PositionOf(w) = "notice"
  <2>1. w.final_answer.body = "unresolved"
    BY <1>1, <1>2, Zenon
  <2>2. QED BY <2>1 DEF PositionOf
<1>6. StageOf(v, "record_failure") = "open" /\ StageOf(w, "END") = "failed"
  BY <1>1, OpenStage, EndStage
<1>7. MayBecome(CaseOf(v, "record_failure"), CaseOf(w, "END"))
  BY <1>1, <1>5, <1>6, EndStep
<1>8. Follows(v, "record_failure", w, "END")
  BY <1>4, <1>7 DEF Follows, DecisionKept, WorkKept
<1>9. QED BY <1>3, <1>8 DEF w

-----------------------------------------------------------------------------
(* The invariant. *)

(* A run about to execute a node holds the checkpoint of its thread; one   *)
(* that has executed it holds what may follow that checkpoint.             *)
RunFollows(c) ==
  LET cp == checkpoint[call[c].thread] IN
  /\ pc[c] = "run" => run[c].values = cp.values /\ run[c].next = cp.next
  /\ pc[c] = "commit" => Follows(cp.values, cp.next, run[c].values, run[c].next)

SerialInv ==
  /\ ReviewInv
  /\ Serial
  /\ \A c \in Callers : RunFollows(c)

(* No thread moves on. *)
PlacesKept ==
  \A t \in Threads : /\ checkpoint'[t].values = checkpoint[t].values
                     /\ checkpoint'[t].next = checkpoint[t].next

(* The invariant holds before any call. *)
LEMMA InitSerial == Init => SerialInv
<1>1. SUFFICES ASSUME Init PROVE SerialInv
  OBVIOUS
<1>2. ReviewInv
  BY <1>1, InitReview
<1>3. Serial
  BY <1>1 DEF Init, Serial, NoCall
<1>4. \A c \in Callers : RunFollows(c)
  BY <1>1 DEF Init, RunFollows
<1>5. QED BY <1>2, <1>3, <1>4 DEF SerialInv

(* A step of another caller on other threads leaves a run where it is. *)
LEMMA OtherFollows ==
  ASSUME SerialInv, NEW d \in Callers,
         pc'[d] = pc[d], call'[d] = call[d],
         run'[d].values = run[d].values, run'[d].next = run[d].next,
         pc[d] \in {"run", "commit"} =>
           /\ checkpoint'[call[d].thread].values = checkpoint[call[d].thread].values
           /\ checkpoint'[call[d].thread].next = checkpoint[call[d].thread].next
  PROVE  RunFollows(d)'
BY DEF SerialInv, RunFollows

(* So does a step of another caller that moves no thread on. *)
LEMMA OthersFollow ==
  ASSUME SerialInv, PlacesKept, NEW c \in Callers,
         \A d \in Callers : d # c => /\ pc'[d] = pc[d] /\ call'[d] = call[d]
                                     /\ run'[d] = run[d],
         RunFollows(c)'
  PROVE  \A d \in Callers : RunFollows(d)'
<1>1. SUFFICES ASSUME NEW d \in Callers, d # c PROVE RunFollows(d)'
  OBVIOUS
<1>2. pc[d] \in {"run", "commit"} => call[d].thread \in Threads
  BY DEF SerialInv, ReviewInv, TypeInv, CallOnThread
<1>3. QED BY <1>1, <1>2, OtherFollows DEF PlacesKept

(* The variables are functions of their domains. *)
LEMMA Functional ==
  ASSUME SerialInv
  PROVE  /\ pc \in [Callers -> PCs] /\ run \in [Callers -> Runs] /\ call \in [Callers -> Calls]
         /\ result \in [Callers -> Results] /\ checkpoint \in [Threads -> Checkpoints]
         /\ submissions \in [Threads -> Nat]
BY DEF SerialInv, ReviewInv, TypeInv, TypeOK

(* The end of a call. *)
LEMMA ReturnFollows ==
  ASSUME SerialInv, PlacesKept, NEW c \in Callers, NEW r, Return(c, r)
  PROVE  \A d \in Callers : RunFollows(d)'
<1>1. /\ pc'[c] = "idle"
      /\ \A d \in Callers : d # c => pc'[d] = pc[d] /\ call'[d] = call[d] /\ run'[d] = run[d]
  BY Functional DEF Return
<1>2. RunFollows(c)'
  BY <1>1 DEF RunFollows
<1>3. QED BY <1>1, <1>2, OthersFollow

(* The end of a node. *)
LEMMA NodeEndsFollows ==
  ASSUME SerialInv, NEW c \in Callers, NEW v, NEW events, pc[c] = "run",
         Follows(run[c].values, run[c].next, v, Successor(run[c].next, v)),
         NodeEnds(c, v, events)
  PROVE  PlacesKept /\ \A d \in Callers : RunFollows(d)'
<1>1. /\ run'[c].values = v /\ run'[c].next = Successor(run[c].next, v)
      /\ \A d \in Callers : d # c => run'[d] = run[d]
  <2>1. run[c] \in Runs /\ run \in [Callers -> Runs]
    BY Functional
  <2>2. QED BY <2>1 DEF NodeEnds, Runs
<1>2. /\ pc'[c] = "commit" /\ UNCHANGED <<checkpoint, call>>
      /\ \A d \in Callers : d # c => pc'[d] = pc[d]
  BY Functional DEF NodeEnds
<1>3. PlacesKept
  BY <1>2 DEF PlacesKept
<1>4. run[c].values = checkpoint[call[c].thread].values
      /\ run[c].next = checkpoint[call[c].thread].next
  BY DEF SerialInv, RunFollows
<1>5. RunFollows(c)'
  BY <1>1, <1>2, <1>4 DEF RunFollows
<1>6. QED BY <1>1, <1>2, <1>3, <1>5, OthersFollow

(* An exception out of a node. *)
LEMMA NodeRaisesFollows ==
  ASSUME SerialInv, NEW c \in Callers, NEW kind, NodeRaises(c, kind)
  PROVE  PlacesKept /\ \A d \in Callers : RunFollows(d)'
<1>1. PlacesKept
  BY DEF NodeRaises, PlacesKept
<1>2. QED BY <1>1, ReturnFollows DEF NodeRaises, Raise

(* Each node. *)
LEMMA RunNodeFollows ==
  ASSUME SerialInv, NEW c \in Callers, RunNode(c)
  PROVE  PlacesKept /\ \A d \in Callers : RunFollows(d)'
<1> DEFINE v == run[c].values
           t == call[c].thread
           g == Given(c)
<1>1. pc[c] = "run"
  BY DEF RunNode, Retrieve, Draft, ClassifyNode, ReviewSuspends, ReviewDecided, ReviewRaises,
         ApplyReview, Finalize, Fail, At
<1>2. TypeInv /\ ReviewInv
  BY DEF SerialInv, ReviewInv
<1>3. /\ v \in Values /\ t \in Threads /\ run[c].resumes \in Seq(RawInputs)
      /\ checkpoint[t].interrupt \in InterruptKinds
  BY <1>1, <1>2, RunContext DEF Checkpoints
<1>4. Coherent(v, run[c].next)
  BY <1>2 DEF ReviewInv, RunsCoherent
<1>5. g \in Seq(RawInputs)
  BY <1>2, GivenType
<1>6. CASE Retrieve(c)
  <2>1. PICK outcome \in Retrievals : NodeEnds(c, RetrievePolicy(v, outcome), {})
    BY <1>6 DEF Retrieve
  <2>2. Follows(v, run[c].next, RetrievePolicy(v, outcome),
                Successor(run[c].next, RetrievePolicy(v, outcome)))
    BY <1>3, <1>4, <1>6, RetrieveFollows, InstanceAssumption DEF Retrieve, At
  <2>3. QED BY <1>1, <2>1, <2>2, NodeEndsFollows
<1>7. CASE Draft(c)
  <2>1. PICK reply \in Assessments :
          NodeRaises(c, "DraftTypeError") \/ NodeEnds(c, DraftAssessment(v, reply), {})
    BY <1>7 DEF Draft
  <2>2. Follows(v, run[c].next, DraftAssessment(v, reply),
                Successor(run[c].next, DraftAssessment(v, reply)))
    BY <1>3, <1>4, <1>7, DraftFollows, InstanceAssumption DEF Draft, At
  <2>3. QED BY <1>1, <2>1, <2>2, NodeEndsFollows, NodeRaisesFollows
<1>8. CASE ClassifyNode(c)
  <2>1. PICK reply \in Verdicts :
          NodeRaises(c, "ClassifierTypeError") \/ NodeEnds(c, ClassifyRisk(v, reply), {})
    BY <1>8 DEF ClassifyNode
  <2>2. Follows(v, run[c].next, ClassifyRisk(v, reply),
                Successor(run[c].next, ClassifyRisk(v, reply)))
    BY <1>3, <1>4, <1>8, ClassifyFollows, InstanceAssumption DEF ClassifyNode, At
  <2>3. QED BY <1>1, <2>1, <2>2, NodeEndsFollows, NodeRaisesFollows
<1>9. CASE ReviewSuspends(c)
  <2> DEFINE kind == IF g = <<>> THEN "review" ELSE "review_with_error"
  <2>1. /\ At(c, "interrupt_for_review")
        /\ checkpoint' = TaskRows(c, kind, g)
        /\ run' = [run EXCEPT ![c] = [run[c] EXCEPT !.paused = kind]]
        /\ pc' = [pc EXCEPT ![c] = "answer"]
        /\ UNCHANGED call
    BY <1>9 DEF ReviewSuspends
  <2>2. kind \in InterruptKinds
    BY DEF InterruptKinds
  <2> HIDE DEF kind, g
  <2>3. PlacesKept
    BY <1>2, <1>5, <2>1, <2>2, TaskRowsKeepsPlaces DEF KeepsPlaces, PlacesKept
  <2>4. /\ pc'[c] = "answer"
        /\ \A d \in Callers : d # c => pc'[d] = pc[d] /\ call'[d] = call[d] /\ run'[d] = run[d]
    BY <2>1, Functional
  <2>5. RunFollows(c)'
    BY <2>4 DEF RunFollows
  <2>6. QED BY <2>3, <2>4, <2>5, OthersFollow
<1>10. CASE ReviewDecided(c)
  <2> DEFINE raw == Decisive(g)
             w   == InterruptForReview(v, ParseReviewInput(raw))
  <2>1. At(c, "interrupt_for_review") /\ Decided(g) /\ \E events : NodeEnds(c, w, events)
    BY <1>10 DEF ReviewDecided
  <2>2. raw \in RawInputs /\ Accepted(raw)
    BY <1>5, <2>1, DecisiveType
  <2>3. Follows(v, run[c].next, w, Successor(run[c].next, w))
    BY <1>3, <1>4, <2>1, <2>2, ReviewFollows DEF At
  <2> HIDE DEF w
  <2>4. QED BY <1>1, <2>1, <2>3, NodeEndsFollows
<1>11. CASE ReviewRaises(c)
  <2>1. /\ At(c, "interrupt_for_review") /\ ~Suspends(g) /\ ~Decided(g)
        /\ Raise(c, "InvalidReviewInput", call[c].op, call[c].input)
    BY <1>11 DEF ReviewRaises
  <2>2. PICK kept \in {run[c].resumes, SubSeq(g, 1, 2)} :
          checkpoint' = TaskRows(c, checkpoint[t].interrupt, kept)
    BY <1>11 DEF ReviewRaises
  <2>3. SubSeq(g, 1, 2) \in Seq(RawInputs)
    BY <1>5, <2>1, KeptType
  <2>4. PlacesKept
    BY <1>2, <1>3, <2>1, <2>2, <2>3, TaskRowsKeepsPlaces DEF KeepsPlaces, PlacesKept
  <2>5. QED BY <2>1, <2>4, ReturnFollows DEF Raise
<1>12. CASE ApplyReview(c)
  <2>1. Follows(v, run[c].next, ApplyFeedback(v), Successor(run[c].next, ApplyFeedback(v)))
    BY <1>3, <1>4, <1>12, ApplyFollows DEF ApplyReview, At
  <2>2. NodeEnds(c, ApplyFeedback(v), {})
    BY <1>12 DEF ApplyReview
  <2>3. QED BY <1>1, <2>1, <2>2, NodeEndsFollows
<1>13. CASE Finalize(c)
  <2>1. NodeRaises(c, "HumanReviewBypassError")
        \/ \E events : NodeEnds(c, FinalizeDecision(v), events)
    BY <1>13 DEF Finalize
  <2>2. Follows(v, run[c].next, FinalizeDecision(v), Successor(run[c].next, FinalizeDecision(v)))
    BY <1>3, <1>4, <1>13, FinalizeFollows DEF Finalize, At
  <2>3. QED BY <1>1, <2>1, <2>2, NodeEndsFollows, NodeRaisesFollows
<1>14. CASE Fail(c)
  <2>1. Follows(v, run[c].next, RecordFailure(v), Successor(run[c].next, RecordFailure(v)))
    BY <1>3, <1>4, <1>14, FailFollows DEF Fail, At
  <2>2. \E events : NodeEnds(c, RecordFailure(v), events)
    BY <1>14 DEF Fail
  <2>3. QED BY <1>1, <2>1, <2>2, NodeEndsFollows
<1>15. QED BY <1>6, <1>7, <1>8, <1>9, <1>10, <1>11, <1>12, <1>13, <1>14 DEF RunNode

(* A call that begins, or whose run loads the latest checkpoint. *)
LEMMA ResumeFollows ==
  ASSUME SerialInv, NEW c \in Callers, NEW t \in Threads, NEW raw \in RawInputs,
         ResumeRefused(c, t, raw) \/ ResumeChecked(c, t, raw)
  PROVE  PlacesKept /\ \A d \in Callers : RunFollows(d)'
<1>1. PlacesKept
  BY DEF ResumeRefused, ResumeChecked, PlacesKept
<1>2. CASE ResumeRefused(c, t, raw)
  <2>1. \E r : Return(c, r)
    BY <1>2 DEF ResumeRefused, Raise
  <2>2. QED BY <1>1, <2>1, ReturnFollows
<1>3. CASE ResumeChecked(c, t, raw)
  <2>1. /\ pc' = [pc EXCEPT ![c] = "checked"] /\ UNCHANGED run
        /\ \E k : call' = [call EXCEPT ![c] = k]
    BY <1>3 DEF ResumeChecked
  <2>2. /\ pc'[c] = "checked"
        /\ \A d \in Callers : d # c => pc'[d] = pc[d] /\ call'[d] = call[d] /\ run'[d] = run[d]
    BY <2>1, Functional
  <2>3. RunFollows(c)'
    BY <2>2 DEF RunFollows
  <2>4. QED BY <1>1, <2>2, <2>3, OthersFollow
<1>4. QED BY <1>2, <1>3

(* An invocation takes the checkpoint of its thread. *)
LEMMA InvokeFollows ==
  ASSUME SerialInv, NEW c \in Callers, Invoke(c)
  PROVE  PlacesKept /\ \A d \in Callers : RunFollows(d)'
<1> DEFINE cp == checkpoint[call[c].thread]
           r  == [NoRun EXCEPT !.values = cp.values, !.next = cp.next,
                               !.resumes = cp.resumes, !.offered = TRUE, !.latest = TRUE]
<1>1. r.values = cp.values /\ r.next = cp.next
  BY DEF NoRun
<1>2. /\ run' = [run EXCEPT ![c] = r] /\ UNCHANGED <<checkpoint, call>>
      /\ pc' = [pc EXCEPT ![c] = IF cp.next = "END" THEN "answer" ELSE "run"]
  BY DEF Invoke
<1> HIDE DEF r
<1>3. /\ run'[c] = r /\ pc'[c] \in {"answer", "run"}
      /\ \A d \in Callers : d # c => pc'[d] = pc[d] /\ call'[d] = call[d] /\ run'[d] = run[d]
  BY <1>2, Functional
<1>4. PlacesKept
  BY <1>2 DEF PlacesKept
<1>5. RunFollows(c)'
  BY <1>1, <1>2, <1>3 DEF RunFollows
<1>6. QED BY <1>3, <1>4, <1>5, OthersFollow

(* A call that ends, by its result or by the death of its process. *)
LEMMA EndFollows ==
  ASSUME SerialInv, NEW c \in Callers, Answer(c) \/ Crash(c)
  PROVE  PlacesKept /\ \A d \in Callers : RunFollows(d)'
<1>1. PlacesKept
  BY DEF Answer, Crash, PlacesKept
<1>2. \E r : Return(c, r)
  BY DEF Answer, Crash, Raise
<1>3. QED BY <1>1, <1>2, ReturnFollows

(* A checkpoint of t is saved: no other call is on t. *)
LEMMA SavedFollows ==
  ASSUME SerialInv, Serial', NEW c \in Callers, NEW t \in Threads, NEW v, NEW node,
         checkpoint' = [checkpoint EXCEPT ![t] = Saved(v, node)],
         \A d \in Callers : d # c => /\ run'[d] = Superseded(c, t)[d]
                                     /\ pc'[d] = pc[d] /\ call'[d] = call[d],
         run'[c].values = v, run'[c].next = node, call'[c].thread = t, pc'[c] # "commit"
  PROVE  \A d \in Callers : RunFollows(d)'
<1>1. /\ checkpoint'[t].values = v /\ checkpoint'[t].next = node
      /\ \A u \in Threads : u # t => checkpoint'[u] = checkpoint[u]
  BY Functional DEF Saved
<1>2. RunFollows(c)'
  BY <1>1 DEF RunFollows
<1>3. ASSUME NEW d \in Callers, d # c PROVE RunFollows(d)'
  <2>1. t # NoThread
    BY NoThreadAssumption
  <2>2. call[d].thread # t
    BY <1>3, <2>1 DEF Serial
  <2>3. run'[d] = run[d]
    BY <1>3, <2>2 DEF Superseded
  <2>4. pc[d] \in {"run", "commit"} => call[d].thread \in Threads
    BY DEF SerialInv, ReviewInv, TypeInv, CallOnThread
  <2>5. QED BY <1>1, <1>3, <2>2, <2>3, <2>4, OtherFollows
<1>4. QED BY <1>2, <1>3

(* A submission saves the checkpoint it holds. *)
LEMMA SubmitFollows ==
  ASSUME SerialInv, Serial', NEW c \in Callers, NEW t \in Threads, NEW q \in Questions,
         NEW forced \in BOOLEAN, Submit(c, t, q, forced)
  PROVE  \A d \in Callers : RunFollows(d)'
<1> DEFINE v == NewRequestState(checkpoint[t].values, q, forced)
           r == [NoRun EXCEPT !.values = v, !.next = "retrieve_policy", !.latest = TRUE]
<1>1. /\ checkpoint' = [checkpoint EXCEPT ![t] = Saved(v, "retrieve_policy")]
      /\ run' = [Superseded(c, t) EXCEPT ![c] = r]
      /\ pc' = [pc EXCEPT ![c] = "run"]
      /\ call' = [call EXCEPT ![c] = [op |-> "submit", thread |-> t, input |-> NoInput]]
  BY DEF Submit
<1>2. r.values = v /\ r.next = "retrieve_policy"
  BY DEF NoRun
<1> HIDE DEF v, r
<1>3. run'[c] = r /\ \A d \in Callers : d # c => run'[d] = Superseded(c, t)[d]
  BY <1>1 DEF Superseded
<1>4. /\ call'[c].thread = t /\ pc'[c] = "run"
      /\ \A d \in Callers : d # c => pc'[d] = pc[d] /\ call'[d] = call[d]
  BY <1>1, Functional
<1>5. checkpoint' = [checkpoint EXCEPT ![t] = Saved(v, "retrieve_policy")] /\ pc'[c] # "commit"
  BY <1>1, <1>4
<1>6. QED BY <1>2, <1>3, <1>4, <1>5, SavedFollows

(* A commit saves what may follow the checkpoint. *)
LEMMA CommitFollows ==
  ASSUME SerialInv, Serial', NEW c \in Callers, Commit(c)
  PROVE  \A d \in Callers : RunFollows(d)'
<1> DEFINE t    == call[c].thread
           v    == run[c].values
           node == run[c].next
           r    == [run[c] EXCEPT !.resumes = <<>>, !.latest = TRUE]
<1>1. t \in Threads /\ run[c] \in Runs
  BY Functional DEF SerialInv, ReviewInv, TypeInv, CallOnThread, Commit
<1>2. /\ checkpoint' = [checkpoint EXCEPT ![t] = Saved(v, node)]
      /\ run' = [Superseded(c, t) EXCEPT ![c] = r]
      /\ pc' = [pc EXCEPT ![c] = IF node = "END" THEN "answer" ELSE "run"]
      /\ UNCHANGED call
  BY DEF Commit
<1>3. r.values = v /\ r.next = node
  BY <1>1 DEF Runs
<1>4. /\ call'[c].thread = t /\ pc'[c] # "commit"
      /\ \A d \in Callers : d # c => pc'[d] = pc[d] /\ call'[d] = call[d]
  BY <1>2, Functional
<1> HIDE DEF t, v, node, r
<1>5. run'[c] = r /\ \A d \in Callers : d # c => run'[d] = Superseded(c, t)[d]
  BY <1>2 DEF Superseded
<1>6. checkpoint' = [checkpoint EXCEPT ![t] = Saved(v, node)]
  BY <1>2
<1>7. /\ run'[c].values = v /\ run'[c].next = node
      /\ \A d \in Callers : d # c => /\ run'[d] = Superseded(c, t)[d]
                                    /\ pc'[d] = pc[d] /\ call'[d] = call[d]
  BY <1>3, <1>4, <1>5
<1>8. t \in Threads /\ call'[c].thread = t /\ pc'[c] # "commit"
  BY <1>1, <1>4
<1>9. QED BY <1>6, <1>7, <1>8, SavedFollows

(* What a step does to the threads: nothing, a submission, or the end of a *)
(* node that the contract allows.                                          *)
Submitted ==
  \E c \in Callers, t \in Threads, q \in Questions, forced \in BOOLEAN : Submit(c, t, q, forced)
Committed == \E c \in Callers : Commit(c)

(* Every step of serial calls preserves the invariant. *)
LEMMA NextFollows ==
  ASSUME SerialInv, [Next /\ Serial']_vars
  PROVE  SerialInv' /\ (PlacesKept \/ Submitted \/ Committed)
<1>1. ReviewInv'
  BY NextReview DEF SerialInv
<1>2. Serial'
  BY DEF SerialInv, Serial, vars
<1>3. ASSUME NEW c \in Callers, NEW t \in Threads, NEW q \in Questions, NEW forced \in BOOLEAN,
             Submit(c, t, q, forced)
      PROVE  (\A d \in Callers : RunFollows(d)') /\ Submitted
  BY <1>2, <1>3, SubmitFollows DEF Submitted
<1>4. ASSUME NEW c \in Callers, NEW t \in Threads, NEW raw \in ReviewerInputs,
             ResumeRefused(c, t, raw) \/ ResumeChecked(c, t, raw)
      PROVE  (\A d \in Callers : RunFollows(d)') /\ PlacesKept
  <2>1. raw \in RawInputs
    BY InstanceAssumption
  <2>2. QED BY <1>4, <2>1, ResumeFollows
<1>5. ASSUME NEW c \in Callers, Commit(c)
      PROVE  (\A d \in Callers : RunFollows(d)') /\ Committed
  BY <1>2, <1>5, CommitFollows DEF Committed
<1>6. ASSUME NEW c \in Callers, Invoke(c) \/ RunNode(c) \/ Answer(c) \/ Crash(c)
      PROVE  (\A d \in Callers : RunFollows(d)') /\ PlacesKept
  BY <1>6, InvokeFollows, RunNodeFollows, EndFollows
<1>7. CASE UNCHANGED vars
  <2>1. PlacesKept
    BY <1>7 DEF vars, PlacesKept
  <2>2. \A d \in Callers : RunFollows(d)'
    BY <1>7 DEF SerialInv, RunFollows, vars
  <2>3. QED BY <1>1, <1>2, <2>1, <2>2 DEF SerialInv
<1>8. CASE Next
  <2>1. (\A d \in Callers : RunFollows(d)') /\ (PlacesKept \/ Submitted \/ Committed)
    BY <1>3, <1>4, <1>5, <1>6, <1>8 DEF Next, Proceed
  <2>2. QED BY <1>1, <1>2, <2>1 DEF SerialInv
<1>9. QED BY <1>7, <1>8
-----------------------------------------------------------------------------
(* The refinement. *)

(* A case that moves on by itself moves by a step of the contract. *)
LEMMA CaseMoves ==
  ASSUME NEW t \in Threads, NEW b, ThreadCases' = [ThreadCases EXCEPT ![t] = b],
         MayBecome(ThreadCases[t], b), ThreadCases = [u \in Threads |-> ThreadCases[u]]
  PROVE  [Contract!Next]_ThreadCases
<1> DEFINE a == ThreadCases[t]
<1>1. CASE b = a
  BY <1>1
<1>2. CASE a.stage = "open" /\ b = [a EXCEPT !.stage = "gate"]
  <2>1. Contract!Hold(t)
    BY <1>2 DEF Contract!Hold
  <2>2. QED BY <2>1 DEF Contract!Next
<1>3. CASE a.stage = "open" /\ ~a.mandatory /\ b = [a EXCEPT !.stage = "cleared"]
  <2>1. Contract!Clear(t)
    BY <1>3 DEF Contract!Clear
  <2>2. QED BY <2>1 DEF Contract!Next
<1>4. ASSUME a.stage = "gate", NEW verdict \in Contract!Rulings, NEW reviewer \in Reviewers,
             b = [a EXCEPT !.stage = "decided", !.verdict = verdict, !.by = reviewer]
      PROVE  Contract!Next
  <2>1. Contract!Decide(t, verdict, reviewer)
    BY <1>4, Zenon DEF Contract!Decide
  <2>2. QED BY <2>1 DEF Contract!Next
<1>5. ASSUME a.stage = "cleared" \/ (a.stage = "decided" /\ a.verdict = "approved"),
             NEW position \in {"assistant", "notice"},
             b = [a EXCEPT !.stage = "released", !.position = position]
      PROVE  Contract!Next
  <2>1. Contract!Release(t)
    BY <1>5, Zenon DEF Contract!Release
  <2>2. QED BY <2>1 DEF Contract!Next
<1>6. CASE /\ a.stage = "decided" /\ a.verdict # "approved"
           /\ b = [a EXCEPT !.stage = "refused", !.position = "reviewer"]
  <2>1. Contract!Refuse(t)
    BY <1>6 DEF Contract!Refuse
  <2>2. QED BY <2>1 DEF Contract!Next
<1>7. CASE /\ a.stage \in {"open", "cleared"}
           /\ b = [a EXCEPT !.stage = "failed", !.position = "notice"]
  <2>1. Contract!GiveUp(t)
    BY <1>7 DEF Contract!GiveUp
  <2>2. QED BY <2>1 DEF Contract!Next
<1>8. QED BY <1>1, <1>2, <1>3, <1>4, <1>5, <1>6, <1>7 DEF MayBecome

(* A thread whose checkpoint changes is the only case that moves. *)
LEMMA OneCaseMoves ==
  ASSUME NEW t \in Threads, checkpoint \in [Threads -> Checkpoints], NEW v, NEW node,
         checkpoint' = [checkpoint EXCEPT ![t] = Saved(v, node)]
  PROVE  ThreadCases' = [ThreadCases EXCEPT ![t] = CaseOf(v, node)]
<1>1. /\ checkpoint'[t].values = v /\ checkpoint'[t].next = node
      /\ \A u \in Threads : u # t => checkpoint'[u] = checkpoint[u]
  BY DEF Saved
<1>2. \A u \in Threads :
        CaseOf(checkpoint'[u].values, checkpoint'[u].next)
          = IF u = t THEN CaseOf(v, node) ELSE CaseOf(checkpoint[u].values, checkpoint[u].next)
  BY <1>1
<1>3. QED BY <1>2 DEF ThreadCases

(* A submission opens its case. *)
LEMMA SubmittedRefines ==
  ASSUME SerialInv, Submitted
  PROVE  [Contract!Next]_ThreadCases
<1>1. PICK c \in Callers, t \in Threads, q \in Questions, forced \in BOOLEAN :
        Submit(c, t, q, forced)
  BY DEF Submitted
<1> DEFINE v == NewRequestState(checkpoint[t].values, q, forced)
<1>2. v.review_decision = "" /\ v.reviewer_id = NoReviewer /\ v.final_answer = NoAnswer
  BY DEF NewRequestState, NoValues
<1>3. checkpoint' = [checkpoint EXCEPT ![t] = Saved(v, "retrieve_policy")]
  BY <1>1 DEF Submit
<1> HIDE DEF v
<1>4. ThreadCases' = [ThreadCases EXCEPT ![t] = CaseOf(v, "retrieve_policy")]
  BY <1>3, OneCaseMoves, Functional
<1>5. PICK m \in BOOLEAN : m = Mandatory(v)
  BY DEF Mandatory
<1>6. PositionOf(v) = ""
  BY <1>2, NothingGiven
<1>7. CaseOf(v, "retrieve_policy") = Contract!NewCase("open", m)
  <2>1. StageOf(v, "retrieve_policy") = "open"
    BY OpenStage
  <2>2. QED BY <1>2, <1>5, <1>6, <2>1, Zenon DEF CaseOf, Contract!NewCase
<1>8. Contract!Submit(t)
  BY <1>4, <1>7, Zenon DEF Contract!Submit
<1>9. QED BY <1>8 DEF Contract!Next

(* A commit moves its case as the contract allows. *)
LEMMA CommittedRefines ==
  ASSUME SerialInv, Committed
  PROVE  [Contract!Next]_ThreadCases
<1>1. PICK c \in Callers : Commit(c)
  BY DEF Committed
<1> DEFINE t    == call[c].thread
           v    == run[c].values
           node == run[c].next
<1>2. t \in Threads
  BY <1>1 DEF SerialInv, ReviewInv, TypeInv, CallOnThread, Commit
<1>3. checkpoint' = [checkpoint EXCEPT ![t] = Saved(v, node)]
  BY <1>1 DEF Commit
<1>4. MayBecome(CaseOf(checkpoint[t].values, checkpoint[t].next), CaseOf(v, node))
  BY <1>1 DEF SerialInv, RunFollows, Follows, Commit
<1> HIDE DEF t, v, node
<1>5. ThreadCases' = [ThreadCases EXCEPT ![t] = CaseOf(v, node)]
  BY <1>2, <1>3, OneCaseMoves, Functional
<1>6. /\ ThreadCases[t] = CaseOf(checkpoint[t].values, checkpoint[t].next)
      /\ ThreadCases = [u \in Threads |-> ThreadCases[u]]
  BY <1>2 DEF ThreadCases
<1>7. QED BY <1>2, <1>4, <1>5, <1>6, CaseMoves

(* A step that moves no thread is a stutter of the contract. *)
LEMMA KeptRefines ==
  ASSUME PlacesKept
  PROVE  [Contract!Next]_ThreadCases
BY DEF PlacesKept, ThreadCases

(* Before any call every case is unknown. *)
LEMMA InitRefines == Init => Contract!Init
<1>1. SUFFICES ASSUME Init PROVE Contract!Init
  OBVIOUS
<1>2. PositionOf(NoValues) = ""
  <2>1. NoValues.final_answer = NoAnswer
    BY DEF NoValues
  <2>2. QED BY <2>1, NothingGiven
<1>3. Mandatory(NoValues) = FALSE
  <2>1. NoValues.question = NoQuestion /\ ~NoValues.force_human_review
    BY DEF NoValues
  <2>2. QED BY <2>1, NoQuestionAssumption DEF Mandatory
<1>4. StageOf(NoValues, "none") = "unknown"
  BY DEF StageOf
<1>5. NoValues.review_decision = "" /\ NoValues.reviewer_id = NoReviewer
  BY DEF NoValues
<1>6. CaseOf(NoValues, "none") = Contract!NewCase("unknown", FALSE)
  BY <1>2, <1>3, <1>4, <1>5, Zenon DEF CaseOf, Contract!NewCase
<1>7. \A t \in Threads : checkpoint[t].values = NoValues /\ checkpoint[t].next = "none"
  BY <1>1 DEF Init, NoCheckpoint
<1>8. QED BY <1>6, <1>7 DEF ThreadCases, Contract!Init

(* The invariant of the serial service. *)
THEOREM SerialInvariant == SerialSpec => []SerialInv
<1>1. Init => SerialInv
  BY InitSerial
<1>2. SerialInv /\ [Next /\ Serial']_vars => SerialInv'
  BY NextFollows
<1>3. QED BY <1>1, <1>2, PTL DEF SerialSpec

(* Where calls on one thread do not overlap, the service implements the    *)
(* contract: whatever crashes or is retried, a case is decided only at the *)
(* gate and by somebody, is cleared only if no review was mandatory, ends  *)
(* as it was decided, and states the conclusion of the assistant only if   *)
(* it is released, that of the reviewer if it is refused.                  *)
THEOREM ContractImplemented == SerialSpec => ContractKept
<1>1. Init => Contract!Init
  BY InitRefines
<1>2. SerialInv /\ [Next /\ Serial']_vars => [Contract!Next]_ThreadCases
  BY NextFollows, SubmittedRefines, CommittedRefines, KeptRefines
<1>3. QED BY <1>1, <1>2, SerialInvariant, PTL DEF SerialSpec, ContractKept, Contract!Spec

(* What the contract makes of a case: a mandatory one is released with the *)
(* approval of a reviewer only; a refused one was ruled against by a       *)
(* reviewer, whose conclusion it states; and that of the assistant is      *)
(* stated by a released case only.                                         *)
Governed(x) ==
  /\ x.stage = "released" => x.mandatory = FALSE \/ (x.verdict = "approved" /\ x.by \in Reviewers)
  /\ x.stage = "refused" => /\ x.verdict \in {"rejected", "changes_requested"}
                            /\ x.by \in Reviewers
                            /\ x.position = "reviewer"
  /\ x.position = "assistant" => x.stage = "released"

(* The stages before the end bring it about. *)
GovernedCase(x) ==
  /\ x \in Contract!CaseRecords
  /\ x.stage = "cleared" => x.mandatory = FALSE
  /\ x.stage = "decided" => x.verdict \in Contract!Rulings /\ x.by \in Reviewers
  /\ Governed(x)

GovernedCases ==
  /\ ThreadCases \in [Threads -> Contract!CaseRecords]
  /\ \A t \in Threads : GovernedCase(ThreadCases[t])

(* A step that changes a case governed leaves the others alone. *)
LEMMA GovernedStep ==
  ASSUME GovernedCases, NEW t \in Threads, NEW x, GovernedCase(x),
         ThreadCases' = [ThreadCases EXCEPT ![t] = x]
  PROVE  GovernedCases'
BY DEF GovernedCases, GovernedCase, Governed, Contract!CaseRecords, Contract!Stages,
       Contract!Rulings, Contract!Positions

(* Each action of the contract gives a governed case. *)
LEMMA ActionGoverned ==
  ASSUME GovernedCases, NEW t \in Threads,
         \/ Contract!Submit(t) \/ Contract!Hold(t) \/ Contract!Clear(t)
         \/ Contract!Release(t) \/ Contract!Refuse(t) \/ Contract!GiveUp(t)
         \/ \E verdict \in Contract!Rulings, reviewer \in Reviewers :
              Contract!Decide(t, verdict, reviewer)
  PROVE  GovernedCases'
<1> DEFINE x == ThreadCases[t]
<1>1. GovernedCase(x) /\ x \in Contract!CaseRecords
  BY DEF GovernedCases
<1>2. \A m \in BOOLEAN : GovernedCase(Contract!NewCase("open", m))
  BY DEF GovernedCase, Governed, Contract!NewCase, Contract!CaseRecords, Contract!Stages,
         Contract!Rulings, Contract!Positions
<1>3. CASE Contract!Submit(t)
  BY <1>2, <1>3, GovernedStep DEF Contract!Submit
<1>4. CASE Contract!Hold(t)
  <2>1. GovernedCase([x EXCEPT !.stage = "gate"])
    BY <1>1, <1>4 DEF Contract!Hold, GovernedCase, Governed, Contract!CaseRecords,
           Contract!Stages, Contract!Rulings, Contract!Positions
  <2> QED BY <1>4, <2>1, GovernedStep DEF Contract!Hold
<1>5. CASE Contract!Clear(t)
  <2>1. GovernedCase([x EXCEPT !.stage = "cleared"])
    BY <1>1, <1>5 DEF Contract!Clear, GovernedCase, Governed, Contract!CaseRecords,
           Contract!Stages, Contract!Rulings, Contract!Positions
  <2> QED BY <1>5, <2>1, GovernedStep DEF Contract!Clear
<1>6. CASE Contract!Release(t)
  <2>1. \A position \in {"assistant", "notice"} :
          GovernedCase([x EXCEPT !.stage = "released", !.position = position])
    BY <1>1, <1>6 DEF Contract!Release, GovernedCase, Governed, Contract!CaseRecords,
           Contract!Stages, Contract!Rulings, Contract!Positions
  <2> QED BY <1>6, <2>1, GovernedStep DEF Contract!Release
<1>7. CASE Contract!Refuse(t)
  <2>1. GovernedCase([x EXCEPT !.stage = "refused", !.position = "reviewer"])
    BY <1>1, <1>7 DEF Contract!Refuse, GovernedCase, Governed, Contract!CaseRecords,
           Contract!Stages, Contract!Rulings, Contract!Positions
  <2> QED BY <1>7, <2>1, GovernedStep DEF Contract!Refuse
<1>8. CASE Contract!GiveUp(t)
  <2>1. GovernedCase([x EXCEPT !.stage = "failed", !.position = "notice"])
    BY <1>1, <1>8 DEF Contract!GiveUp, GovernedCase, Governed, Contract!CaseRecords,
           Contract!Stages, Contract!Rulings, Contract!Positions
  <2> QED BY <1>8, <2>1, GovernedStep DEF Contract!GiveUp
<1>9. ASSUME NEW verdict \in Contract!Rulings, NEW reviewer \in Reviewers,
             Contract!Decide(t, verdict, reviewer)
      PROVE  GovernedCases'
  <2>1. GovernedCase([x EXCEPT !.stage = "decided", !.verdict = verdict, !.by = reviewer])
    BY <1>1, <1>9 DEF Contract!Decide, GovernedCase, Governed, Contract!CaseRecords,
           Contract!Stages, Contract!Rulings, Contract!Positions
  <2> QED BY <1>9, <2>1, GovernedStep DEF Contract!Decide
<1> QED BY <1>3, <1>4, <1>5, <1>6, <1>7, <1>8, <1>9

(* The contract is enough: whatever implements it releases no mandatory    *)
(* case but with the approval of a reviewer, refuses none but by the       *)
(* ruling of one, whose conclusion its answer then states, and gives out   *)
(* the conclusion of the assistant in no case but a released one.          *)
THEOREM ContractGoverns == ContractKept => [](\A t \in Threads : Governed(ThreadCases[t]))
<1>1. Contract!Init => GovernedCases
  <2>1. SUFFICES ASSUME Contract!Init PROVE GovernedCases
    OBVIOUS
  <2>2. GovernedCase(Contract!NewCase("unknown", FALSE))
    BY DEF GovernedCase, Governed, Contract!NewCase, Contract!CaseRecords, Contract!Stages,
           Contract!Rulings, Contract!Positions
  <2>3. ThreadCases = [t \in Threads |-> Contract!NewCase("unknown", FALSE)]
    BY <2>1 DEF Contract!Init
  <2> QED BY <2>2, <2>3 DEF GovernedCases, GovernedCase
<1>2. GovernedCases /\ [Contract!Next]_ThreadCases => GovernedCases'
  <2>1. SUFFICES ASSUME GovernedCases, [Contract!Next]_ThreadCases PROVE GovernedCases'
    OBVIOUS
  <2>2. CASE Contract!Next
    BY <2>1, <2>2, ActionGoverned DEF Contract!Next
  <2>3. CASE UNCHANGED ThreadCases
    BY <2>1, <2>3 DEF GovernedCases, GovernedCase, Governed
  <2> QED BY <2>1, <2>2, <2>3
<1>3. GovernedCases => \A t \in Threads : Governed(ThreadCases[t])
  BY DEF GovernedCases, GovernedCase
<1> QED BY <1>1, <1>2, <1>3, PTL DEF ContractKept, Contract!Spec

(* The service with serial calls implements it, so that its cases are      *)
(* governed for any callers, crashes and resubmissions.                    *)
COROLLARY CasesAreGoverned == SerialSpec => [](\A t \in Threads : Governed(ThreadCases[t]))
BY ContractImplemented, ContractGoverns, PTL

(* A step changes a thread by a submission of it, or to what may follow.   *)
LEMMA StepFollows ==
  ASSUME SerialInv, [Next /\ Serial']_vars, NEW t \in Threads, SameSubmission(t)
  PROVE  LET v == checkpoint[t].values
             w == checkpoint'[t].values
         IN  w = v \/ (DecisionKept(v, w) /\ WorkKept(v, checkpoint[t].next, w))
<1>1. CASE PlacesKept
  BY <1>1 DEF PlacesKept
<1>2. ASSUME NEW c \in Callers, NEW u \in Threads, NEW q \in Questions, NEW forced \in BOOLEAN,
             Submit(c, u, q, forced)
      PROVE  checkpoint'[t] = checkpoint[t]
  <2>1. submissions'[u] = submissions[u] + 1 /\ submissions[u] \in Nat
    BY <1>2, Functional DEF Submit
  <2>2. u # t
    BY <2>1 DEF SameSubmission
  <2>3. QED BY <1>2, <2>2, Functional DEF Submit
<1>3. ASSUME NEW c \in Callers, Commit(c)
      PROVE  LET v == checkpoint[t].values
                 w == checkpoint'[t].values
             IN  w = v \/ (DecisionKept(v, w) /\ WorkKept(v, checkpoint[t].next, w))
  <2> DEFINE u == call[c].thread
  <2>1. /\ checkpoint' = [checkpoint EXCEPT ![u] = Saved(run[c].values, run[c].next)]
        /\ pc[c] = "commit"
    BY <1>3 DEF Commit
  <2>2. CASE u = t
    <3>1. checkpoint'[t].values = run[c].values
      BY <2>1, <2>2, Functional DEF Saved
    <3>2. Follows(checkpoint[t].values, checkpoint[t].next, run[c].values, run[c].next)
      BY <2>1, <2>2 DEF SerialInv, RunFollows
    <3>3. QED BY <3>1, <3>2 DEF Follows
  <2>3. CASE u # t
    BY <2>1, <2>3, Functional
  <2>4. QED BY <2>2, <2>3
<1>4. QED BY <1>1, <1>2, <1>3, NextFollows DEF Submitted, Committed

(* A recorded decision is never replaced or withdrawn, unless the id is    *)
(* submitted again: no crash, retry or late resume touches it.             *)
THEOREM DecisionStands == SerialSpec => DecisionIsFinal
<1>1. SerialInv /\ [Next /\ Serial']_vars =>
        [\A t \in Threads : SameSubmission(t) =>
            DecisionKept(checkpoint[t].values, checkpoint'[t].values)]_vars
  BY StepFollows DEF DecisionKept
<1>2. QED BY <1>1, SerialInvariant, PTL DEF SerialSpec, DecisionIsFinal

(* Nor is the work before the gate done again, by a recovery or a resume.  *)
THEOREM WorkStands == SerialSpec => ReviewedWorkPreserved
<1>1. SerialInv /\ [Next /\ Serial']_vars =>
        [\A t \in Threads : SameSubmission(t) =>
            WorkKept(checkpoint[t].values, checkpoint[t].next, checkpoint'[t].values)]_vars
  <2>1. ASSUME SerialInv, NEW t \in Threads
        PROVE  WorkKept(checkpoint[t].values, checkpoint[t].next, checkpoint[t].values)
    <3>1. checkpoint[t].values.route_history \in Seq(WorkNodes)
      BY <2>1, Functional DEF Checkpoints, Values
    <3>2. /\ Len(checkpoint[t].values.route_history) >= Len(checkpoint[t].values.route_history)
          /\ SubSeq(checkpoint[t].values.route_history, 1, Len(checkpoint[t].values.route_history))
               = checkpoint[t].values.route_history
      BY <3>1
    <3>3. QED BY <3>2 DEF WorkKept
  <2>2. QED BY <2>1, StepFollows
<1>2. QED BY <1>1, SerialInvariant, PTL DEF SerialSpec, ReviewedWorkPreserved
-----------------------------------------------------------------------------
(* Whose decision a resume ends with.                                      *)
(*                                                                         *)
(* Where nobody dies and no reply ends a node with an error of type, a     *)
(* call leaves its thread at the gate or at the end.  A resume therefore   *)
(* begins at the gate, whose inputs so far were all refused: what lets it  *)
(* pass is its own input.                                                  *)

NoneAccepted(s) == \A i \in DOMAIN s : ~Accepted(s[i])

(* The resume of c is at the gate, or behind it with a decision that is    *)
(* its own input.                                                          *)
InputHeld(c) ==
  LET raw == call[c].input IN
  \/ run[c].next = "interrupt_for_review"
  \/ /\ run[c].next \in {"apply_feedback", "finalize_decision", "END"}
     /\ Accepted(raw) /\ run[c].values.review_decision = Aliases[raw.decision]

RunOwn(c) ==
  /\ NoneAccepted(run[c].resumes)
  /\ pc[c] = "checked" => checkpoint[call[c].thread].next = "interrupt_for_review"
  /\ pc[c] \in {"run", "commit", "answer"} /\ call[c].op = "resume" => InputHeld(c)

RestingPlaces == {"none", "interrupt_for_review", "END"}

(* A thread is being moved on by a call, or waits, or is unused or done.   *)
Resting(t) ==
  \/ checkpoint[t].next \in RestingPlaces
  \/ \E c \in Callers : call[c].thread = t /\ pc[c] \in {"run", "commit"}

ThreadOwn(t) == NoneAccepted(checkpoint[t].resumes) /\ Resting(t)

OwnInv ==
  /\ SerialInv
  /\ \A t \in Threads : ThreadOwn(t)
  /\ \A c \in Callers : RunOwn(c)
  /\ ReviewerDecisionGoverns

(* Nobody but c moves. *)
OthersStay(c) ==
  \A d \in Callers : d # c =>
    /\ pc'[d] = pc[d] /\ call'[d] = call[d]
    /\ run'[d].values = run[d].values /\ run'[d].next = run[d].next
    /\ run'[d].resumes = run[d].resumes /\ run'[d].paused = run[d].paused

(* Nothing was given, so nothing accepted was. *)
LEMMA EmptyRefused == NoneAccepted(<<>>)
<1>1. \A i \in DOMAIN <<>> : FALSE
  OBVIOUS
<1>2. QED BY <1>1, Zenon DEF NoneAccepted

(* What the gate is given is what was refused before, and the input of the *)
(* call: an input that decides is that one.                                *)
LEMMA GivenHeld ==
  ASSUME OwnInv, NEW c \in Callers
  PROVE  LET g == Given(c) IN
         /\ Decided(g) => Decisive(g) = call[c].input /\ Accepted(call[c].input)
         /\ Suspends(g) => NoneAccepted(g)
         /\ ~Suspends(g) /\ ~Decided(g) => NoneAccepted(SubSeq(g, 1, 2))
<1> DEFINE s == run[c].resumes
           x == call[c].input
           g == Given(c)
<1>1. s \in Seq(RawInputs) /\ x \in RawInputs /\ NoneAccepted(s)
  <2>1. run[c] \in Runs /\ call[c] \in Calls
    BY Functional DEF OwnInv
  <2>2. QED BY <2>1 DEF OwnInv, RunOwn, Runs, Calls
<1>2. g = s \/ g = Append(s, x)
  BY DEF Given
<1> HIDE DEF s, x, g
<1>3. Len(s) \in Nat /\ \A i \in 1 .. Len(s) : ~Accepted(s[i])
  BY <1>1 DEF NoneAccepted
<1>4. g \in Seq(RawInputs) /\ Len(g) \in Nat /\ DOMAIN g = 1 .. Len(g)
  BY <1>1, <1>2
<1>5. \A i \in 1 .. Len(g) : Accepted(g[i]) => g[i] = x
  BY <1>1, <1>2, <1>3
<1>6. Decided(g) => Decisive(g) = x /\ Accepted(x)
  <2>1. CASE Len(g) >= 1 /\ Accepted(g[1])
    <3>1. g[1] = x
      BY <1>4, <1>5, <2>1
    <3>2. QED BY <2>1, <3>1 DEF Decisive
  <2>2. CASE ~(Len(g) >= 1 /\ Accepted(g[1])) /\ Len(g) >= 2 /\ Accepted(g[2])
    <3>1. g[2] = x /\ ~Accepted(g[1])
      BY <1>4, <1>5, <2>2
    <3>2. QED BY <2>2, <3>1 DEF Decisive
  <2>3. QED BY <2>1, <2>2 DEF Decided
<1>7. Suspends(g) => NoneAccepted(g)
  <2>1. SUFFICES ASSUME Suspends(g), NEW i \in DOMAIN g PROVE ~Accepted(g[i])
    BY DEF NoneAccepted
  <2>2. i = 1 /\ Len(g) = 1
    BY <1>4, <2>1 DEF Suspends
  <2>3. QED BY <2>1, <2>2 DEF Suspends, Decided
<1>8. ~Suspends(g) /\ ~Decided(g) => NoneAccepted(SubSeq(g, 1, 2))
  <2>1. SUFFICES ASSUME ~Suspends(g), ~Decided(g), NEW i \in DOMAIN SubSeq(g, 1, 2)
                 PROVE  ~Accepted(SubSeq(g, 1, 2)[i])
    BY DEF NoneAccepted
  <2>2. Len(g) >= 2 /\ ~Accepted(g[1]) /\ ~Accepted(g[2])
    BY <1>4, <2>1 DEF Suspends, Decided
  <2>3. i \in 1 .. 2 /\ SubSeq(g, 1, 2)[i] = g[i]
    BY <1>4, <2>1, <2>2, SubSeqProperties
  <2>4. QED BY <2>2, <2>3
<1>9. QED BY <1>6, <1>7, <1>8 DEF g, x

(* Callers that do not move keep what they hold. *)
LEMMA OthersOwn ==
  ASSUME OwnInv, NEW c \in Callers, OthersStay(c), RunOwn(c)',
         \A d \in Callers :
           d # c /\ pc[d] = "checked" =>
             checkpoint'[call[d].thread].next = checkpoint[call[d].thread].next
  PROVE  \A d \in Callers : RunOwn(d)'
<1>1. ASSUME NEW d \in Callers, d # c PROVE RunOwn(d)'
  <2>1. RunOwn(d)
    BY DEF OwnInv
  <2>2. /\ pc'[d] = pc[d] /\ call'[d] = call[d]
        /\ run'[d].values = run[d].values /\ run'[d].next = run[d].next
        /\ run'[d].resumes = run[d].resumes
    BY <1>1 DEF OthersStay
  <2>3. InputHeld(d) => InputHeld(d)'
    BY <2>2 DEF InputHeld
  <2>4. pc'[d] = "checked" => checkpoint'[call'[d].thread].next = "interrupt_for_review"
    BY <1>1, <2>1, <2>2 DEF RunOwn
  <2>5. NoneAccepted(run'[d].resumes)
    BY <2>1, <2>2 DEF RunOwn
  <2>6. QED BY <2>1, <2>2, <2>3, <2>4, <2>5 DEF RunOwn
<1>2. QED BY <1>1

(* What a step has to preserve beside the invariant of the serial service. *)
OwnParts ==
  /\ \A t \in Threads : ThreadOwn(t)
  /\ \A c \in Callers : RunOwn(c)
  /\ ReviewerDecisionGoverns

(* A thread that no step moves on is left at rest, or in the hands of the  *)
(* call that moves it on.                                                  *)
LEMMA ThreadsOwn ==
  ASSUME OwnInv, NEW c \in Callers, OthersStay(c), PlacesKept,
         \A t \in Threads : NoneAccepted(checkpoint'[t].resumes),
         pc[c] \in {"run", "commit"} =>
           \/ pc'[c] \in {"run", "commit"} /\ call'[c].thread = call[c].thread
           \/ checkpoint[call[c].thread].next \in RestingPlaces
  PROVE  \A t \in Threads : ThreadOwn(t)'
<1>1. SUFFICES ASSUME NEW t \in Threads PROVE Resting(t)'
  BY DEF ThreadOwn
<1>2. checkpoint'[t].next = checkpoint[t].next /\ Resting(t)
  BY DEF PlacesKept, OwnInv, ThreadOwn
<1>3. CASE checkpoint[t].next \in RestingPlaces
  BY <1>2, <1>3 DEF Resting
<1>4. ASSUME NEW d \in Callers, call[d].thread = t, pc[d] \in {"run", "commit"}
      PROVE  Resting(t)'
  <2>1. CASE d = c /\ checkpoint[t].next \notin RestingPlaces
    BY <1>4, <2>1 DEF Resting
  <2>2. CASE d # c
    <3>1. pc'[d] = pc[d] /\ call'[d] = call[d]
      BY <2>2 DEF OthersStay
    <3>2. QED BY <1>4, <3>1 DEF Resting
  <2>3. QED BY <1>3, <2>1, <2>2
<1>5. QED BY <1>2, <1>3, <1>4 DEF Resting

(* Only an answer is a result that says how a case ended. *)
LEMMA GovernsKept ==
  ASSUME OwnInv, NEW c \in Callers,
         \A d \in Callers : d # c => result'[d] = result[d],
         result'[c] = result[c] \/ result'[c].kind # "returned"
  PROVE  ReviewerDecisionGoverns'
<1>1. SUFFICES ASSUME NEW d \in Callers, result'[d].kind = "returned",
                      result'[d].op = "resume"
               PROVE  LET r == result'[d] IN
                      /\ r.status = "completed" =>
                           Accepted(r.input) /\ Aliases[r.input.decision] = "approved"
                      /\ r.status = "rejected_by_reviewer" =>
                           Accepted(r.input) /\ Aliases[r.input.decision] # "approved"
  BY DEF ReviewerDecisionGoverns
<1>2. result'[d] = result[d]
  BY <1>1
<1>3. QED BY <1>1, <1>2 DEF OwnInv, ReviewerDecisionGoverns

(* The end of a call. *)
LEMMA ReturnStays ==
  ASSUME SerialInv, NEW c \in Callers, NEW r, Return(c, r)
  PROVE  /\ OthersStay(c) /\ RunOwn(c)' /\ pc'[c] = "idle"
         /\ result'[c] = r /\ \A d \in Callers : d # c => result'[d] = result[d]
<1>1. /\ pc'[c] = "idle" /\ call'[c] = NoCall /\ run'[c] = NoRun /\ result'[c] = r
      /\ \A d \in Callers : d # c => /\ pc'[d] = pc[d] /\ call'[d] = call[d]
                                     /\ run'[d] = run[d] /\ result'[d] = result[d]
  BY Functional DEF Return
<1>2. NoneAccepted(run'[c].resumes)
  BY <1>1, EmptyRefused DEF NoRun
<1>3. QED BY <1>1, <1>2 DEF OthersStay, RunOwn

(* A call that raises leaves its thread where it was, at rest. *)
LEMMA RaiseOwn ==
  ASSUME OwnInv, NEW c \in Callers, NEW kind, kind # "returned", NEW op, NEW raw,
         Raise(c, kind, op, raw), PlacesKept,
         \A t \in Threads : NoneAccepted(checkpoint'[t].resumes),
         pc[c] \in {"run", "commit"} => checkpoint[call[c].thread].next \in RestingPlaces
  PROVE  OwnParts'
<1>1. PICK r : Return(c, r) /\ r.kind # "returned"
  <2>1. [NoResult EXCEPT !.kind = kind, !.op = op, !.input = raw].kind = kind
    BY DEF NoResult
  <2>2. QED BY <2>1 DEF Raise
<1>2. /\ OthersStay(c) /\ RunOwn(c)' /\ result'[c] = r
      /\ \A d \in Callers : d # c => result'[d] = result[d]
  BY <1>1, ReturnStays DEF OwnInv
<1>3. ReviewerDecisionGoverns'
  BY <1>1, <1>2, GovernsKept
<1>4. \A t \in Threads : ThreadOwn(t)'
  BY <1>2, ThreadsOwn
<1>5. \A d \in Callers : pc[d] = "checked" => call[d].thread \in Threads
  BY DEF OwnInv, SerialInv, ReviewInv, TypeInv, CallOnThread
<1>6. \A d \in Callers : RunOwn(d)'
  BY <1>2, <1>5, OthersOwn DEF PlacesKept
<1>7. QED BY <1>3, <1>4, <1>6 DEF OwnParts

(* What was given to a task was refused, and stays so where rows stay. *)
LEMMA RowsKept ==
  ASSUME OwnInv, UNCHANGED checkpoint
  PROVE  PlacesKept /\ \A t \in Threads : NoneAccepted(checkpoint'[t].resumes)
BY DEF OwnInv, ThreadOwn, PlacesKept

(* A node ends: if the call is a resume, it is behind the gate by its own  *)
(* input.                                                                  *)
LEMMA NodeEndsOwn ==
  ASSUME OwnInv, NEW c \in Callers, NEW v, NEW events, pc[c] = "run", NodeEnds(c, v, events),
         call[c].op = "resume" =>
           /\ Successor(run[c].next, v) \in {"apply_feedback", "finalize_decision", "END"}
           /\ Accepted(call[c].input)
           /\ v.review_decision = Aliases[call[c].input.decision]
  PROVE  OwnParts'
<1>1. /\ run'[c].values = v /\ run'[c].next = Successor(run[c].next, v)
      /\ run'[c].resumes = run[c].resumes
      /\ \A d \in Callers : d # c => run'[d] = run[d]
  <2>1. run[c] \in Runs /\ run \in [Callers -> Runs]
    BY Functional DEF OwnInv
  <2>2. QED BY <2>1 DEF NodeEnds, Runs
<1>2. /\ pc'[c] = "commit" /\ UNCHANGED <<checkpoint, call, result>>
      /\ \A d \in Callers : d # c => pc'[d] = pc[d]
  BY Functional DEF NodeEnds, OwnInv
<1>3. OthersStay(c)
  BY <1>1, <1>2 DEF OthersStay
<1>4. RunOwn(c)'
  <2>1. NoneAccepted(run[c].resumes)
    BY DEF OwnInv, RunOwn
  <2>2. call'[c].op = "resume" => InputHeld(c)'
    BY <1>1, <1>2 DEF InputHeld
  <2>3. QED BY <1>1, <1>2, <2>1, <2>2 DEF RunOwn
<1>5. \A d \in Callers : RunOwn(d)'
  BY <1>2, <1>3, <1>4, OthersOwn
<1>6. \A t \in Threads : ThreadOwn(t)'
  BY <1>2, <1>3, RowsKept, ThreadsOwn
<1>7. ReviewerDecisionGoverns'
  BY <1>2, GovernsKept
<1>8. QED BY <1>5, <1>6, <1>7 DEF OwnParts

(* That its checkpoint is not the latest any more is all a run learns. *)
LEMMA SupersededKeeps ==
  ASSUME SerialInv, NEW c \in Callers, NEW t \in Threads, NEW d \in Callers
  PROVE  LET r == Superseded(c, t)[d] IN
         /\ r.values = run[d].values /\ r.next = run[d].next
         /\ r.resumes = run[d].resumes /\ r.paused = run[d].paused
<1>1. run[d] \in Runs
  BY Functional
<1>2. QED BY <1>1 DEF Superseded, Runs

(* A resume is refused, or finds its thread at the gate. *)
LEMMA ResumeOwn ==
  ASSUME OwnInv, Serial', NEW c \in Callers, NEW t \in Threads, NEW raw \in RawInputs,
         ResumeRefused(c, t, raw) \/ ResumeChecked(c, t, raw)
  PROVE  OwnParts'
<1>1. UNCHANGED checkpoint /\ pc[c] = "idle"
  BY DEF ResumeRefused, ResumeChecked
<1>2. PlacesKept /\ \A u \in Threads : NoneAccepted(checkpoint'[u].resumes)
  BY <1>1, RowsKept
<1>3. CASE ResumeRefused(c, t, raw)
  <2>1. PICK kind \in {"UnknownThread", "NotAwaitingReview", "InvalidReviewInput"} :
          Raise(c, kind, "resume", raw)
    <3> DEFINE cp == checkpoint[t]
               kind == CASE cp.next = "none"                   -> "UnknownThread"
                         [] cp.next # "none" /\ ~Awaiting(cp)  -> "NotAwaitingReview"
                         [] OTHER                              -> "InvalidReviewInput"
    <3>1. kind \in {"UnknownThread", "NotAwaitingReview", "InvalidReviewInput"}
      OBVIOUS
    <3>2. Raise(c, kind, "resume", raw)
      BY <1>3 DEF ResumeRefused
    <3> HIDE DEF kind
    <3>3. QED BY <3>1, <3>2
  <2>2. kind # "returned"
    BY <2>1
  <2>3. QED BY <1>1, <1>2, <2>1, <2>2, RaiseOwn
<1>4. CASE ResumeChecked(c, t, raw)
  <2>1. /\ pc' = [pc EXCEPT ![c] = "checked"] /\ UNCHANGED <<run, result>>
        /\ call' = [call EXCEPT ![c] = [op |-> "resume", thread |-> t, input |-> raw]]
        /\ ~Refused(checkpoint[t], raw)
    BY <1>4 DEF ResumeChecked
  <2>2. /\ pc'[c] = "checked" /\ call'[c].thread = t
        /\ \A d \in Callers : d # c => pc'[d] = pc[d] /\ call'[d] = call[d] /\ run'[d] = run[d]
    BY <2>1, Functional DEF OwnInv
  <2>3. OthersStay(c)
    BY <2>2 DEF OthersStay
  <2>4. checkpoint[t].next \in RestingPlaces
    <3>1. SUFFICES ASSUME NEW d \in Callers, call[d].thread = t, pc[d] \in {"run", "commit"}
                   PROVE  FALSE
      BY DEF OwnInv, ThreadOwn, Resting
    <3>2. d # c /\ call'[d].thread = call'[c].thread
      BY <1>1, <2>2, <3>1
    <3>3. QED BY <2>2, <3>2, NoThreadAssumption DEF Serial
  <2>5. checkpoint[t].next = "interrupt_for_review"
    <3>1. checkpoint[t].next # "none" /\ Awaiting(checkpoint[t])
      BY <2>1 DEF Refused
    <3>2. checkpoint[t].interrupt # "none" => checkpoint[t].next = "interrupt_for_review"
      BY DEF OwnInv, SerialInv, ReviewInv, InterruptAtNode
    <3>3. QED BY <2>4, <3>1, <3>2 DEF Awaiting, RestingPlaces
  <2>6. RunOwn(c)'
    <3>1. NoneAccepted(run'[c].resumes)
      BY <2>1 DEF OwnInv, RunOwn
    <3>2. QED BY <1>1, <2>2, <2>5, <3>1 DEF RunOwn
  <2>7. \A d \in Callers : RunOwn(d)'
    BY <1>1, <2>3, <2>6, OthersOwn
  <2>8. \A u \in Threads : ThreadOwn(u)'
    BY <1>1, <1>2, <2>3, ThreadsOwn
  <2>9. ReviewerDecisionGoverns'
    BY <2>1, GovernsKept
  <2>10. QED BY <2>7, <2>8, <2>9 DEF OwnParts
<1>5. QED BY <1>3, <1>4

(* The graph is invoked at the gate. *)
LEMMA InvokeOwn ==
  ASSUME OwnInv, NEW c \in Callers, Invoke(c)
  PROVE  OwnParts'
<1> DEFINE t  == call[c].thread
           cp == checkpoint[t]
           r  == [NoRun EXCEPT !.values = cp.values, !.next = cp.next,
                               !.resumes = cp.resumes, !.offered = TRUE, !.latest = TRUE]
<1>1. r.values = cp.values /\ r.next = cp.next /\ r.resumes = cp.resumes
  BY DEF NoRun
<1>2. /\ run' = [run EXCEPT ![c] = r] /\ UNCHANGED <<checkpoint, call, result>>
      /\ pc' = [pc EXCEPT ![c] = IF cp.next = "END" THEN "answer" ELSE "run"]
      /\ pc[c] = "checked"
  BY DEF Invoke
<1>3. cp.next = "interrupt_for_review" /\ t \in Threads
  BY <1>2 DEF OwnInv, RunOwn, SerialInv, ReviewInv, TypeInv, CallOnThread
<1> HIDE DEF r
<1>4. /\ run'[c] = r /\ pc'[c] = "run"
      /\ \A d \in Callers : d # c => pc'[d] = pc[d] /\ call'[d] = call[d] /\ run'[d] = run[d]
  BY <1>2, <1>3, Functional DEF OwnInv
<1>5. OthersStay(c)
  BY <1>4 DEF OthersStay
<1>6. RunOwn(c)'
  <2>1. NoneAccepted(run'[c].resumes)
    BY <1>1, <1>3, <1>4 DEF OwnInv, ThreadOwn
  <2>2. InputHeld(c)'
    BY <1>1, <1>3, <1>4 DEF InputHeld
  <2>3. QED BY <1>4, <2>1, <2>2 DEF RunOwn
<1>7. \A d \in Callers : RunOwn(d)'
  BY <1>2, <1>5, <1>6, OthersOwn
<1>8. \A u \in Threads : ThreadOwn(u)'
  BY <1>2, <1>5, RowsKept, ThreadsOwn
<1>9. ReviewerDecisionGoverns'
  BY <1>2, GovernsKept
<1>10. QED BY <1>7, <1>8, <1>9 DEF OwnParts

(* A checkpoint of t is saved: no other call is on t. *)
LEMMA SavedOwn ==
  ASSUME OwnInv, Serial', NEW c \in Callers, NEW t \in Threads, NEW v, NEW node,
         checkpoint' = [checkpoint EXCEPT ![t] = Saved(v, node)],
         call'[c].thread = t, OthersStay(c), RunOwn(c)',
         pc[c] \in {"run", "commit"} => call[c].thread = t,
         node \in RestingPlaces \/ pc'[c] = "run"
  PROVE  (\A u \in Threads : ThreadOwn(u)') /\ (\A d \in Callers : RunOwn(d)')
<1>1. /\ checkpoint'[t].next = node /\ checkpoint'[t].resumes = <<>>
      /\ \A u \in Threads : u # t => checkpoint'[u] = checkpoint[u]
  BY Functional DEF OwnInv, Saved
<1>2. ThreadOwn(t)'
  BY <1>1, EmptyRefused DEF ThreadOwn, Resting
<1>3. ASSUME NEW u \in Threads, u # t PROVE ThreadOwn(u)'
  <2>1. ThreadOwn(u) /\ checkpoint'[u] = checkpoint[u]
    BY <1>1, <1>3 DEF OwnInv
  <2>2. ASSUME NEW d \in Callers, call[d].thread = u, pc[d] \in {"run", "commit"}
        PROVE  call'[d].thread = u /\ pc'[d] \in {"run", "commit"}
    <3>1. d # c
      BY <1>3, <2>2
    <3>2. QED BY <2>2, <3>1 DEF OthersStay
  <2>3. Resting(u)'
    BY <2>1, <2>2 DEF ThreadOwn, Resting
  <2>4. QED BY <2>1, <2>3 DEF ThreadOwn
<1>4. ASSUME NEW d \in Callers, d # c, pc[d] = "checked"
      PROVE  checkpoint'[call[d].thread].next = checkpoint[call[d].thread].next
  <2>1. call[d].thread \in Threads
    BY <1>4 DEF OwnInv, SerialInv, ReviewInv, TypeInv, CallOnThread
  <2>2. call[d].thread # t
    <3>1. call'[d] = call[d]
      BY <1>4 DEF OthersStay
    <3>2. QED BY <1>4, <3>1, NoThreadAssumption DEF Serial
  <2>3. QED BY <1>1, <2>1, <2>2
<1>5. QED BY <1>2, <1>3, <1>4, OthersOwn

(* A submission takes its thread from its rest. *)
LEMMA SubmitOwn ==
  ASSUME OwnInv, Serial', NEW c \in Callers, NEW t \in Threads, NEW q \in Questions,
         NEW forced \in BOOLEAN, Submit(c, t, q, forced)
  PROVE  OwnParts'
<1> DEFINE v == NewRequestState(checkpoint[t].values, q, forced)
           r == [NoRun EXCEPT !.values = v, !.next = "retrieve_policy", !.latest = TRUE]
           k == [op |-> "submit", thread |-> t, input |-> NoInput]
<1>1. /\ checkpoint' = [checkpoint EXCEPT ![t] = Saved(v, "retrieve_policy")]
      /\ run' = [Superseded(c, t) EXCEPT ![c] = r]
      /\ pc' = [pc EXCEPT ![c] = "run"]
      /\ call' = [call EXCEPT ![c] = k]
      /\ pc[c] = "idle" /\ UNCHANGED result
  BY DEF Submit
<1>2. r.resumes = <<>> /\ k.thread = t /\ k.op = "submit"
  BY DEF NoRun
<1> HIDE DEF v, r, k
<1>3. /\ run'[c] = r /\ call'[c] = k /\ pc'[c] = "run"
      /\ \A d \in Callers : d # c => /\ run'[d] = Superseded(c, t)[d]
                                     /\ pc'[d] = pc[d] /\ call'[d] = call[d]
  BY <1>1, Functional DEF OwnInv, Superseded
<1>4. OthersStay(c)
  BY <1>3, SupersededKeeps DEF OthersStay, OwnInv
<1>5. RunOwn(c)'
  BY <1>2, <1>3, EmptyRefused DEF RunOwn
<1>6. (\A u \in Threads : ThreadOwn(u)') /\ (\A d \in Callers : RunOwn(d)')
  BY <1>1, <1>2, <1>3, <1>4, <1>5, SavedOwn
<1>7. ReviewerDecisionGoverns'
  BY <1>1, GovernsKept
<1>8. QED BY <1>6, <1>7 DEF OwnParts

(* A commit moves a thread on, and a run to what it has saved. *)
LEMMA CommitOwn ==
  ASSUME OwnInv, Serial', NEW c \in Callers, Commit(c)
  PROVE  OwnParts'
<1> DEFINE t    == call[c].thread
           v    == run[c].values
           node == run[c].next
           r    == [run[c] EXCEPT !.resumes = <<>>, !.latest = TRUE]
<1>1. t \in Threads /\ run[c] \in Runs
  BY Functional DEF OwnInv, SerialInv, ReviewInv, TypeInv, CallOnThread, Commit
<1>2. /\ checkpoint' = [checkpoint EXCEPT ![t] = Saved(v, node)]
      /\ run' = [Superseded(c, t) EXCEPT ![c] = r]
      /\ pc' = [pc EXCEPT ![c] = IF node = "END" THEN "answer" ELSE "run"]
      /\ pc[c] = "commit" /\ UNCHANGED <<call, result>>
  BY DEF Commit
<1>3. r.values = v /\ r.next = node /\ r.resumes = <<>>
  BY <1>1 DEF Runs
<1>4. /\ run'[c] = r /\ pc'[c] \in {"run", "answer"} /\ (node # "END" => pc'[c] = "run")
      /\ \A d \in Callers : d # c => /\ run'[d] = Superseded(c, t)[d]
                                     /\ pc'[d] = pc[d] /\ call'[d] = call[d]
  BY <1>2, Functional DEF OwnInv, Superseded
<1>5. OthersStay(c)
  BY <1>1, <1>4, SupersededKeeps DEF OthersStay, OwnInv
<1>6. RunOwn(c)'
  <2>1. call[c].op = "resume" => InputHeld(c)
    BY <1>2 DEF OwnInv, RunOwn
  <2>2. call'[c].op = "resume" => InputHeld(c)'
    BY <1>2, <1>3, <1>4, <2>1 DEF InputHeld
  <2>3. QED BY <1>3, <1>4, <2>2, EmptyRefused DEF RunOwn
<1>7. node \in RestingPlaces \/ pc'[c] = "run"
  BY <1>4 DEF RestingPlaces
<1>8. call'[c].thread = t
  BY <1>2
<1> HIDE DEF t, v, node, r
<1>9. (\A u \in Threads : ThreadOwn(u)') /\ (\A d \in Callers : RunOwn(d)')
  BY <1>1, <1>2, <1>5, <1>6, <1>7, <1>8, SavedOwn DEF t
<1>10. ReviewerDecisionGoverns'
  BY <1>2, GovernsKept
<1>11. QED BY <1>9, <1>10 DEF OwnParts

(* A case that ends after a decision ends as it was decided. *)
LEMMA EndsAsDecided ==
  ASSUME NEW v, Coherent(v, "END"), v.review_decision \in Decisions
  PROVE  /\ v.status = "completed" => v.review_decision = "approved"
         /\ v.status = "rejected_by_reviewer" => v.review_decision # "approved"
<1>1. ~Unreviewed(v)
  BY DEF Unreviewed, Decisions
<1>2. Finalized(v)
  BY <1>1 DEF Coherent, Failed
<1>3. v.review_required /\ v.status = StatusFor(v)
  BY <1>1, <1>2 DEF Finalized, ReviewedAsRequired
<1>4. CASE v.retrieval_error
  BY <1>3, <1>4 DEF StatusFor
<1>5. CASE ~v.retrieval_error
  <2>1. v.status = IF v.review_decision = "approved" THEN "completed" ELSE "rejected_by_reviewer"
    BY <1>3, <1>5 DEF StatusFor
  <2>2. QED BY <2>1
<1>6. QED BY <1>4, <1>5

(* What an answer says of a resume is what its input asked for. *)
LEMMA AnswerOwn ==
  ASSUME OwnInv, NEW c \in Callers, Answer(c)
  PROVE  OwnParts'
<1> DEFINE v == run[c].values
           payload == IF run[c].paused # "none" THEN run[c].paused
                      ELSE checkpoint[call[c].thread].interrupt
           status == IF v.status # "" THEN v.status
                     ELSE IF payload # "none" THEN "pending_human_review" ELSE "failed"
           r == [kind |-> "returned", op |-> call[c].op, input |-> call[c].input,
                 status |-> status, payload |-> payload, answer |-> v.final_answer]
<1>1. Return(c, r) /\ pc[c] = "answer" /\ UNCHANGED checkpoint
  BY DEF Answer
<1>2. r.op = call[c].op /\ r.input = call[c].input /\ r.status = status
  OBVIOUS
<1>3. status \in {"completed", "rejected_by_reviewer"} => status = v.status
  OBVIOUS
<1>4. call[c].op = "resume" =>
        /\ status = "completed" => /\ Accepted(call[c].input)
                                   /\ Aliases[call[c].input.decision] = "approved"
        /\ status = "rejected_by_reviewer" => /\ Accepted(call[c].input)
                                              /\ Aliases[call[c].input.decision] # "approved"
  <2>1. SUFFICES ASSUME call[c].op = "resume",
                        v.status \in {"completed", "rejected_by_reviewer"}
                 PROVE  /\ Accepted(call[c].input)
                        /\ v.status = "completed" =>
                             Aliases[call[c].input.decision] = "approved"
                        /\ v.status = "rejected_by_reviewer" =>
                             Aliases[call[c].input.decision] # "approved"
    BY <1>3
  <2>2. Coherent(v, run[c].next) /\ InputHeld(c)
    BY <1>1, <2>1 DEF OwnInv, RunOwn, SerialInv, ReviewInv, RunsCoherent
  <2>3. ~Unreleased(v)
    BY <2>1 DEF Unreleased
  <2> HIDE DEF v
  <2>4. /\ run[c].next = "END" /\ Accepted(call[c].input)
        /\ v.review_decision = Aliases[call[c].input.decision]
    BY <2>2, <2>3 DEF Coherent, InputHeld, v
  <2>5. Aliases[call[c].input.decision] \in Decisions
    BY <2>4 DEF Accepted, Aliases, Decisions
  <2>6. QED BY <2>1, <2>2, <2>4, <2>5, EndsAsDecided
<1> HIDE DEF r, status, payload
<1>5. /\ OthersStay(c) /\ RunOwn(c)' /\ result'[c] = r
      /\ \A d \in Callers : d # c => result'[d] = result[d]
  BY <1>1, ReturnStays DEF OwnInv
<1>6. ReviewerDecisionGoverns'
  BY <1>2, <1>4, <1>5 DEF OwnInv, ReviewerDecisionGoverns
<1>7. \A d \in Callers : RunOwn(d)'
  BY <1>1, <1>5, OthersOwn
<1>8. \A t \in Threads : ThreadOwn(t)'
  BY <1>1, <1>5, RowsKept, ThreadsOwn
<1>9. QED BY <1>6, <1>7, <1>8 DEF OwnParts

(* Nobody dies, and no reply ends a node with an error of type. *)
WellBehaved ==
  ~Crashes /\ (\A reply \in Assessments : reply.kind # "bad_fields") /\ "bad_signals" \notin Verdicts

(* Each node. *)
LEMMA RunNodeOwn ==
  ASSUME OwnInv, WellBehaved, NEW c \in Callers, RunNode(c)
  PROVE  OwnParts'
<1> DEFINE v == run[c].values
           t == call[c].thread
           g == Given(c)
<1>1. pc[c] = "run"
  BY DEF RunNode, Retrieve, Draft, ClassifyNode, ReviewSuspends, ReviewDecided, ReviewRaises,
         ApplyReview, Finalize, Fail, At
<1>2. TypeInv /\ ReviewInv /\ SerialInv
  BY DEF OwnInv, SerialInv, ReviewInv
<1>3. /\ v \in Values /\ t \in Threads /\ run[c].resumes \in Seq(RawInputs)
      /\ checkpoint[t].interrupt \in InterruptKinds
      /\ checkpoint \in [Threads -> Checkpoints]
  BY <1>1, <1>2, RunContext, Functional DEF Checkpoints
<1>4. Coherent(v, run[c].next)
  BY <1>2 DEF ReviewInv, RunsCoherent
<1>5. g \in Seq(RawInputs) /\ NoneAccepted(run[c].resumes)
  BY <1>2, GivenType DEF OwnInv, RunOwn
<1>6. call[c].op = "resume" => InputHeld(c)
  BY <1>1 DEF OwnInv, RunOwn
<1>7. checkpoint[t].next = run[c].next
  BY <1>1, <1>2 DEF SerialInv, RunFollows
<1>8. ASSUME NEW events, NEW w, NodeEnds(c, w, events),
             run[c].next \in {"retrieve_policy", "draft_assessment", "classify_risk",
                              "record_failure"}
      PROVE  OwnParts'
  <2>1. call[c].op # "resume"
    BY <1>6, <1>8 DEF InputHeld
  <2>2. QED BY <1>1, <1>8, <2>1, NodeEndsOwn
<1>9. ASSUME NEW kind \in InterruptKinds, NEW resumes \in Seq(RawInputs),
             NoneAccepted(resumes), At(c, "interrupt_for_review"),
             checkpoint' = TaskRows(c, kind, resumes)
      PROVE  PlacesKept /\ \A u \in Threads : NoneAccepted(checkpoint'[u].resumes)
  <2>1. PlacesKept
    BY <1>2, <1>9, TaskRowsKeepsPlaces DEF KeepsPlaces, PlacesKept
  <2>2. \A u \in Threads : checkpoint'[u].resumes = checkpoint[u].resumes
                             \/ checkpoint'[u].resumes = resumes
    BY <1>3, <1>9 DEF TaskRows, Checkpoints
  <2>3. QED BY <1>9, <2>1, <2>2 DEF OwnInv, ThreadOwn
<1>10. CASE Retrieve(c)
  <2>1. PICK outcome \in Retrievals : NodeEnds(c, RetrievePolicy(v, outcome), {})
    BY <1>10 DEF Retrieve
  <2>2. QED BY <1>8, <1>10, <2>1 DEF Retrieve, At
<1>11. CASE Draft(c)
  <2>1. PICK reply \in Assessments : IF DraftRaises(v, reply)
                                        THEN NodeRaises(c, "DraftTypeError")
                                        ELSE NodeEnds(c, DraftAssessment(v, reply), {})
    BY <1>11 DEF Draft
  <2>2. ~DraftRaises(v, reply)
    BY <2>1 DEF DraftRaises, WellBehaved
  <2>3. NodeEnds(c, DraftAssessment(v, reply), {})
    BY <2>1, <2>2
  <2>4. QED BY <1>8, <1>11, <2>3 DEF Draft, At
<1>12. CASE ClassifyNode(c)
  <2>1. PICK reply \in Verdicts : NodeEnds(c, ClassifyRisk(v, reply), {})
    BY <1>12 DEF ClassifyNode, ClassifyRaises, WellBehaved
  <2>2. QED BY <1>8, <1>12, <2>1 DEF ClassifyNode, At
<1>13. CASE ReviewSuspends(c)
  <2> DEFINE kind == IF g = <<>> THEN "review" ELSE "review_with_error"
  <2>1. /\ At(c, "interrupt_for_review") /\ Suspends(g)
        /\ checkpoint' = TaskRows(c, kind, g)
        /\ run' = [run EXCEPT ![c] = [run[c] EXCEPT !.paused = kind]]
        /\ pc' = [pc EXCEPT ![c] = "answer"]
        /\ UNCHANGED <<call, result>>
    BY <1>13 DEF ReviewSuspends
  <2>2. kind \in InterruptKinds /\ NoneAccepted(g)
    BY <2>1, GivenHeld DEF InterruptKinds
  <2> HIDE DEF kind, g
  <2>3. PlacesKept /\ \A u \in Threads : NoneAccepted(checkpoint'[u].resumes)
    BY <1>5, <1>9, <2>1, <2>2
  <2>4. /\ pc'[c] = "answer" /\ run'[c].resumes = run[c].resumes /\ run'[c].next = run[c].next
        /\ \A d \in Callers : d # c => pc'[d] = pc[d] /\ call'[d] = call[d] /\ run'[d] = run[d]
    BY <1>2, <2>1, Functional DEF Runs
  <2>5. OthersStay(c)
    BY <2>4 DEF OthersStay
  <2>6. run[c].next = "interrupt_for_review"
    BY <2>1 DEF At
  <2>7. RunOwn(c)'
    BY <1>5, <2>4, <2>6 DEF RunOwn, InputHeld
  <2>8. \A d \in Callers : pc[d] = "checked" => call[d].thread \in Threads
    BY <1>2 DEF TypeInv, CallOnThread
  <2>9. \A d \in Callers : RunOwn(d)'
    BY <2>3, <2>5, <2>7, <2>8, OthersOwn DEF PlacesKept
  <2>10. \A u \in Threads : ThreadOwn(u)'
    BY <1>7, <2>3, <2>5, <2>6, ThreadsOwn DEF RestingPlaces
  <2>11. ReviewerDecisionGoverns'
    BY <2>1, GovernsKept
  <2>12. QED BY <2>9, <2>10, <2>11 DEF OwnParts
<1>14. CASE ReviewDecided(c)
  <2> DEFINE raw == Decisive(g)
             w   == InterruptForReview(v, ParseReviewInput(raw))
  <2>1. At(c, "interrupt_for_review") /\ Decided(g) /\ \E events : NodeEnds(c, w, events)
    BY <1>14 DEF ReviewDecided
  <2>2. raw = call[c].input /\ Accepted(raw)
    BY <2>1, GivenHeld
  <2>3. w.review_decision = Aliases[raw.decision]
    BY <1>3 DEF InterruptForReview, ParseReviewInput, Visited, Values
  <2>4. Successor(run[c].next, w) = "apply_feedback"
    BY <2>1 DEF At, Successor
  <2> HIDE DEF w, raw
  <2>5. QED BY <1>1, <2>1, <2>2, <2>3, <2>4, NodeEndsOwn
<1>15. CASE ReviewRaises(c)
  <2>1. /\ At(c, "interrupt_for_review") /\ ~Suspends(g) /\ ~Decided(g)
        /\ Raise(c, "InvalidReviewInput", call[c].op, call[c].input)
    BY <1>15 DEF ReviewRaises
  <2>2. PICK kept \in {run[c].resumes, SubSeq(g, 1, 2)} :
          checkpoint' = TaskRows(c, checkpoint[t].interrupt, kept)
    BY <1>15 DEF ReviewRaises
  <2>3. SubSeq(g, 1, 2) \in Seq(RawInputs) /\ NoneAccepted(SubSeq(g, 1, 2))
    BY <1>5, <2>1, KeptType, GivenHeld
  <2>4. PlacesKept /\ \A u \in Threads : NoneAccepted(checkpoint'[u].resumes)
    BY <1>3, <1>5, <1>9, <2>1, <2>2, <2>3
  <2>5. checkpoint[t].next \in RestingPlaces
    BY <1>7, <2>1 DEF At, RestingPlaces
  <2>6. QED BY <2>1, <2>4, <2>5, RaiseOwn
<1>16. CASE ApplyReview(c)
  <2> DEFINE w == ApplyFeedback(v)
  <2>1. run[c].next = "apply_feedback" /\ NodeEnds(c, w, {})
    BY <1>16 DEF ApplyReview, At
  <2>2. w.review_decision = v.review_decision
    BY <1>3 DEF ApplyFeedback, Visited, Values
  <2>3. Successor(run[c].next, w) = "finalize_decision"
    BY <2>1 DEF Successor
  <2> HIDE DEF w
  <2>4. QED BY <1>1, <1>6, <2>1, <2>2, <2>3, NodeEndsOwn DEF InputHeld
<1>17. CASE Finalize(c)
  <2> DEFINE w == FinalizeDecision(v)
  <2>1. run[c].next = "finalize_decision" /\ ~BypassDetected(v)
    <3>1. run[c].next = "finalize_decision"
      BY <1>17 DEF Finalize, At
    <3>2. QED BY <1>3, <1>4, <3>1, FinalizeNotBypassed
  <2>2. PICK events : NodeEnds(c, w, events)
    BY <1>17, <2>1 DEF Finalize
  <2>3. w.review_decision = v.review_decision
    BY <1>3 DEF FinalizeDecision, Visited, Values
  <2>4. Successor(run[c].next, w) = "END"
    BY <2>1 DEF Successor
  <2> HIDE DEF w
  <2>5. QED BY <1>1, <1>6, <2>1, <2>2, <2>3, <2>4, NodeEndsOwn DEF InputHeld
<1>18. CASE Fail(c)
  <2>1. \E events : NodeEnds(c, RecordFailure(v), events)
    BY <1>18 DEF Fail
  <2>2. QED BY <1>8, <1>18, <2>1 DEF Fail, At
<1>19. QED BY <1>10, <1>11, <1>12, <1>13, <1>14, <1>15, <1>16, <1>17, <1>18 DEF RunNode

(* The invariant holds before any call. *)
LEMMA InitOwn == Init => OwnInv
<1>1. SUFFICES ASSUME Init PROVE OwnInv
  OBVIOUS
<1>2. \A t \in Threads : ThreadOwn(t)
  BY <1>1, EmptyRefused DEF Init, NoCheckpoint, ThreadOwn, Resting, RestingPlaces
<1>3. \A c \in Callers : RunOwn(c)
  BY <1>1, EmptyRefused DEF Init, NoRun, RunOwn
<1>4. ReviewerDecisionGoverns
  BY <1>1 DEF Init, NoResult, ReviewerDecisionGoverns
<1>5. QED BY <1>1, <1>2, <1>3, <1>4, InitSerial DEF OwnInv

(* Every step of serial calls in which nothing dies preserves it. *)
LEMMA NextOwn ==
  ASSUME OwnInv, WellBehaved, [Next /\ Serial']_vars
  PROVE  OwnInv'
<1>1. SerialInv' /\ Serial'
  BY NextFollows DEF OwnInv, SerialInv
<1>2. SUFFICES OwnParts'
  BY <1>1 DEF OwnParts, OwnInv
<1>3. CASE UNCHANGED vars
  <2>1. /\ checkpoint' = checkpoint /\ pc' = pc /\ call' = call /\ run' = run
        /\ result' = result
    BY <1>3 DEF vars
  <2>2. \A t \in Threads : ThreadOwn(t)'
    BY <2>1 DEF OwnInv, ThreadOwn, Resting
  <2>3. \A c \in Callers : RunOwn(c)'
    BY <2>1 DEF OwnInv, RunOwn, InputHeld
  <2>4. ReviewerDecisionGoverns'
    BY <2>1 DEF OwnInv, ReviewerDecisionGoverns
  <2>5. QED BY <2>2, <2>3, <2>4 DEF OwnParts
<1>4. ASSUME NEW c \in Callers, NEW t \in Threads, NEW raw \in ReviewerInputs,
             ResumeRefused(c, t, raw) \/ ResumeChecked(c, t, raw)
      PROVE  OwnParts'
  BY <1>1, <1>4, ResumeOwn, InstanceAssumption
<1>5. ASSUME NEW c \in Callers, NEW t \in Threads, NEW q \in Questions, NEW forced \in BOOLEAN,
             Submit(c, t, q, forced)
      PROVE  OwnParts'
  BY <1>1, <1>5, SubmitOwn
<1>6. ASSUME NEW c \in Callers, Proceed(c) PROVE OwnParts'
  BY <1>1, <1>6, InvokeOwn, RunNodeOwn, CommitOwn, AnswerOwn DEF Proceed
<1>7. \A c \in Callers : ~Crash(c)
  BY DEF Crash, WellBehaved
<1>8. QED BY <1>3, <1>4, <1>5, <1>6, <1>7 DEF Next

(* Where calls on one thread do not overlap, no process dies and no reply  *)
(* is of the wrong type, a resume says that the case was completed, or     *)
(* refused, only if its own input was accepted and asked for that: no      *)
(* earlier refused input, nor another reviewer's, decides in its place.    *)
(* Each of the conditions is needed: a resume that finds its thread        *)
(* between two nodes, where a crash, an exception or a call in progress    *)
(* has it, takes it to its end whatever its own input says.                *)
THEOREM InputGoverns ==
  ASSUME WellBehaved
  PROVE  SerialSpec => []ReviewerDecisionGoverns
<1>1. Init => OwnInv
  BY InitOwn
<1>2. OwnInv /\ [Next /\ Serial']_vars => OwnInv'
  BY NextOwn
<1>3. OwnInv => ReviewerDecisionGoverns
  BY DEF OwnInv
<1>4. QED BY <1>1, <1>2, <1>3, PTL DEF SerialSpec
-----------------------------------------------------------------------------
(* What a result carries.                                                  *)
(*                                                                         *)
(* A call that is about to build its result has been parked at the gate,   *)
(* or has taken its thread to the end, where it still is: no other call    *)
(* has moved it.                                                           *)

RunWhole(c) ==
  LET cp == checkpoint[call[c].thread] IN
  /\ pc[c] = "checked" => cp.next \notin {"none", "END"}
  /\ pc[c] \in {"run", "commit"} => run[c].paused = "none"
  /\ pc[c] = "answer" =>
       \/ run[c].paused # "none" /\ run[c].next = "interrupt_for_review"
       \/ run[c].paused = "none" /\ run[c].next = "END" /\ cp.next = "END"

WholeInv ==
  /\ SerialInv
  /\ \A c \in Callers : RunWhole(c)
  /\ AnswerOrInterrupt

(* What a step has to preserve beside the invariant of the serial service. *)
WholeParts == (\A c \in Callers : RunWhole(c)) /\ AnswerOrInterrupt

(* Callers that do not move are where they were, if their threads are. *)
LEMMA OthersWhole ==
  ASSUME WholeInv, NEW c \in Callers, OthersStay(c), RunWhole(c)',
         \A d \in Callers :
           d # c /\ pc[d] # "idle" =>
             checkpoint'[call[d].thread].next = checkpoint[call[d].thread].next
  PROVE  \A d \in Callers : RunWhole(d)'
<1>1. ASSUME NEW d \in Callers, d # c PROVE RunWhole(d)'
  <2>1. /\ pc'[d] = pc[d] /\ call'[d] = call[d]
        /\ run'[d].next = run[d].next /\ run'[d].paused = run[d].paused
    BY <1>1 DEF OthersStay
  <2>2. pc[d] # "idle" =>
          checkpoint'[call[d].thread].next = checkpoint[call[d].thread].next
    BY <1>1
  <2>3. RunWhole(d)
    BY DEF WholeInv
  <2>4. QED BY <2>1, <2>2, <2>3 DEF RunWhole
<1>2. QED BY <1>1

(* A step that moves no thread on. *)
LEMMA PlacesWhole ==
  ASSUME WholeInv, PlacesKept, NEW c \in Callers, OthersStay(c), RunWhole(c)'
  PROVE  \A d \in Callers : RunWhole(d)'
<1>1. \A d \in Callers : pc[d] # "idle" => call[d].thread \in Threads
  BY DEF WholeInv, SerialInv, ReviewInv, TypeInv, CallOnThread
<1>2. QED BY <1>1, OthersWhole DEF PlacesKept

(* Only an answer is a result that carries anything. *)
LEMMA AnswersKept ==
  ASSUME WholeInv, NEW c \in Callers,
         \A d \in Callers : d # c => result'[d] = result[d],
         result'[c] = result[c] \/ result'[c].kind # "returned"
  PROVE  AnswerOrInterrupt'
<1>1. \A d \in Callers : result'[d] = result[d] \/ result'[d].kind # "returned"
  OBVIOUS
<1>2. QED BY <1>1 DEF WholeInv, AnswerOrInterrupt

(* A call that raises, or dies. *)
LEMMA RaiseWhole ==
  ASSUME WholeInv, NEW c \in Callers, NEW kind, kind # "returned", NEW op, NEW raw,
         Raise(c, kind, op, raw), PlacesKept
  PROVE  WholeParts'
<1>1. PICK r : Return(c, r) /\ r.kind # "returned"
  <2>1. [NoResult EXCEPT !.kind = kind, !.op = op, !.input = raw].kind = kind
    BY DEF NoResult
  <2>2. QED BY <2>1 DEF Raise
<1>2. /\ OthersStay(c) /\ pc'[c] = "idle" /\ result'[c] = r
      /\ \A d \in Callers : d # c => result'[d] = result[d]
  BY <1>1, ReturnStays DEF WholeInv
<1>3. RunWhole(c)'
  BY <1>2 DEF RunWhole
<1>4. \A d \in Callers : RunWhole(d)'
  BY <1>2, <1>3, PlacesWhole
<1>5. AnswerOrInterrupt'
  BY <1>1, <1>2, AnswersKept
<1>6. QED BY <1>4, <1>5 DEF WholeParts

(* A node ends. *)
LEMMA NodeEndsWhole ==
  ASSUME WholeInv, NEW c \in Callers, NEW v, NEW events, pc[c] = "run", NodeEnds(c, v, events)
  PROVE  WholeParts'
<1>1. /\ run'[c].paused = run[c].paused
      /\ \A d \in Callers : d # c => run'[d] = run[d]
  <2>1. run[c] \in Runs /\ run \in [Callers -> Runs]
    BY Functional DEF WholeInv
  <2>2. QED BY <2>1 DEF NodeEnds, Runs
<1>2. /\ pc'[c] = "commit" /\ UNCHANGED <<checkpoint, call, result>>
      /\ \A d \in Callers : d # c => pc'[d] = pc[d]
  BY Functional DEF NodeEnds, WholeInv
<1>3. OthersStay(c) /\ PlacesKept
  BY <1>1, <1>2 DEF OthersStay, PlacesKept
<1>4. RunWhole(c)'
  BY <1>1, <1>2 DEF WholeInv, RunWhole
<1>5. \A d \in Callers : RunWhole(d)'
  BY <1>3, <1>4, PlacesWhole
<1>6. AnswerOrInterrupt'
  BY <1>2, AnswersKept
<1>7. QED BY <1>5, <1>6 DEF WholeParts

(* A resume is refused, or finds its thread before its end. *)
LEMMA ResumeWhole ==
  ASSUME WholeInv, NEW c \in Callers, NEW t \in Threads, NEW raw \in RawInputs,
         ResumeRefused(c, t, raw) \/ ResumeChecked(c, t, raw)
  PROVE  WholeParts'
<1>1. PlacesKept
  BY DEF ResumeRefused, ResumeChecked, PlacesKept
<1>2. CASE ResumeRefused(c, t, raw)
  <2> DEFINE cp == checkpoint[t]
             kind == CASE cp.next = "none"                   -> "UnknownThread"
                       [] cp.next # "none" /\ ~Awaiting(cp)  -> "NotAwaitingReview"
                       [] OTHER                              -> "InvalidReviewInput"
  <2>1. kind # "returned"
    OBVIOUS
  <2>2. Raise(c, kind, "resume", raw)
    BY <1>2 DEF ResumeRefused
  <2> HIDE DEF kind
  <2>3. QED BY <1>1, <2>1, <2>2, RaiseWhole
<1>3. CASE ResumeChecked(c, t, raw)
  <2>1. /\ pc' = [pc EXCEPT ![c] = "checked"] /\ UNCHANGED <<checkpoint, run, result>>
        /\ call' = [call EXCEPT ![c] = [op |-> "resume", thread |-> t, input |-> raw]]
        /\ ~Refused(checkpoint[t], raw)
    BY <1>3 DEF ResumeChecked
  <2>2. /\ pc'[c] = "checked" /\ call'[c].thread = t
        /\ \A d \in Callers : d # c => pc'[d] = pc[d] /\ call'[d] = call[d] /\ run'[d] = run[d]
    BY <2>1, Functional DEF WholeInv
  <2>3. OthersStay(c)
    BY <2>2 DEF OthersStay
  <2>4. checkpoint[t].next \notin {"none", "END"}
    <3>1. checkpoint[t].next # "none" /\ Awaiting(checkpoint[t])
      BY <2>1 DEF Refused
    <3>2. checkpoint[t].interrupt # "none" => checkpoint[t].next = "interrupt_for_review"
      BY DEF WholeInv, SerialInv, ReviewInv, InterruptAtNode
    <3>3. QED BY <3>1, <3>2 DEF Awaiting
  <2>5. RunWhole(c)'
    BY <2>1, <2>2, <2>4 DEF RunWhole
  <2>6. \A d \in Callers : RunWhole(d)'
    BY <1>1, <2>3, <2>5, PlacesWhole
  <2>7. AnswerOrInterrupt'
    BY <2>1, AnswersKept
  <2>8. QED BY <2>6, <2>7 DEF WholeParts
<1>4. QED BY <1>2, <1>3

(* The graph is invoked before its end. *)
LEMMA InvokeWhole ==
  ASSUME WholeInv, NEW c \in Callers, Invoke(c)
  PROVE  WholeParts'
<1> DEFINE cp == checkpoint[call[c].thread]
           r  == [NoRun EXCEPT !.values = cp.values, !.next = cp.next,
                               !.resumes = cp.resumes, !.offered = TRUE, !.latest = TRUE]
<1>1. r.paused = "none"
  BY DEF NoRun
<1>2. /\ run' = [run EXCEPT ![c] = r] /\ UNCHANGED <<checkpoint, call, result>>
      /\ pc' = [pc EXCEPT ![c] = IF cp.next = "END" THEN "answer" ELSE "run"]
      /\ pc[c] = "checked"
  BY DEF Invoke
<1>3. cp.next # "END"
  BY <1>2 DEF WholeInv, RunWhole
<1> HIDE DEF r
<1>4. /\ run'[c] = r /\ pc'[c] = "run"
      /\ \A d \in Callers : d # c => pc'[d] = pc[d] /\ call'[d] = call[d] /\ run'[d] = run[d]
  BY <1>2, <1>3, Functional DEF WholeInv
<1>5. OthersStay(c) /\ PlacesKept
  BY <1>2, <1>4 DEF OthersStay, PlacesKept
<1>6. RunWhole(c)'
  BY <1>1, <1>4 DEF RunWhole
<1>7. \A d \in Callers : RunWhole(d)'
  BY <1>5, <1>6, PlacesWhole
<1>8. AnswerOrInterrupt'
  BY <1>2, AnswersKept
<1>9. QED BY <1>7, <1>8 DEF WholeParts

(* A checkpoint of t is saved: no other call is on t. *)
LEMMA SavedWhole ==
  ASSUME WholeInv, Serial', NEW c \in Callers, NEW t \in Threads, NEW v, NEW node,
         checkpoint' = [checkpoint EXCEPT ![t] = Saved(v, node)],
         call'[c].thread = t, OthersStay(c), RunWhole(c)'
  PROVE  \A d \in Callers : RunWhole(d)'
<1>1. \A u \in Threads : u # t => checkpoint'[u] = checkpoint[u]
  BY Functional DEF WholeInv
<1>2. ASSUME NEW d \in Callers, d # c, pc[d] # "idle"
      PROVE  checkpoint'[call[d].thread].next = checkpoint[call[d].thread].next
  <2>1. call[d].thread \in Threads
    BY <1>2 DEF WholeInv, SerialInv, ReviewInv, TypeInv, CallOnThread
  <2>2. call[d].thread # t
    <3>1. call'[d] = call[d]
      BY <1>2 DEF OthersStay
    <3>2. QED BY <1>2, <3>1, NoThreadAssumption DEF Serial
  <2>3. QED BY <1>1, <2>1, <2>2
<1>3. QED BY <1>2, OthersWhole

(* A submission begins its run. *)
LEMMA SubmitWhole ==
  ASSUME WholeInv, Serial', NEW c \in Callers, NEW t \in Threads, NEW q \in Questions,
         NEW forced \in BOOLEAN, Submit(c, t, q, forced)
  PROVE  WholeParts'
<1> DEFINE v == NewRequestState(checkpoint[t].values, q, forced)
           r == [NoRun EXCEPT !.values = v, !.next = "retrieve_policy", !.latest = TRUE]
           k == [op |-> "submit", thread |-> t, input |-> NoInput]
<1>1. /\ checkpoint' = [checkpoint EXCEPT ![t] = Saved(v, "retrieve_policy")]
      /\ run' = [Superseded(c, t) EXCEPT ![c] = r]
      /\ pc' = [pc EXCEPT ![c] = "run"]
      /\ call' = [call EXCEPT ![c] = k]
      /\ UNCHANGED result
  BY DEF Submit
<1>2. r.paused = "none" /\ k.thread = t
  BY DEF NoRun
<1> HIDE DEF v, r, k
<1>3. /\ run'[c] = r /\ call'[c] = k /\ pc'[c] = "run"
      /\ \A d \in Callers : d # c => /\ run'[d] = Superseded(c, t)[d]
                                     /\ pc'[d] = pc[d] /\ call'[d] = call[d]
  BY <1>1, Functional DEF WholeInv, Superseded
<1>4. OthersStay(c)
  BY <1>3, SupersededKeeps DEF OthersStay, WholeInv
<1>5. RunWhole(c)'
  BY <1>2, <1>3 DEF RunWhole
<1>6. \A d \in Callers : RunWhole(d)'
  BY <1>1, <1>2, <1>3, <1>4, <1>5, SavedWhole
<1>7. AnswerOrInterrupt'
  BY <1>1, AnswersKept
<1>8. QED BY <1>6, <1>7 DEF WholeParts

(* A commit takes its thread to the end, or its run goes on. *)
LEMMA CommitWhole ==
  ASSUME WholeInv, Serial', NEW c \in Callers, Commit(c)
  PROVE  WholeParts'
<1> DEFINE t    == call[c].thread
           v    == run[c].values
           node == run[c].next
           r    == [run[c] EXCEPT !.resumes = <<>>, !.latest = TRUE]
<1>1. t \in Threads /\ run[c] \in Runs
  BY Functional DEF WholeInv, SerialInv, ReviewInv, TypeInv, CallOnThread, Commit
<1>2. /\ checkpoint' = [checkpoint EXCEPT ![t] = Saved(v, node)]
      /\ run' = [Superseded(c, t) EXCEPT ![c] = r]
      /\ pc' = [pc EXCEPT ![c] = IF node = "END" THEN "answer" ELSE "run"]
      /\ pc[c] = "commit" /\ UNCHANGED <<call, result>>
  BY DEF Commit
<1>3. r.next = node /\ r.paused = "none"
  BY <1>1, <1>2 DEF Runs, WholeInv, RunWhole
<1>4. /\ run'[c] = r /\ pc'[c] \in {"run", "answer"} /\ (node # "END" => pc'[c] = "run")
      /\ \A d \in Callers : d # c => /\ run'[d] = Superseded(c, t)[d]
                                     /\ pc'[d] = pc[d] /\ call'[d] = call[d]
  BY <1>2, Functional DEF WholeInv, Superseded
<1>5. OthersStay(c)
  BY <1>1, <1>4, SupersededKeeps DEF OthersStay, WholeInv
<1>6. call'[c].thread = t /\ checkpoint'[t].next = node
  BY <1>1, <1>2, Functional DEF WholeInv, Saved
<1>7. RunWhole(c)'
  BY <1>3, <1>4, <1>6 DEF RunWhole
<1> HIDE DEF t, v, node, r
<1>8. \A d \in Callers : RunWhole(d)'
  BY <1>1, <1>2, <1>5, <1>6, <1>7, SavedWhole
<1>9. AnswerOrInterrupt'
  BY <1>2, AnswersKept
<1>10. QED BY <1>8, <1>9 DEF WholeParts

(* Each node. *)
LEMMA RunNodeWhole ==
  ASSUME WholeInv, NEW c \in Callers, RunNode(c)
  PROVE  WholeParts'
<1> DEFINE t == call[c].thread
           g == Given(c)
<1>1. pc[c] = "run" /\ SerialInv
  BY DEF RunNode, Retrieve, Draft, ClassifyNode, ReviewSuspends, ReviewDecided, ReviewRaises,
         ApplyReview, Finalize, Fail, At, WholeInv
<1>2. PlacesKept
  BY <1>1, RunNodeFollows
<1>3. ASSUME NEW kind, kind # "returned", NodeRaises(c, kind) PROVE WholeParts'
  BY <1>2, <1>3, RaiseWhole DEF NodeRaises
<1>4. ASSUME NEW v, NEW events, NodeEnds(c, v, events) PROVE WholeParts'
  BY <1>1, <1>4, NodeEndsWhole
<1>5. CASE Retrieve(c)
  BY <1>4, <1>5 DEF Retrieve
<1>6. CASE Draft(c)
  <2>1. PICK reply \in Assessments :
          \/ NodeRaises(c, "DraftTypeError")
          \/ NodeEnds(c, DraftAssessment(run[c].values, reply), {})
    BY <1>6 DEF Draft
  <2>2. QED BY <1>3, <1>4, <2>1
<1>7. CASE ClassifyNode(c)
  <2>1. PICK reply \in Verdicts :
          \/ NodeRaises(c, "ClassifierTypeError")
          \/ NodeEnds(c, ClassifyRisk(run[c].values, reply), {})
    BY <1>7 DEF ClassifyNode
  <2>2. QED BY <1>3, <1>4, <2>1
<1>8. CASE ReviewSuspends(c)
  <2> DEFINE kind == IF g = <<>> THEN "review" ELSE "review_with_error"
  <2>1. /\ run[c].next = "interrupt_for_review"
        /\ run' = [run EXCEPT ![c] = [run[c] EXCEPT !.paused = kind]]
        /\ pc' = [pc EXCEPT ![c] = "answer"]
        /\ UNCHANGED <<call, result>>
    BY <1>8 DEF ReviewSuspends, At
  <2>2. kind # "none"
    OBVIOUS
  <2> HIDE DEF kind, g
  <2>3. /\ pc'[c] = "answer" /\ run'[c].paused = kind /\ run'[c].next = run[c].next
        /\ \A d \in Callers : d # c => pc'[d] = pc[d] /\ call'[d] = call[d] /\ run'[d] = run[d]
    BY <1>1, <2>1, Functional DEF Runs
  <2>4. OthersStay(c)
    BY <2>3 DEF OthersStay
  <2>5. RunWhole(c)'
    BY <2>1, <2>2, <2>3 DEF RunWhole
  <2>6. \A d \in Callers : RunWhole(d)'
    BY <1>2, <2>4, <2>5, PlacesWhole
  <2>7. AnswerOrInterrupt'
    BY <2>1, AnswersKept
  <2>8. QED BY <2>6, <2>7 DEF WholeParts
<1>9. CASE ReviewDecided(c)
  <2>1. \E v, events : NodeEnds(c, v, events)
    BY <1>9 DEF ReviewDecided
  <2>2. QED BY <1>4, <2>1
<1>10. CASE ReviewRaises(c)
  <2>1. Raise(c, "InvalidReviewInput", call[c].op, call[c].input)
    BY <1>10 DEF ReviewRaises
  <2>2. QED BY <1>2, <2>1, RaiseWhole
<1>11. CASE ApplyReview(c)
  BY <1>4, <1>11 DEF ApplyReview
<1>12. CASE Finalize(c)
  <2>1. NodeRaises(c, "HumanReviewBypassError") \/ \E v, events : NodeEnds(c, v, events)
    BY <1>12 DEF Finalize
  <2>2. QED BY <1>3, <1>4, <2>1
<1>13. CASE Fail(c)
  BY <1>4, <1>13 DEF Fail
<1>14. QED BY <1>5, <1>6, <1>7, <1>8, <1>9, <1>10, <1>11, <1>12, <1>13 DEF RunNode

(* A case that has ended says how, in its status and in its answer. *)
LEMMA EndSpeaks ==
  ASSUME NEW v, Coherent(v, "END")
  PROVE  /\ v.status \in {"completed", "rejected_by_reviewer", "failed"}
         /\ v.final_answer # NoAnswer
<1>1. NoAnswer.approval = "" /\ NoAnswer.body = ""
  BY DEF NoAnswer
<1>2. CASE Finalized(v)
  <2>1. v.status = StatusFor(v) /\ v.final_answer = ComposeAnswer(v)
    BY <1>2 DEF Finalized
  <2>2. StatusFor(v) \in {"completed", "rejected_by_reviewer", "failed"}
    BY DEF StatusFor
  <2>3. ComposeAnswer(v).approval # ""
    BY DEF ComposeAnswer
  <2>4. v.final_answer # NoAnswer
    BY <1>1, <2>1, <2>3, Zenon
  <2>5. QED BY <2>1, <2>2, <2>4
<1>3. CASE Failed(v)
  <2>1. v.status = "failed" /\ v.final_answer = [NoAnswer EXCEPT !.body = "unresolved"]
    BY <1>3 DEF Failed
  <2>2. [NoAnswer EXCEPT !.body = "unresolved"] # NoAnswer
    BY DEF NoAnswer
  <2>3. QED BY <2>1, <2>2
<1>4. QED BY <1>2, <1>3 DEF Coherent

(* The result of a call is the request for a review, or an answer. *)
LEMMA AnswerWhole ==
  ASSUME WholeInv, NEW c \in Callers, Answer(c)
  PROVE  WholeParts'
<1> DEFINE v == run[c].values
           t == call[c].thread
           payload == IF run[c].paused # "none" THEN run[c].paused
                      ELSE checkpoint[t].interrupt
           status == IF v.status # "" THEN v.status
                     ELSE IF payload # "none" THEN "pending_human_review" ELSE "failed"
           r == [kind |-> "returned", op |-> call[c].op, input |-> call[c].input,
                 status |-> status, payload |-> payload, answer |-> v.final_answer]
<1>1. Return(c, r) /\ pc[c] = "answer" /\ UNCHANGED checkpoint
  BY DEF Answer
<1>2. r.payload = payload /\ r.status = status /\ r.answer = v.final_answer
  OBVIOUS
<1>3. Coherent(v, run[c].next) /\ t \in Threads
  BY <1>1 DEF WholeInv, SerialInv, ReviewInv, RunsCoherent, TypeInv, CallOnThread
<1>4. IF payload # "none" THEN status = "pending_human_review" /\ v.final_answer = NoAnswer
                          ELSE status # "pending_human_review" /\ v.final_answer # NoAnswer
  <2>1. CASE run[c].paused # "none" /\ run[c].next = "interrupt_for_review"
    <3>1. Unreleased(v)
      BY <1>3, <2>1 DEF Coherent
    <3>2. v.status \in {"", "pending_human_review"} /\ v.final_answer = NoAnswer
      BY <3>1 DEF Unreleased
    <3>3. QED BY <2>1, <3>2
  <2>2. CASE run[c].paused = "none" /\ run[c].next = "END" /\ checkpoint[t].next = "END"
    <3>1. checkpoint[t].interrupt = "none"
      BY <1>3, <2>2 DEF WholeInv, SerialInv, ReviewInv, InterruptAtNode
    <3>2. v.status \in {"completed", "rejected_by_reviewer", "failed"}
          /\ v.final_answer # NoAnswer
      BY <1>3, <2>2, EndSpeaks
    <3>3. QED BY <2>2, <3>1, <3>2
  <2>3. QED BY <1>1, <2>1, <2>2 DEF WholeInv, RunWhole
<1> HIDE DEF r, status, payload, v, t
<1>5. /\ OthersStay(c) /\ pc'[c] = "idle" /\ result'[c] = r
      /\ \A d \in Callers : d # c => result'[d] = result[d]
  BY <1>1, ReturnStays DEF WholeInv
<1>6. RunWhole(c)' /\ PlacesKept
  BY <1>1, <1>5 DEF RunWhole, PlacesKept
<1>7. \A d \in Callers : RunWhole(d)'
  BY <1>5, <1>6, PlacesWhole
<1>8. AnswerOrInterrupt'
  BY <1>2, <1>4, <1>5 DEF WholeInv, AnswerOrInterrupt
<1>9. QED BY <1>7, <1>8 DEF WholeParts

(* Every step of serial calls preserves it. *)
LEMMA NextWhole ==
  ASSUME WholeInv, [Next /\ Serial']_vars
  PROVE  WholeInv'
<1>1. SerialInv' /\ Serial'
  BY NextFollows DEF WholeInv, SerialInv
<1>2. SUFFICES WholeParts'
  BY <1>1 DEF WholeParts, WholeInv
<1>3. CASE UNCHANGED vars
  BY <1>3 DEF vars, WholeInv, WholeParts, RunWhole, AnswerOrInterrupt
<1>4. ASSUME NEW c \in Callers, NEW t \in Threads, NEW raw \in ReviewerInputs,
             ResumeRefused(c, t, raw) \/ ResumeChecked(c, t, raw)
      PROVE  WholeParts'
  BY <1>4, ResumeWhole, InstanceAssumption
<1>5. ASSUME NEW c \in Callers, NEW t \in Threads, NEW q \in Questions, NEW forced \in BOOLEAN,
             Submit(c, t, q, forced)
      PROVE  WholeParts'
  BY <1>1, <1>5, SubmitWhole
<1>6. ASSUME NEW c \in Callers, Proceed(c) PROVE WholeParts'
  BY <1>1, <1>6, InvokeWhole, RunNodeWhole, CommitWhole, AnswerWhole DEF Proceed
<1>7. ASSUME NEW c \in Callers, Crash(c) PROVE WholeParts'
  <2>1. PlacesKept /\ Raise(c, "crashed", call[c].op, call[c].input)
    BY <1>7 DEF Crash, PlacesKept
  <2>2. QED BY <2>1, RaiseWhole
<1>8. QED BY <1>3, <1>4, <1>5, <1>6, <1>7 DEF Next

(* Where calls on one thread do not overlap, what a call returns is either *)
(* the request for a review of a pending case or the status and answer of  *)
(* one that has ended, whatever died or raised before it on that thread:   *)
(* the snapshot _result reads is that of its own run.                      *)
THEOREM ResultsAreWhole == SerialSpec => []AnswerOrInterrupt
<1>1. Init => WholeInv
  <2>1. SUFFICES ASSUME Init PROVE WholeInv
    OBVIOUS
  <2>2. \A c \in Callers : RunWhole(c)
    BY <2>1 DEF Init, RunWhole
  <2>3. \A c \in Callers : result[c].kind = "none"
    BY <2>1 DEF Init, NoResult
  <2>4. QED BY <2>1, <2>2, <2>3, InitSerial DEF WholeInv, AnswerOrInterrupt
<1>2. WholeInv /\ [Next /\ Serial']_vars => WholeInv'
  BY NextWhole
<1>3. WholeInv => AnswerOrInterrupt
  BY DEF WholeInv
<1>4. QED BY <1>1, <1>2, <1>3, PTL DEF SerialSpec
=============================================================================
