--------------------------- MODULE MCPolicyReview ---------------------------
(***************************************************************************)
(* Values for the constants of PolicyReviewService that a configuration    *)
(* file cannot write down.                                                 *)
(***************************************************************************)
EXTENDS PolicyReviewRequirements, TLC

(* A question that matches a high-risk signal, one that matches a medium   *)
(* one only, and one that matches none.                                    *)
MCSignals ==
  [q \in Questions |-> CASE q = "termination" -> {"high", "medium"}
                         [] q = "exception"   -> {"medium"}
                         [] OTHER             -> {}]

Input(decision, reviewer, feedback) ==
  [mapping |-> TRUE, decision |-> decision, reviewer |-> reviewer, feedback |-> feedback]

Reply(kind, parts) == [kind |-> kind, parts |-> parts]

(* An assessment with everything that the prompt asks for. *)
MCFullAnswer == {Reply("answer", {"basis", "conditions", "uncertainty"})}

(* An assessment, and one with fields that end the call. *)
MCFullOrBad == MCFullAnswer \cup {Reply("bad_fields", {})}

(* A failure of the model. *)
MCUnavailable == {Reply("unavailable", {})}

(* Every reply but one that ends the call. *)
MCReplies ==
  {r \in AssessmentReplies : r.kind # "bad_fields" /\ (r.parts = {} \/ r.kind = "answer")}

(* Consent under another spelling, and with a null for a name, a refusal,  *)
(* a refusal without a reason, an anonymous sign-off, and what resume      *)
(* refuses itself.                                                         *)
MCInputs ==
  {Input("approved_with_conditions", "alice", FALSE),
   Input("approve", NullReviewer, FALSE),
   Input("deny", "bob", TRUE),
   Input("amend", "alice", FALSE),
   Input("approved", NoReviewer, TRUE),
   NoInput}

(* Two reviewers who disagree, and then one input the parser refuses. *)
MCDisagreement ==
  {Input("approved", "alice", FALSE), Input("rejected", "bob", TRUE)}

MCInvalidToo == MCDisagreement \cup {Input("free text", "bob", TRUE)}

MCSymmetry == Permutations(Callers)
=============================================================================
