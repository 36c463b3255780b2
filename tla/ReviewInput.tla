---------------------------- MODULE ReviewInput ----------------------------
(***************************************************************************)
(* The validation of what a reviewer sends (agent/human_review/decision).  *)
(* A raw input keeps what the validation tells apart: whether it is a      *)
(* non-empty mapping, how the decision is spelled, who signs (or nobody),  *)
(* and whether there is feedback.  A field is what str() makes of it: a    *)
(* null is not a missing field but the text "None".  Stripping,            *)
(* lower-casing, the wording of the refusals and the time stamp are left   *)
(* out.                                                                    *)
(***************************************************************************)
EXTENDS FiniteSets

CONSTANT Reviewers

(* No reviewer_id, or a blank one. *)
NoReviewer == "nobody"

(* The name a null reviewer_id signs with. *)
NullReviewer == "None"

ASSUME ReviewersAssumption == NoReviewer \notin Reviewers /\ NullReviewer \in Reviewers

Decisions == {"approved", "rejected", "changes_requested"}

(* _ALIASES: the accepted spellings of each decision. *)
Aliases ==
  [approved                 |-> "approved",
   approve                  |-> "approved",
   approved_with_conditions |-> "approved",
   rejected                 |-> "rejected",
   reject                   |-> "rejected",
   denied                   |-> "rejected",
   deny                     |-> "rejected",
   changes_requested        |-> "changes_requested",
   request_changes          |-> "changes_requested",
   needs_changes            |-> "changes_requested",
   amend                    |-> "changes_requested"]

(* Spellings outside the map: a missing decision and a free-text one, as   *)
(* which a null counts.                                                    *)
OtherSpellings == {"", "free text"}

RawInputs == [mapping  : BOOLEAN,
              decision : DOMAIN Aliases \cup OtherSpellings,
              reviewer : Reviewers \cup {NoReviewer},
              feedback : BOOLEAN]

(* parse_review_input returns a decision rather than raising: a null       *)
(* signature is one, and a null feedback is feedback.                      *)
Accepted(raw) ==
  /\ raw.mapping
  /\ raw.decision \in DOMAIN Aliases
  /\ raw.reviewer # NoReviewer
  /\ Aliases[raw.decision] # "approved" => raw.feedback

(* Mutation: whatever is not spelled "rejected" counts as consent. *)
MutantParseReviewInput(raw) ==
  [decision |-> IF raw.decision = "rejected" THEN "rejected" ELSE "approved",
   reviewer |-> raw.reviewer,
   feedback |-> raw.feedback]

(* The ReviewDecision an accepted input becomes. *)
ParseReviewInput(raw) ==
  [decision |-> Aliases[raw.decision],
   reviewer |-> raw.reviewer,
   feedback |-> raw.feedback]

ReviewDecisions == [decision : Decisions, reviewer : Reviewers, feedback : BOOLEAN]
=============================================================================
