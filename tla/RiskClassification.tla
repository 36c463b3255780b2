------------------------- MODULE RiskClassification -------------------------
(***************************************************************************)
(* The risk classifier of agent/risk/: a deterministic pass over the       *)
(* taxonomy, then an optional model pass that the code composes so that it *)
(* can raise the level and never lower it.                                 *)
(*                                                                         *)
(* A question is represented by the set of the levels of the taxonomy      *)
(* signals it matches; regular expressions, rationales and signal names    *)
(* are left out.  A model reply is represented by what the code can tell   *)
(* about it.                                                               *)
(***************************************************************************)
EXTENDS Integers

CONSTANTS UseLlmSecondOpinion,        \* RiskSettings.use_llm_second_opinion
          EscalateOnlyLlm,            \* RiskSettings.escalate_only_llm
          HighRiskOnClassifierError   \* RiskSettings.high_risk_on_classifier_error

ASSUME RiskSettingsAssumption ==
  /\ UseLlmSecondOpinion \in BOOLEAN
  /\ EscalateOnlyLlm \in BOOLEAN
  /\ HighRiskOnClassifierError \in BOOLEAN

RiskLevels == {"low", "medium", "high"}

(* RISK_ORDER *)
RiskOrder == [low |-> 0, medium |-> 1, high |-> 2]

(* The levels taxonomy signals carry: no signal is low. *)
SignalLevels == {"medium", "high"}

(***************************************************************************)
(* What the model's reply to the classification prompt can be:             *)
(*   a level       a JSON object with that level, well formed;             *)
(*   unavailable   complete() raises LLMError;                             *)
(*   no_object     empty text, no braces, or JSON that is not an object;   *)
(*   broken_json   braces around something json.loads refuses;             *)
(*   unknown_level an object whose level is not one of the three;          *)
(*   bad_signals   a known level, but "signals" is null or a number, which *)
(*                 iterating over raises as TypeError.                     *)
(***************************************************************************)
ModelReplies == RiskLevels \cup {"unavailable", "no_object", "broken_json",
                                 "unknown_level", "bad_signals"}

(* The failures `except (LLMError, ValueError, KeyError, JSONDecodeError)` *)
(* catches.                                                                *)
HandledFailures == {"unavailable", "broken_json", "unknown_level"}

-----------------------------------------------------------------------------
(* max_risk: empty labels are skipped, an unknown label is high. *)
MaxRisk(labels) ==
  LET given == labels \ {""} IN
  IF "high" \in given \/ ~(given \subseteq RiskLevels) THEN "high"
  ELSE IF "medium" \in given THEN "medium" ELSE "low"

(* baseline_level over match_signals. *)
BaselineLevel(matched) ==
  IF "high" \in matched THEN "high"
  ELSE IF "medium" \in matched THEN "medium" ELSE "low"

(* The model is asked only when enabled and when it could change anything. *)
AsksModel(matched) == UseLlmSecondOpinion /\ BaselineLevel(matched) # "high"

(* The composition of a well-formed verdict with the deterministic one. *)
Composed(baseline, verdict) ==
  LET level == IF EscalateOnlyLlm THEN MaxRisk({baseline, verdict}) ELSE verdict
  IN  IF RiskOrder[level] > RiskOrder[baseline] THEN level ELSE baseline

(* Mutation: the model's verdict is taken as it stands. *)
MutantClassify(matched, reply) ==
  LET baseline == BaselineLevel(matched) IN
  CASE ~AsksModel(matched) -> baseline
    [] AsksModel(matched) /\ reply \in HandledFailures ->
         IF HighRiskOnClassifierError THEN "high" ELSE baseline
    [] AsksModel(matched) /\ reply \in RiskLevels -> reply
    [] OTHER -> baseline

(* The level RiskClassifier.classify returns. *)
Classify(matched, reply) ==
  LET baseline == BaselineLevel(matched) IN
  CASE ~AsksModel(matched) -> baseline
    [] AsksModel(matched) /\ reply \in HandledFailures ->
         IF HighRiskOnClassifierError THEN "high" ELSE baseline
    [] AsksModel(matched) /\ reply \in RiskLevels -> Composed(baseline, reply)
    [] OTHER -> baseline

(* Mutation: the ValueError of an unknown level is not caught. *)
MutantClassifyRaises(matched, reply) ==
  AsksModel(matched) /\ reply \in {"bad_signals", "unknown_level"}

(* classify raises instead of returning. *)
ClassifyRaises(matched, reply) == AsksModel(matched) /\ reply = "bad_signals"
=============================================================================
