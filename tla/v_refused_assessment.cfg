\* apply_feedback.py: the feedback of a refusal replaces the conclusion of the assistant.
SPECIFICATION Spec
CONSTANTS
  UseLlmSecondOpinion = TRUE
  EscalateOnlyLlm = TRUE
  HighRiskOnClassifierError = TRUE
  Reviewers = {"alice", "bob", "None"}
  c1 = c1
  Callers = {c1}
  Threads = {"case-1"}
  Questions = {"termination"}
  Signals <- MCSignals
  Retrievals = {"strong"}
  Assessments <- MCFullAnswer
  Verdicts = {"low"}
  ReviewerInputs <- MCDisagreement
  Crashes = FALSE
  MaxSubmissions = 1
INVARIANTS
  RefusalReplacesAssessment
