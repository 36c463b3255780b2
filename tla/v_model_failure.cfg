\* draft_assessment.py: a model failure must not become an answer.
SPECIFICATION Spec
CONSTANTS
  UseLlmSecondOpinion = TRUE
  EscalateOnlyLlm = TRUE
  HighRiskOnClassifierError = TRUE
  Reviewers = {"alice", "bob", "None"}
  c1 = c1
  Callers = {c1}
  Threads = {"case-1"}
  Questions = {"leave"}
  Signals <- MCSignals
  Retrievals = {"strong"}
  Assessments <- MCUnavailable
  Verdicts = {"low"}
  ReviewerInputs <- MCDisagreement
  Crashes = FALSE
  MaxSubmissions = 1
INVARIANTS
  ModelFailureStaysUnresolved
