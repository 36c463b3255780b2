\* Two callers race to review one request, and either may die.
SPECIFICATION Spec
CONSTANTS
  UseLlmSecondOpinion = TRUE
  EscalateOnlyLlm = TRUE
  HighRiskOnClassifierError = TRUE
  Reviewers = {"alice", "bob", "None"}
  c1 = c1
  c2 = c2
  Callers = {c1, c2}
  Threads = {"case-1"}
  Questions = {"termination"}
  Signals <- MCSignals
  Retrievals = {"strong"}
  Assessments <- MCFullAnswer
  Verdicts = {"low"}
  ReviewerInputs <- MCDisagreement
  Crashes = TRUE
  MaxSubmissions = 1
SYMMETRY MCSymmetry
INVARIANTS
  NoUnreviewedRelease
  RefusalReplacesConclusion
  AuditTrail
