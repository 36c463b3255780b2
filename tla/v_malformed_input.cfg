\* README: malformed input leaves the request parked and interrupting again.
SPECIFICATION Spec
CONSTANTS
  UseLlmSecondOpinion = TRUE
  EscalateOnlyLlm = TRUE
  HighRiskOnClassifierError = TRUE
  Reviewers = {"alice", "bob", "None"}
  c1 = c1
  Callers = {c1}
  Threads = {"case-1"}
  Questions = {"termination"}
  Signals <- MCSignals
  Retrievals = {"strong"}
  Assessments <- MCFullAnswer
  Verdicts = {"low"}
  ReviewerInputs <- MCInvalidToo
  Crashes = FALSE
  MaxSubmissions = 1
INVARIANTS
  MalformedInputStaysParked
