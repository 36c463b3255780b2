\* Two submissions of one id, one call at a time: a crash at every step, and replies
\* of the retriever and of the model of every kind that the graph treats apart.
SPECIFICATION SerialSpec
CONSTANTS
  UseLlmSecondOpinion = TRUE
  EscalateOnlyLlm = TRUE
  HighRiskOnClassifierError = TRUE
  Reviewers = {"alice", "bob", "None"}
  c1 = c1
  Callers = {c1}
  Threads = {"case-1"}
  Questions = {"termination", "exception"}
  Signals <- MCSignals
  Retrievals = {"strong", "none", "error"}
  Assessments <- MCFullOrBad
  Verdicts = {"low", "high", "bad_signals"}
  ReviewerInputs <- MCInvalidToo
  Crashes = TRUE
  MaxSubmissions = 2
INVARIANTS
  GraphInvariant
  NothingReleasedWhileParked
  DecisionOfThisSubmission
  BypassUnreachable
  AnswerOrInterrupt
PROPERTIES
  DecisionIsFinal
  ReviewedWorkPreserved
  ContractKept
