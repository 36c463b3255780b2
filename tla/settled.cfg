\* One submission, nobody dies, and every reply of the retriever and of the model
\* but those that end a call with an error of type.
SPECIFICATION FairSpec
CONSTANTS
  UseLlmSecondOpinion = TRUE
  EscalateOnlyLlm = TRUE
  HighRiskOnClassifierError = TRUE
  Reviewers = {"alice", "bob", "None"}
  c1 = c1
  Callers = {c1}
  Threads = {"case-1"}
  Questions = {"termination", "exception", "leave"}
  Signals <- MCSignals
  Retrievals = {"strong", "weak", "none", "error"}
  Assessments <- MCReplies
  Verdicts = {"low", "medium", "high", "unavailable", "no_object", "broken_json", "unknown_level"}
  ReviewerInputs <- MCInputs
  Crashes = FALSE
  MaxSubmissions = 1
INVARIANTS
  TypeOK
  ModelNeverLowersRisk
  ReviewerDecisionGoverns
PROPERTIES
  EveryCallReturns
  SubmissionSettles
