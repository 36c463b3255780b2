\* policy_review.yaml: a run below the thresholds does not publish.
SPECIFICATION Spec
CONSTANTS
  Ingesters = {"i1"}
  Readers = {}
  Paths = {1, 2}
  Documents = {1, 2}
  Versions = {1, 2}
  Headings = {1}
  Sizes = {1, 2}
  TopK = 2
  Orchestrated = FALSE
  Unsound = FALSE
  DeletesFail = FALSE
  StoreFails = FALSE
  Crashes = FALSE
  MaxEdits = 1
  MaxRuns = 2
INVARIANTS
  RefusedIsNotServed
\* Without a reader nothing is left to do once the runs are used up.
CHECK_DEADLOCK FALSE
