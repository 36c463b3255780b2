\* Two processes, and every failure of the pipeline but their death.
SPECIFICATION FairSpec
CONSTANTS
  Ingesters = {"i1", "i2"}
  Readers = {}
  Paths = {1, 2}
  Documents = {1}
  Versions = {1}
  Headings = {1}
  Sizes = {1}
  TopK = 2
  Orchestrated = TRUE
  Unsound = TRUE
  DeletesFail = TRUE
  StoreFails = TRUE
  Crashes = FALSE
  MaxEdits = 1
  MaxRuns = 2
INVARIANTS
  IdsAreUnique
PROPERTIES
  EveryRunEnds
\* Without a reader nothing is left to do once the runs are used up.
CHECK_DEADLOCK FALSE
