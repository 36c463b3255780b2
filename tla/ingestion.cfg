\* Two runs over an edited corpus, with crashes and failures of the store, against a reader.
SPECIFICATION Spec
CONSTANTS
  Ingesters = {"i1"}
  Readers = {"r1"}
  Paths = {1, 2}
  Documents = {1, 2}
  Versions = {1, 2}
  Headings = {1}
  Sizes = {1, 2}
  TopK = 2
  Orchestrated = FALSE
  Unsound = FALSE
  DeletesFail = FALSE
  StoreFails = TRUE
  Crashes = TRUE
  MaxEdits = 1
  MaxRuns = 2
INVARIANTS
  TypeOK
  EditionsWhole
  CitationsOfOneEdition
  RunRepairs
PROPERTIES
  OnlyReplacedLeave
  IndexContractKept
