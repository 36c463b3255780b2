\* Two threads of one process and one of another, against a reader.
SPECIFICATION Spec
CONSTANTS
  w1 = w1
  w2 = w2
  w3 = w3
  t1 = t1
  t2 = t2
  Writers <- MCWriters
  ProcessOf <- MCProcessOf
  Threads <- MCThreads
  Readers = {"r1"}
  Faults = TRUE
  MaxRecords = 3
SYMMETRY MCSymmetry
INVARIANTS
  TypeOK
  ReadsAreFaithful
  ReadsAreComplete
  LossIsExplained
PROPERTIES
  LogKept
\* Nobody has to emit or to read.
CHECK_DEADLOCK FALSE
