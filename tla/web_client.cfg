\* A page and the command line on two requests: pages share no request.
SPECIFICATION Spec
CONSTANTS
  Pages = {"p1"}
  Requests = {"r1", "r2"}
  Inputs = {"approved", "rejected", "invalid"}
  Commands = TRUE
  Faults = TRUE
  MaxCalls = 4
INVARIANTS
  TypeOK
  GateIsCurrent
  NoAnswerBesideGate
  DecidedAsSeen
  DisabledWhileWaiting
\* Nobody has to ask or to decide.
CHECK_DEADLOCK FALSE
