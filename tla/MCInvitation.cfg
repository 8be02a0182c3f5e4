CONSTANTS
  j1 = j1  j2 = j2
  None = None
  Joiner = {j1, j2}
  Tokens = 1
  Accepts = 1
  Budgets <- AnyTwo
SPECIFICATION FairSpec
INVARIANTS TypeOK OneCounterpart
PROPERTIES AdmissionByStandingLink HandshakeCompletes
CHECK_DEADLOCK FALSE
