CONSTANTS
  a1 = a1  a2 = a2  b1 = b1  b2 = b2
  None = None
  Device = {a1, a2, b1, b2}
  UserOf <- MCUser
  Rank <- MCRank
  ClosedCap = 1
  MaxReservations = 2
  MaxEnds = 1
  MaxCalls = 2
  Plans <- MCPlans
SPECIFICATION Spec
INVARIANTS TypeOK OneReceiver NoRingAfterEnd CrossCallOneYields SequencesUnique LoggedOnce
PROPERTIES SelectedPairKeepsCall
CHECK_DEADLOCK FALSE
