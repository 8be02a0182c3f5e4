CONSTANTS
  d = d  g1 = g1  g2 = g2  dm = dm  group = group
  None = None
  Offer = {d, g1, g2}
  Dm = {d}
  Conv <- MCConv
  Member <- MCMember
  Signers = 2
  Budgets <- AnyTwo
SPECIFICATION Spec
INVARIANTS TypeOK AcceptedIsKept AdmittedCanJoin RetryOffered
PROPERTY ResolvedStaysResolved
CHECK_DEADLOCK FALSE
