CONSTANTS
  a1 = a1  a2 = a2  b1 = b1  alice = alice  bob = bob
  None = None
  t1 = t1
  Member = {a1, a2, b1}
  Key <- MCKey
  Account <- MCAccount
  Text = {t1}
  Author <- MCAuthor
  Rosters <- MCRosters
  Ops = 1
  Budgets <- MCBudgets
SPECIFICATION Spec
INVARIANTS ReceiptIsDurable RestIsAgreement
PROPERTIES ErasedForGood RevokedNotConfirmed
CHECK_DEADLOCK FALSE
