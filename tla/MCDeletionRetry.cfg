CONSTANTS
  a1 = a1  a2 = a2  alice = alice
  None = None
  t1 = t1
  Member = {a1, a2}
  Key <- MCKey
  Account <- MCAccount
  Text = {t1}
  Author <- MCAuthor
  Rosters <- MCRosters
  Ops = 1
  Budgets <- MCBudgets
SPECIFICATION Spec
PROPERTIES CancelledNotSent
CHECK_DEADLOCK FALSE
