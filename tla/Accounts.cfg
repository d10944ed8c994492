CONSTANTS
  Name = {n1, n2}
  Fold <- MCFold
  Email = {e1}
  Task = {t1, t2}
  Cleaner = Cleaner
  MaxId = 2
  MaxCode = 2
  None = None
SPECIFICATION Spec
SYMMETRY Symmetry
INVARIANTS OnlineHasAccount ResetOnce
PROPERTIES UsedAccountsKept
