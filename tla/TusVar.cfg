CONSTANTS
  UserId = {u1, u2}
  VUser = {v}
  Slot = {s, t}
  Deletable = {u2}
  DeletedUser = deleted
  None = none
  Value = {1}
  OpeType = {"=="}
  MaxVar = 1
  MaxTime = 2
  Date = {1}
SYMMETRY Symmetry
SPECIFICATION VarSpec
INVARIANTS VarTypeOK OwnSlotsPrivate RepliesTellOutcome
PROPERTIES ConditionalVarDates
CHECK_DEADLOCK FALSE
