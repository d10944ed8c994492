CONSTANTS
  UserId = {u1, u2}
  VUser = {v}
  Slot = {s}
  Deletable = {u1, u2}
  DeletedUser = deleted
  None = none
  MaxTime = 1
  Date = {0, 1}
  MaxDataId = 2
SYMMETRY Symmetry
SPECIFICATION Spec
INVARIANTS DataOwned ReadFindsFile
PROPERTIES ConditionalKeepsDates
