CONSTANTS
  UserId = {u1, u2}
  VUser = {v}
  Slot = {s}
  Deletable = {u2}
  DeletedUser = deleted
  None = none
  MaxTime = 1
  Date = {0, 1}
  MaxDataId = 2
SPECIFICATION Spec
INVARIANT IdsDistinct
