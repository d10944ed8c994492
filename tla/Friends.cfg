CONSTANTS
  UserId = {1, 2, 3}
  Acquainted <- Neighbours
  Deletable = {2}
SPECIFICATION Spec
INVARIANTS ListsCurrent ConsentGiven
