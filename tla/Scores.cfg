CONSTANTS
  UserId = {1, 2, 3}
  CharId = {0}
  Score = {1, 2}
  RankLimit = 2
  Ascending = FALSE
  ForceUpdate = FALSE
  Uploader = {1, 2}
  Deletable = {3}
  MaxTime = 1
  MaxDataId = 2
SPECIFICATION Spec
INVARIANTS TypeOK LookupExact RankingOrdered CacheCurrent BestRanked DataOwned
CHECK_DEADLOCK FALSE
