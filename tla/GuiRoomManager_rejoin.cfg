CONSTANTS
  UserId = {u1, u2, u3}
  ComId = {com}
  Attr = {0, 1}
  CreateReq <- MCCreateReq
  QuickReq <- MCQuickReq
  SearchReq <- MCSearchReq
  MaxRoomId = 2
  AnyUser = u1
SPECIFICATION Spec
INVARIANT RejoinNever
