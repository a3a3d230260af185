SPECIFICATION PaidSpec
CONSTANTS
  Elements <- Names
  Orders = {o1}
  Requests <- Asked
  Drafts <- Variants
  NoProduct = NoProduct
  MaxAttempts = 4
INVARIANT OfferedIsReleased
CHECK_DEADLOCK FALSE
