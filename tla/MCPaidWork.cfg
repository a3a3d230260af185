SPECIFICATION PaidFairSpec
CONSTANTS
  Elements <- Names
  Orders = {o1}
  Requests <- Asked
  Drafts <- Variants
  NoProduct = NoProduct
  MaxAttempts = 4
INVARIANT PaidTypeOK
INVARIANT SourceCovered
INVARIANT Disclosed
INVARIANT RefusedWhenEmptied
PROPERTY WritingEnds
CHECK_DEADLOCK FALSE
