SPECIFICATION WorkFairSpec
CONSTANTS
  Prompts = {p1, p2}
  WorkIds = {w1, w2}
  NoWork = NoWork
  JobIds = {j1, j2}
  Payments = {x1, x2}
  NoPayment = NoPayment
  WorkTTL = 1
  JobTTL = 2
  JobTimeout = 1
  MaxClock = 3
  p1 = p1
  p2 = p2
  x1 = x1
  x2 = x2
  w1 = w1
  w2 = w2
  j1 = j1
  j2 = j2
INVARIANT WorkTypeOK
INVARIANT PaidOnce
INVARIANT OnePreparation
PROPERTY FreshWhenPaid
PROPERTY JobsEnd
CONSTRAINT InOrder
