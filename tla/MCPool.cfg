SPECIFICATION PoolFairSpec
CONSTANTS
  N = 3
  Requests <- ThreeRequests
  Payloads = {p1, p2}
  Payload <- Presented
  Checks = {c1}
  NoPayload = NoPayload
  r1 = r1
  r2 = r2
  r3 = r3
  c1 = c1
  p1 = p1
  p2 = p2
INVARIANT PoolTypeOK
INVARIANT VerifierSettles
INVARIANT FailsExhausted
INVARIANT RoutesAnswered
PROPERTY CallsEnd
CONSTRAINT TwoAtATime
