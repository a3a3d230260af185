SPECIFICATION FilesFairSpec
CONSTANTS
  TxIds = {t1, t2}
  NoTx = NoTx
  Handlers = {h1}
  Runs = {c1}
  MaxFaults = 2
  t1 = t1
  t2 = t2
  h1 = h1
  c1 = c1
INVARIANT FilesTypeOK
INVARIANT NothingInvented
INVARIANT CountedOnce
INVARIANT AnsweredCounted
INVARIANT FailureCost
PROPERTY HistoryKept
PROPERTY LatestRecorded
