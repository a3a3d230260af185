SPECIFICATION FairSpec
CONSTANTS
  Wallets = {w1}
  WalletKey <- OneSpelling
  Resources = {r1}
  DefaultResource = r1
  AuthIds = {a1}
  NoAuth = NoAuth
  TxIds = {t0, t1}
  NoTx = NoTx
  Payer <- PaidByOne
  Paid <- OneCent
  Keys <- Nothing
  ReceiptCap = 1
  TransactionCap = 3
  TTL = 1
  DayLength = 4
  GasCost = 1
  DefaultPolicy <- LimitTwo
  PolicyChoices <- Nothing
  Funds <- Nothing
  Amounts = {1}
  SaveOutcomes = {TRUE, FALSE}
  Submissions <- LaneBodies
  ProofChoices <- LaneProofs
  OfficialPayer = w1
  Services <- Nothing
  RecoverPrice = 9
  BaselineTx = t0
  MintBound = 0
  MaxClock = 2
  MaxRequests = 1
  CliWallet = w1
  CliServices <- OneService
  w1 = w1
  r1 = r1
  t0 = t0
  t1 = t1
  t2 = t2
  a1 = a1
  a2 = a2
INVARIANT LaneTypeOK
INVARIANT PaidUnderAuthorization
INVARIANT HeldForItsTime
INVARIANT OwnSettlement
PROPERTY FreedForGood
PROPERTY Reconciled
