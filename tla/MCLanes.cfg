SPECIFICATION Spec
CONSTANTS
  Wallets = {w1}
  WalletKey <- OneSpelling
  Resources = {r1}
  DefaultResource = r1
  AuthIds = {a1}
  NoAuth = NoAuth
  TxIds = {t0, t1}
  NoTx = NoTx
  Payer <- PaidByOne
  Paid <- OneCent
  Keys <- NoKeys
  ReceiptCap = 2
  TransactionCap = 2
  TTL = 1
  DayLength = 4
  GasCost = 1
  DefaultPolicy <- LimitOne
  PolicyChoices <- NoPolicies
  Funds <- NoFaucet
  Amounts = {1}
  SaveOutcomes = {TRUE}
  Submissions <- NoBodies
  ProofChoices <- NoProofs
  OfficialPayer = w1
  Services <- OneService
  RecoverPrice = 9
  BaselineTx = t0
  MintBound = 0
  MaxClock = 2
  MaxRequests = 1
  w1 = w1
  w2 = w2
  r1 = r1
  r2 = r2
  t0 = t0
  t1 = t1
  t2 = t2
  a1 = a1
  a2 = a2
INVARIANT DailyLimitKept
