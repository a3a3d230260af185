SPECIFICATION Spec
CONSTANTS
  Wallets = {w1}
  WalletKey <- OneSpelling
  Resources = {r1}
  DefaultResource = r1
  AuthIds = {a1}
  NoAuth = NoAuth
  TxIds = {t0, t1, t2}
  NoTx = NoTx
  Payer <- PaidByOne
  Paid <- OneOrTwo
  Keys <- NoKeys
  ReceiptCap = 2
  TransactionCap = 3
  TTL = 1
  DayLength = 4
  GasCost = 1
  DefaultPolicy <- LimitTwo
  PolicyChoices <- NoPolicies
  Funds <- NoFaucet
  Amounts = {1}
  SaveOutcomes = {TRUE, FALSE}
  Submissions <- CliBodies
  ProofChoices <- AuthProofs
  OfficialPayer = w1
  Services <- OneService
  RecoverPrice = 1
  BaselineTx = t0
  MintBound = 0
  MaxClock = 1
  MaxRequests = 1
  w1 = w1
  w2 = w2
  r1 = r1
  r2 = r2
  t0 = t0
  t1 = t1
  t2 = t2
  a1 = a1
  a2 = a2
INVARIANT PromisesKept
INVARIANT LedgerUnique
PROPERTY ImplementsAuthorizations
