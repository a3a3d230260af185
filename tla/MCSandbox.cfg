SPECIFICATION Spec
CONSTANTS
  Wallets = {w1, w2}
  WalletKey <- TwoSpellings
  Resources = {r1}
  DefaultResource = r1
  AuthIds = {a1}
  NoAuth = NoAuth
  TxIds = {t0}
  NoTx = NoTx
  Payer <- PaidByOne
  Paid <- OneCent
  Keys <- ThreeKeys
  ReceiptCap = 2
  TransactionCap = 1
  TTL = 1
  DayLength = 1
  GasCost = 1
  DefaultPolicy <- LimitMixed
  PolicyChoices <- NoPolicies
  Funds <- Faucet
  Amounts = {1}
  SaveOutcomes = {TRUE, FALSE}
  Submissions <- NoBodies
  ProofChoices <- NoProofs
  OfficialPayer = w1
  Services <- NoServices
  RecoverPrice = 1
  BaselineTx = t0
  MintBound = 2
  MaxClock = 1
  MaxRequests = 0
  w1 = w1
  w2 = w2
  r1 = r1
  r2 = r2
  t0 = t0
  t1 = t1
  t2 = t2
  a1 = a1
  a2 = a2
INVARIANT TypeOK
INVARIANT MoneyConserved
INVARIANT RetriesAnswered
INVARIANT BudgetKept
