----------------------------- MODULE LedgerState -----------------------------
(***************************************************************************)
(* The durable state of the Go gateway (type State of go-core's main.go)   *)
(* as a record, and the pure functions on it that the handlers run inside  *)
(* Store.update: the spend policy, budget reservations, the transaction    *)
(* ledger, the sandbox balances and the normalisation done on reopening.   *)
(*                                                                         *)
(* Money is in whole cents, time in ticks; `now' is time.Now() of the      *)
(* handler.  An official transaction id stands for one settlement on the   *)
(* chain: Payer and Paid are what its Transfer event says.  Wallet names   *)
(* that differ in case only are taken to be addresses, where walletKey()   *)
(* and the EqualFold comparisons agree.                                    *)
(***************************************************************************)
EXTENDS Integers, Sequences, FiniteSets, FiniteSetsExt, Totals

CONSTANTS
  Wallets,         \* spellings of wallet names
  WalletKey,       \* the spelling walletKey() maps each spelling to
  Resources,       \* paid API paths
  DefaultResource, \* "/api/check-prompt"
  AuthIds,         \* ids of payment authorizations (reservations)
  NoAuth,          \* the empty authorization id
  TxIds,           \* ids of settlements on the chain
  NoTx,            \* the empty transaction id
  Payer, Paid,     \* payer and amount of each settlement
  Keys,            \* sandbox payments: an idempotency key binds all its fields
  ReceiptCap,      \* 250 in the code
  TransactionCap,  \* 1000 in the code
  TTL,             \* life of a reservation, 2 minutes in the code
  DayLength,       \* ticks in a UTC day
  GasCost,         \* sandbox gas of one settlement
  DefaultPolicy    \* policy of a wallet that has none stored

Policy == [enabled: BOOLEAN, maxPerCall: Nat, dailyLimit: Nat,
           resources: SUBSET Resources]
Status == {"active", "released", "expired", "committed"}
Reservation == [wallet: Wallets, resource: Resources, amount: Nat,
                status: Status, expires: Nat, tx: TxIds \cup {NoTx}]
Kind == {"official", "browser", "sandbox", "denied"}

(* `covered' is a history field: the entry was committed while its         *)
(* authorization still held the budget.                                    *)
Entry == [kind: Kind, tx: TxIds \cup {NoTx}, wallet: Wallets,
          resource: Resources, amount: Nat, day: Nat, covered: BOOLEAN]
Receipt == [key: Keys, wallet: Wallets, amount: Nat, day: Nat]

ASSUME WalletAssumption ==
  /\ WalletKey \in [Wallets -> Wallets]
  /\ \A w \in Wallets : WalletKey[WalletKey[w]] = WalletKey[w]
ASSUME ChainAssumption ==
  /\ Payer \in [TxIds -> Wallets]
  /\ Paid \in [TxIds -> Nat]
  /\ NoTx \notin TxIds
  /\ NoAuth \notin AuthIds
ASSUME KeyAssumption ==
  Keys \subseteq [req: {k.req : k \in Keys}, wallet: Wallets,
                  resource: Resources, price: Nat]
ASSUME BoundAssumption ==
  /\ ReceiptCap \in Nat \ {0} /\ TransactionCap \in Nat \ {0}
  /\ TTL \in Nat \ {0} /\ DayLength \in Nat \ {0} /\ GasCost \in Nat
  /\ DefaultPolicy \in Policy /\ DefaultResource \in Resources

-----------------------------------------------------------------------------

Put(f, k, v) == [x \in DOMAIN f \cup {k} |-> IF x = k THEN v ELSE f[x]]
SameWallet(v, w) == WalletKey[v] = WalletKey[w]
Day(now) == now \div DayLength

(* Mutant: the list is never cut.                                          *)
PrependUncut(items, item, cap) == <<item>> \o items

(* A list with the newest item first, cut at its cap.                      *)
Prepend(items, item, cap) ==
  [i \in 1 .. (IF Len(items) < cap THEN Len(items) + 1 ELSE cap) |->
     IF i = 1 THEN item ELSE items[i - 1]]

(* `minted' and `forgotten' are history: what the faucet ever gave, and    *)
(* the official transactions that fell off the end of the ledger.          *)
EmptyState ==
  [policies     |-> [w \in {} |-> DefaultPolicy],
   balances     |-> [w \in {} |-> [eth |-> 0, usdc |-> 0]],
   receipts     |-> <<>>,
   transactions |-> <<>>,
   settledKeys  |-> {},
   reservations |-> [a \in {} |-> NoTx],
   minted       |-> [w \in Wallets |-> 0],
   forgotten    |-> {}]

Official(e) == e.kind \in {"official", "browser"}
OfficialTxs(s) ==
  {s.transactions[i].tx : i \in {j \in DOMAIN s.transactions :
                                   Official(s.transactions[j])}}
(* The official settlements the ledger has ever recorded.                  *)
Known(s) == OfficialTxs(s) \cup s.forgotten

AppendTransaction(s, e) ==
  LET last == Len(s.transactions) IN
  [s EXCEPT
     !.transactions = Prepend(@, e, TransactionCap),
     !.forgotten = IF last >= TransactionCap /\ Official(s.transactions[last])
                     THEN @ \cup {s.transactions[last].tx} ELSE @]

DeniedEntry(w, r, x, now) ==
  [kind |-> "denied", tx |-> NoTx, wallet |-> w, resource |-> r, amount |-> x,
   day |-> Day(now), covered |-> FALSE]

-----------------------------------------------------------------------------
(* Spend policy.                                                           *)

PolicyOf(s, w) ==
  IF WalletKey[w] \in DOMAIN s.policies THEN s.policies[WalletKey[w]]
                                        ELSE DefaultPolicy

AmountsOf(items) == [i \in DOMAIN items |-> items[i].amount]

ReceiptSpend(s, w, day) ==
  Total(AmountsOf(s.receipts),
        {i \in DOMAIN s.receipts : /\ SameWallet(s.receipts[i].wallet, w)
                                   /\ s.receipts[i].day = day})

OfficialEntries(s, w, day) ==
  {i \in DOMAIN s.transactions :
     LET e == s.transactions[i] IN
     Official(e) /\ SameWallet(e.wallet, w) /\ e.day = day}
EntrySpend(s, entries) == Total(AmountsOf(s.transactions), entries)

(* Mutant: official payments are not counted.                              *)
DailyReceipts(s, w, now) == ReceiptSpend(s, w, Day(now))

DailySpend(s, w, now) ==
  ReceiptSpend(s, w, Day(now)) + EntrySpend(s, OfficialEntries(s, w, Day(now)))

HoldsBudget(r, now) == r.status = "active" /\ now < r.expires

PendingSpend(s, w, now) ==
  Total(AmountsOf(s.reservations),
        {a \in DOMAIN s.reservations :
           /\ HoldsBudget(s.reservations[a], now)
           /\ SameWallet(s.reservations[a].wallet, w)})

(* Mutant: budget promised to other authorizations is not counted.         *)
AllowedUnreserved(s, w, r, x, now) ==
  LET policy == PolicyOf(s, w) IN
  /\ policy.enabled
  /\ r \in policy.resources
  /\ x <= policy.maxPerCall
  /\ DailySpend(s, w, now) + x <= policy.dailyLimit

Allowed(s, w, r, x, now) ==
  LET policy == PolicyOf(s, w) IN
  /\ policy.enabled
  /\ r \in policy.resources
  /\ x <= policy.maxPerCall
  /\ DailySpend(s, w, now) + PendingSpend(s, w, now) + x <= policy.dailyLimit

-----------------------------------------------------------------------------
(* Reservations.                                                           *)

Expired(s, now) ==
  LET Lapsed(r) == r.status = "active" /\ ~HoldsBudget(r, now) IN
  [s EXCEPT !.reservations =
     [a \in DOMAIN s.reservations |->
        IF Lapsed(s.reservations[a])
          THEN [s.reservations[a] EXCEPT !.status = "expired"]
          ELSE s.reservations[a]]]

Reserved(s, a, w, r, x, now) ==
  [s EXCEPT !.reservations =
     Put(@, a, [wallet |-> w, resource |-> r, amount |-> x, status |-> "active",
                expires |-> now + TTL, tx |-> NoTx])]

WithStatus(s, a, status) == [s EXCEPT !.reservations[a].status = status]

(* Mutant: whatever became of the authorization, it is released.           *)
ReleasedAlways(s, a) == WithStatus(s, a, "released")

Released(s, a) ==
  IF s.reservations[a].status = "active" THEN WithStatus(s, a, "released")
                                         ELSE s

(* A proof as the gateway reads it from the latest-proof file.             *)
Proof == [tx: TxIds, payer: Wallets, amount: Nat, resource: Resources,
          auth: AuthIds \cup {NoAuth}, day: Nat]

(* Mutant: any successful transfer of the payer will do.                   *)
VerifiedPayer(p) == SameWallet(p.payer, Payer[p.tx])

(* The live Base Sepolia check: the receipt has the transfer the proof     *)
(* claims.                                                                 *)
Verified(p) ==
  /\ SameWallet(p.payer, Payer[p.tx])
  /\ p.amount = Paid[p.tx]

Matches(r, p) ==
  /\ SameWallet(r.wallet, p.payer)
  /\ r.resource = p.resource
  /\ r.amount = p.amount

OfficialEntry(kind, p, covered) ==
  [kind |-> kind, tx |-> p.tx, wallet |-> p.payer, resource |-> p.resource,
   amount |-> p.amount, day |-> p.day, covered |-> covered]

(* Mutant: only the same handler's entries are looked at.                  *)
RecordedPerKind(s, kind, p, covered) ==
  IF \E i \in DOMAIN s.transactions :
       s.transactions[i].tx = p.tx /\ s.transactions[i].kind = kind
  THEN s
  ELSE AppendTransaction(s, OfficialEntry(kind, p, covered))

RecordedOnce(s, kind, p, covered) ==
  IF p.tx \in OfficialTxs(s) THEN s
  ELSE AppendTransaction(s, OfficialEntry(kind, p, covered))

Committed(s, a, p, now) ==
  RecordedOnce([s EXCEPT !.reservations[a].status = "committed",
                         !.reservations[a].tx = p.tx],
               "official", p, HoldsBudget(s.reservations[a], now))

-----------------------------------------------------------------------------
(* Sandbox balances.                                                       *)

BalanceOf(s, w) ==
  IF w \in DOMAIN s.balances THEN s.balances[w] ELSE [eth |-> 0, usdc |-> 0]

Minted(s, w, eth, usdc) ==
  [s EXCEPT !.balances = Put(@, w, [eth  |-> BalanceOf(s, w).eth + eth,
                                    usdc |-> BalanceOf(s, w).usdc + usdc]),
            !.minted[w] = @ + usdc]

WithPolicy(s, w, policy) ==
  [s EXCEPT !.policies = Put(@, w, policy),
            !.balances = IF w \in DOMAIN @ THEN @ ELSE Put(@, w, BalanceOf(s, w))]

HasReceipt(s, k) == \E i \in DOMAIN s.receipts : s.receipts[i].key = k

CanPay(s, k, now) ==
  /\ Allowed(s, k.wallet, k.resource, k.price, now)
  /\ BalanceOf(s, k.wallet).eth >= GasCost
  /\ BalanceOf(s, k.wallet).usdc >= k.price

(* Mutant: the key is indexed, the receipt is not stored.                  *)
SettledUnreceipted(s, k, now) ==
  LET b == BalanceOf(s, k.wallet) IN
  [s EXCEPT !.balances = Put(@, k.wallet, [eth  |-> b.eth - GasCost,
                                           usdc |-> b.usdc - k.price]),
            !.settledKeys = @ \cup {k}]

Settled(s, k, now) ==
  LET b == BalanceOf(s, k.wallet)
      paid == [s EXCEPT
        !.balances = Put(@, k.wallet, [eth  |-> b.eth - GasCost,
                                       usdc |-> b.usdc - k.price]),
        !.receipts = Prepend(@, [key |-> k, wallet |-> k.wallet,
                                 amount |-> k.price, day |-> Day(now)],
                             ReceiptCap),
        !.settledKeys = @ \cup {k}]
  IN AppendTransaction(paid,
       [kind |-> "sandbox", tx |-> NoTx, wallet |-> k.wallet,
        resource |-> k.resource, amount |-> k.price, day |-> Day(now),
        covered |-> FALSE])

-----------------------------------------------------------------------------
(* OpenStore: the saved file decoded and brought to canonical wallet names.*)

Normalized(s) ==
  LET Spellings(w) == {v \in DOMAIN s.balances : WalletKey[v] = w}
      Canonical(x) == [x EXCEPT !.wallet = WalletKey[x.wallet]]
  IN
  [s EXCEPT
     !.balances = [w \in {WalletKey[v] : v \in DOMAIN s.balances} |->
        [eth  |-> Max({s.balances[v].eth  : v \in Spellings(w)}),
         usdc |-> Max({s.balances[v].usdc : v \in Spellings(w)})]],
     !.transactions =
        [i \in DOMAIN s.transactions |-> Canonical(s.transactions[i])],
     !.receipts = [i \in DOMAIN s.receipts |-> Canonical(s.receipts[i])],
     !.reservations =
        [a \in DOMAIN s.reservations |-> Canonical(s.reservations[a])]]
-----------------------------------------------------------------------------
(* What is true of one state, and of a state and a later one.              *)

StoreTypeOK(s) ==
  /\ s = [policies |-> s.policies, balances |-> s.balances,
          receipts |-> s.receipts, transactions |-> s.transactions,
          settledKeys |-> s.settledKeys, reservations |-> s.reservations,
          minted |-> s.minted, forgotten |-> s.forgotten]
  /\ s.policies \in [DOMAIN s.policies -> Policy]
  /\ DOMAIN s.policies \subseteq Wallets
  /\ s.receipts \in Seq(Receipt) /\ Len(s.receipts) <= ReceiptCap
  /\ s.transactions \in Seq(Entry) /\ Len(s.transactions) <= TransactionCap
  /\ s.settledKeys \subseteq Keys
  /\ s.reservations \in [DOMAIN s.reservations -> Reservation]
  /\ DOMAIN s.reservations \subseteq AuthIds
  /\ s.minted \in [Wallets -> Nat]
  /\ s.forgotten \subseteq TxIds

Unique(s) ==
  \A i, j \in DOMAIN s.transactions :
    /\ i # j /\ Official(s.transactions[i]) /\ Official(s.transactions[j])
    => s.transactions[i].tx # s.transactions[j].tx

EntriesTrue(s) ==
  \A i \in DOMAIN s.transactions :
    LET e == s.transactions[i] IN
    Official(e) => /\ e.tx \in TxIds
                   /\ SameWallet(e.wallet, Payer[e.tx])
                   /\ e.amount = Paid[e.tx]
Bound(s) ==
  \A a \in DOMAIN s.reservations :
    LET r == s.reservations[a] IN
    IF r.status = "committed"
      THEN /\ r.tx \in Known(s) \cap TxIds
           /\ SameWallet(r.wallet, Payer[r.tx])
           /\ r.amount = Paid[r.tx]
      ELSE r.tx = NoTx

UsdcOf(balances) == [v \in DOMAIN balances |-> balances[v].usdc]
PricesOf(keys) == [k \in keys |-> k.price]

(* What the spellings of a wallet hold, have paid for settled keys, and    *)
(* were given by the faucet.                                               *)
Held(s, w) == Total(UsdcOf(s.balances), {v \in DOMAIN s.balances : SameWallet(v, w)})
SettledFor(s, w) ==
  Total(PricesOf(s.settledKeys), {k \in s.settledKeys : SameWallet(k.wallet, w)})
Given(s, w) == Total(s.minted, {v \in Wallets : SameWallet(v, w)})

(* The faucet was only asked for the spelling that walletKey() keeps.      *)
GivenCanonically(s, w) ==
  \A v \in Wallets : SameWallet(v, w) /\ s.minted[v] > 0 => v = WalletKey[v]

(* No balance is negative; a wallet holds and has spent what the faucet    *)
(* gave it, or less when reopening merged spellings that the faucet gave   *)
(* to, and never more.                                                     *)
Conserved(s) ==
  /\ \A v \in DOMAIN s.balances : s.balances[v].eth >= 0 /\ s.balances[v].usdc >= 0
  /\ \A w \in Wallets :
       /\ Held(s, w) + SettledFor(s, w) <= Given(s, w)
       /\ GivenCanonically(s, w) => Held(s, w) + SettledFor(s, w) = Given(s, w)

(* What counts against a daily limit that no operator lowers: settlements  *)
(* committed while their authorization held budget, sandbox payments, and  *)
(* the budget still held.                                                  *)
CoveredEntries(s, w, day) ==
  {i \in OfficialEntries(s, w, day) : s.transactions[i].covered}
CoveredSpend(s, w, now) ==
  ReceiptSpend(s, w, Day(now)) + EntrySpend(s, CoveredEntries(s, w, Day(now)))
    + PendingSpend(s, w, now)
WithinBudget(s, now) ==
  \A w \in Wallets : CoveredSpend(s, w, now) <= PolicyOf(s, w).dailyLimit

(* Where an authorization of each status may go.                           *)
After(status) ==
  CASE status = "active"    -> Status
    [] status = "released"  -> {"released", "committed"}
    [] status = "expired"   -> {"expired", "committed"}
    [] status = "committed" -> {"committed"}

Forward(r, n) ==
  /\ n.status \in After(r.status)
  /\ r.status = "committed" => n.tx = r.tx
  /\ SameWallet(n.wallet, r.wallet)
  /\ n.resource = r.resource /\ n.amount = r.amount /\ n.expires = r.expires

AuthorizationsExtend(f, g) ==
  \A a \in DOMAIN f : a \in DOMAIN g /\ Forward(f[a], g[a])

(* u is s after more updates: nothing that s promised is taken back.       *)
Extends(s, u) ==
  /\ AuthorizationsExtend(s.reservations, u.reservations)
  /\ Known(s) \subseteq Known(u)
  /\ s.settledKeys \subseteq u.settledKeys
=============================================================================
