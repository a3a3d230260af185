---------------------------- MODULE GatewayStore ----------------------------
(***************************************************************************)
(* The Go gateway's durable store and every handler that changes it.       *)
(*                                                                         *)
(* Store.update runs a closure on the in-memory state under the lock and   *)
(* then saves it.  A failed save leaves the memory ahead of the file; a    *)
(* crash goes back to the file.  Handlers that read the proof file or the  *)
(* chain first are two steps: what they read may be stale when they enter  *)
(* the lock.  The proof file is also written from outside, by              *)
(* official-client.                                                        *)
(***************************************************************************)
EXTENDS LedgerState

CONSTANTS
  PolicyChoices,  \* policies an operator may set
  Funds,          \* faucet requests: records [eth, usdc]
  Amounts,        \* prices a client may reserve
  Submissions,    \* record and reconcile bodies: [mode, auth, bootstrap]
  ProofChoices,   \* what clients write: proofs without their day
  OfficialPayer,  \* the configured browser-wallet payer
  Services,       \* official routes: records [resource, price]
  RecoverPrice,   \* "0.01", the only price recovery by hash accepts
  BaselineTx,     \* settlement embedded in the binary
  SaveOutcomes,   \* BOOLEAN, or {TRUE} in an instance where no save fails
  MintBound,      \* bound: USDC the faucet gives one wallet
  MaxClock,       \* bound: ticks
  MaxRequests     \* bound: record/reconcile/recover requests in flight

VARIABLES
  mem,        \* Store.state
  disk,       \* the saved state file
  clock,      \* time.Now()
  proofFile,  \* the latest-proof file, Unreadable when absent or torn
  requests,   \* requests that have read their proof but not entered the lock
  walletPay,  \* the wallet payment holding walletPayMu
  replies     \* history: what 2xx answers have promised

vars == <<mem, disk, clock, proofFile, requests, walletPay, replies>>

Unreadable == [tx |-> NoTx]
Idle == [phase |-> "idle"]
Modes == {"record", "reconcile", "verify", "recover"}
Request == [mode: Modes, auth: AuthIds \cup {NoAuth}, bootstrap: BOOLEAN,
            proof: Proof]
Sent == [phase: {"sent"}, resource: Resources, price: Nat, tx: {NoTx}, day: Nat,
         kept: {FALSE}]
Ledgered == [phase: {"ledgered"}, resource: Resources, price: Nat, tx: TxIds,
             day: Nat, kept: BOOLEAN]
Payment == Sent \cup Ledgered

Promises == [granted: SUBSET AuthIds, freed: SUBSET AuthIds,
             recorded: SUBSET TxIds, receipted: SUBSET Keys]

ASSUME GatewayAssumption ==
  /\ PolicyChoices \subseteq Policy
  /\ Funds \subseteq [eth: Nat, usdc: Nat]
  /\ Amounts \subseteq Nat
  /\ SaveOutcomes \subseteq BOOLEAN
  /\ Submissions \subseteq [mode: {"record", "reconcile"},
                            auth: AuthIds \cup {NoAuth}, bootstrap: BOOLEAN]
  /\ ProofChoices \subseteq [tx: TxIds, payer: Wallets, amount: Nat,
                             resource: Resources, auth: AuthIds \cup {NoAuth}]
  /\ OfficialPayer \in Wallets
  /\ Services \subseteq [resource: Resources, price: Nat]
  /\ RecoverPrice \in Nat /\ BaselineTx \in TxIds
  /\ MintBound \in Nat /\ MaxClock \in Nat /\ MaxRequests \in Nat

Init ==
  /\ mem = EmptyState
  /\ disk = EmptyState
  /\ clock = 0
  /\ proofFile = Unreadable
  /\ requests = {}
  /\ walletPay = Idle
  /\ replies = [granted |-> {}, freed |-> {}, recorded |-> {}, receipted |-> {}]

(* Store.update for a closure that returned nil and left the state s.      *)
Update(s, saved) ==
  /\ mem' = s
  /\ disk' = IF saved THEN s ELSE disk

(* Mutant: the answer is written before the save is known to have worked.  *)
PromiseEarly(field, x, saved) ==
  replies' = [replies EXCEPT ![field] = @ \cup {x}]

Promise(field, x, saved) ==
  replies' = IF saved THEN [replies EXCEPT ![field] = @ \cup {x}] ELSE replies

-----------------------------------------------------------------------------
(* Policies, faucet and the sandbox payments.                              *)

SetPolicy(w, policy, saved) ==
  /\ Update(WithPolicy(mem, WalletKey[w], policy), saved)
  /\ UNCHANGED <<clock, proofFile, requests, walletPay, replies>>

Mint(w, f, saved) ==
  /\ mem.minted[w] + f.usdc <= MintBound
  /\ Update(Minted(mem, w, f.eth, f.usdc), saved)
  /\ UNCHANGED <<clock, proofFile, requests, walletPay, replies>>

(* The request's key was settled before: the prior receipt is returned.    *)
SettleReplay(k, saved) ==
  /\ k \in mem.settledKeys /\ HasReceipt(mem, k)
  /\ Update(mem, saved)
  /\ Promise("receipted", k, saved)
  /\ UNCHANGED <<clock, proofFile, requests, walletPay>>

(* Mutant: the idempotency index is not consulted.                         *)
SettlePaidAgain(k, saved) ==
  /\ CanPay(mem, k, clock)
  /\ Update(Settled(mem, k, clock), saved)
  /\ Promise("receipted", k, saved)
  /\ UNCHANGED <<clock, proofFile, requests, walletPay>>

SettlePaid(k, saved) ==
  /\ k \notin mem.settledKeys /\ CanPay(mem, k, clock)
  /\ Update(Settled(mem, k, clock), saved)
  /\ Promise("receipted", k, saved)
  /\ UNCHANGED <<clock, proofFile, requests, walletPay>>

SettleDenied(k, saved) ==
  /\ k \notin mem.settledKeys /\ ~CanPay(mem, k, clock)
  /\ Update(AppendTransaction(mem, DeniedEntry(k.wallet, k.resource, k.price,
                                               clock)), saved)
  /\ UNCHANGED <<clock, proofFile, requests, walletPay, replies>>

(* A bad signature, or no route that the policy admits.                    *)
RecordDenied(k, saved) ==
  /\ Update(AppendTransaction(mem, DeniedEntry(k.wallet, k.resource, k.price,
                                               clock)), saved)
  /\ UNCHANGED <<clock, proofFile, requests, walletPay, replies>>

(* Planning and preparing work appends to the audit list, which is not     *)
(* modelled, and so saves whatever the memory holds.                       *)
RecordWorkAudit(saved) ==
  /\ Update(mem, saved)
  /\ UNCHANGED <<clock, proofFile, requests, walletPay, replies>>

-----------------------------------------------------------------------------
(* Authorizations of the official lane.                                    *)

Fresh(a) == a \notin DOMAIN mem.reservations \cup DOMAIN disk.reservations

Reserve(a, w, r, x, saved) ==
  LET s == Expired(mem, clock) IN
  /\ Fresh(a) /\ Allowed(s, w, r, x, clock)
  /\ Update(Reserved(s, a, w, r, x, clock), saved)
  /\ Promise("granted", a, saved)
  /\ UNCHANGED <<clock, proofFile, requests, walletPay>>

ReserveDenied(w, r, x, saved) ==
  LET s == Expired(mem, clock) IN
  /\ ~Allowed(s, w, r, x, clock)
  /\ Update(s, saved)
  /\ UNCHANGED <<clock, proofFile, requests, walletPay, replies>>

Release(a, saved) ==
  LET s == Released(mem, a) IN
  /\ a \in DOMAIN mem.reservations
  /\ Update(s, saved)
  /\ Promise("freed", a, saved /\ s.reservations[a].status = "released")
  /\ UNCHANGED <<clock, proofFile, requests, walletPay>>

(* An unreadable proof file stands for the settlement built into the       *)
(* binary, which carries no plan, no authorization and no date of its own. *)
ProofRead ==
  IF proofFile = Unreadable
    THEN [tx |-> BaselineTx, payer |-> Payer[BaselineTx],
          amount |-> Paid[BaselineTx], resource |-> DefaultResource,
          auth |-> NoAuth, day |-> Day(clock)]
    ELSE proofFile

(* The proof is read and checked against the chain before the lock.        *)
(* Reconciling trusts the authorization the proof carries and refuses a    *)
(* different one; recording uses the caller's.                             *)
BeginRecord(body) ==
  LET p == ProofRead
      carried == body.mode = "reconcile" /\ p.auth # NoAuth
  IN
  /\ Cardinality(requests) < MaxRequests
  /\ Verified(p)
  /\ carried => body.auth \in {NoAuth, p.auth}
  /\ requests' = requests \cup
       {[mode |-> body.mode, auth |-> IF carried THEN p.auth ELSE body.auth,
         bootstrap |-> body.bootstrap, proof |-> p]}
  /\ UNCHANGED <<mem, disk, clock, proofFile, walletPay, replies>>

Recording(q) == q \in requests /\ q.mode \in {"record", "reconcile"}
AlreadyRecorded(q) == q.proof.tx \in OfficialTxs(mem)
Reservable(q) ==
  /\ ~q.bootstrap /\ q.auth \in DOMAIN mem.reservations
  /\ Matches(mem.reservations[q.auth], q.proof)

(* Mutant: the time is compared the wrong way round.                       *)
LapsesEarly(q) ==
  /\ Reservable(q) /\ q.mode = "record"
  /\ mem.reservations[q.auth].status = "active"
  /\ clock < mem.reservations[q.auth].expires

Lapses(q) ==
  /\ Reservable(q) /\ q.mode = "record"
  /\ mem.reservations[q.auth].status = "active"
  /\ clock > mem.reservations[q.auth].expires

(* Mutant: reconciling commits a committed authorization again.            *)
CommittableAgain(q) ==
  /\ Reservable(q) /\ ~Lapses(q)
  /\ q.mode = "record" => mem.reservations[q.auth].status = "active"

(* Mutant: reconciling gives up on an authorization that has expired.      *)
CommittableLive(q) ==
  /\ Reservable(q) /\ ~Lapses(q)
  /\ mem.reservations[q.auth].status = "active"
  /\ clock < mem.reservations[q.auth].expires

Committable(q) ==
  /\ Reservable(q) /\ ~Lapses(q)
  /\ mem.reservations[q.auth].status \in
       IF q.mode = "reconcile" THEN {"active", "released", "expired"} ELSE {"active"}

(* Nothing is left to do: the transaction is already bound or recorded.    *)
RecordNothing(q, saved) ==
  /\ Recording(q) /\ ~q.bootstrap
  /\ \/ q.auth \notin DOMAIN mem.reservations /\ AlreadyRecorded(q)
     \/ /\ Reservable(q)
        /\ mem.reservations[q.auth].status = "committed"
        /\ mem.reservations[q.auth].tx = q.proof.tx
  /\ Update(mem, saved)
  /\ Promise("recorded", q.proof.tx, saved)
  /\ requests' = requests \ {q}
  /\ UNCHANGED <<clock, proofFile, walletPay>>

RecordCommit(q, saved) ==
  /\ Recording(q) /\ Committable(q)
  /\ Update(Committed(mem, q.auth, q.proof, clock), saved)
  /\ Promise("recorded", q.proof.tx, saved)
  /\ requests' = requests \ {q}
  /\ UNCHANGED <<clock, proofFile, walletPay>>

RecordBootstrap(q, saved) ==
  /\ Recording(q) /\ q.bootstrap
  /\ Update(RecordedOnce(mem, "official", q.proof, FALSE), saved)
  /\ Promise("recorded", q.proof.tx, saved)
  /\ requests' = requests \ {q}
  /\ UNCHANGED <<clock, proofFile, walletPay>>

(* The closure expires the reservation and returns an error: no save.      *)
RecordLapsed(q) ==
  /\ Recording(q) /\ Lapses(q)
  /\ mem' = WithStatus(mem, q.auth, "expired")
  /\ requests' = requests \ {q}
  /\ UNCHANGED <<disk, clock, proofFile, walletPay, replies>>

(* Any other answer of the closure, or the client going away before the    *)
(* handler enters it, leaves the store alone.                              *)
DropRequest(q) ==
  /\ q \in requests
  /\ requests' = requests \ {q}
  /\ UNCHANGED <<mem, disk, clock, proofFile, walletPay, replies>>

-----------------------------------------------------------------------------
(* Browser-wallet payments.                                                *)

BeginWalletPay(svc) ==
  /\ walletPay = Idle
  /\ Allowed(mem, OfficialPayer, svc.resource, svc.price, clock)
  /\ walletPay' = [phase |-> "sent", resource |-> svc.resource,
                   price |-> svc.price, tx |-> NoTx, day |-> Day(clock),
                   kept |-> FALSE]
  /\ UNCHANGED <<mem, disk, clock, proofFile, requests, replies>>

WalletProof(t, w, x, r, day) ==
  [tx |-> t, payer |-> w, amount |-> x, resource |-> r, auth |-> NoAuth,
   day |-> day]

(* The official server answered with the settlement of the signed payment  *)
(* and released the committed work.  The result of the save is ignored;    *)
(* `kept' remembers it.                                                    *)
WalletSettled(t, saved) ==
  /\ walletPay.phase = "sent"
  /\ SameWallet(Payer[t], OfficialPayer) /\ Paid[t] = walletPay.price
  /\ Update(RecordedOnce(mem, "browser",
                WalletProof(t, OfficialPayer, walletPay.price,
                            walletPay.resource, Day(clock)), FALSE), saved)
  /\ walletPay' = [walletPay EXCEPT !.phase = "ledgered", !.tx = t,
                              !.day = Day(clock), !.kept = saved]
  /\ UNCHANGED <<clock, proofFile, requests, replies>>

(* The work audit saves the store again; reconcileBrowserTransaction then  *)
(* promotes the proof, or fails, and the answer is a 200 that says         *)
(* durable_spend_recorded either way.  It counts as a promise when either  *)
(* save worked; when both failed it says so all the same, and nothing is   *)
(* on the disk.                                                            *)
WalletPromoted(promoted, saved) ==
  LET p == WalletProof(walletPay.tx, OfficialPayer, walletPay.price,
                       walletPay.resource, walletPay.day)
  IN
  /\ walletPay.phase = "ledgered"
  /\ Update(mem, saved)
  /\ promoted => Verified(p)
  /\ proofFile' = IF promoted THEN p ELSE proofFile
  /\ walletPay' = Idle
  /\ Promise("recorded", walletPay.tx, saved \/ walletPay.kept)
  /\ UNCHANGED <<clock, requests>>

(* A refusal, no answer, or an answer without the committed work: nothing  *)
(* enters the ledger, whatever happened on the chain.                      *)
WalletAbandoned ==
  /\ walletPay.phase = "sent"
  /\ walletPay' = Idle
  /\ UNCHANGED <<mem, disk, clock, proofFile, requests, replies>>

BrowserEntries == {e \in {mem.transactions[i] : i \in DOMAIN mem.transactions} :
                     e.kind = "browser"}

(* The settlement to recover: the latest browser entry of the ledger, and  *)
(* only without one the transaction the caller names.                      *)
RecoveryProofs ==
  IF BrowserEntries # {}
    THEN {WalletProof(e.tx, e.wallet, e.amount, e.resource, e.day) :
            e \in {latest \in BrowserEntries :
                     \A other \in BrowserEntries : other.day <= latest.day}}
    ELSE {WalletProof(t, OfficialPayer, RecoverPrice, DefaultResource,
                      Day(clock)) : t \in TxIds}

(* A settlement that fails the chain check goes no further.                *)
BeginRecovery(p) ==
  /\ Cardinality(requests) < MaxRequests
  /\ p \in RecoveryProofs /\ Verified(p)
  /\ requests' = requests \cup {[mode |-> "verify", auth |-> NoAuth,
                                 bootstrap |-> FALSE, proof |-> p]}
  /\ UNCHANGED <<mem, disk, clock, proofFile, walletPay, replies>>

PromoteRecovery(q) ==
  /\ q \in requests /\ q.mode = "verify"
  /\ proofFile' = q.proof
  /\ requests' = (requests \ {q}) \cup {[q EXCEPT !.mode = "recover"]}
  /\ UNCHANGED <<mem, disk, clock, walletPay, replies>>

FinishRecovery(q, saved) ==
  /\ q \in requests /\ q.mode = "recover"
  /\ Update(RecordedOnce(mem, "browser", q.proof, FALSE), saved)
  /\ Promise("recorded", q.proof.tx, saved)
  /\ requests' = requests \ {q}
  /\ UNCHANGED <<clock, proofFile, walletPay>>

-----------------------------------------------------------------------------
(* The outside: clients rewriting the proof file, time, and crashes.       *)

TearProof ==
  /\ proofFile' = Unreadable
  /\ UNCHANGED <<mem, disk, clock, requests, walletPay, replies>>

WriteProof(c) ==
  /\ proofFile' = [tx |-> c.tx, payer |-> c.payer, amount |-> c.amount,
                   resource |-> c.resource, auth |-> c.auth,
                   day |-> Day(clock)]
  /\ UNCHANGED <<mem, disk, clock, requests, walletPay, replies>>

Tick ==
  /\ clock < MaxClock
  /\ clock' = clock + 1
  /\ UNCHANGED <<mem, disk, proofFile, requests, walletPay, replies>>

Crash ==
  /\ mem' = Normalized(disk)
  /\ requests' = {}
  /\ walletPay' = Idle
  /\ UNCHANGED <<disk, clock, proofFile, replies>>

-----------------------------------------------------------------------------

SandboxNext(saved) ==
  \/ \E w \in Wallets : \/ \E policy \in PolicyChoices : SetPolicy(w, policy, saved)
                        \/ \E f \in Funds : Mint(w, f, saved)
  \/ \E k \in Keys : \/ SettleReplay(k, saved) \/ SettlePaid(k, saved)
                     \/ SettleDenied(k, saved) \/ RecordDenied(k, saved)
  \/ RecordWorkAudit(saved)

PolicyNext(saved) ==
  \/ \E w \in Wallets, r \in Resources, x \in Amounts :
       \/ \E a \in AuthIds : Reserve(a, w, r, x, saved)
       \/ ReserveDenied(w, r, x, saved)
  \/ \E a \in AuthIds : Release(a, saved)
  \/ \E q \in requests : \/ RecordNothing(q, saved) \/ RecordCommit(q, saved)
                         \/ RecordBootstrap(q, saved)

RecordNext ==
  \/ \E body \in Submissions : BeginRecord(body)
  \/ \E q \in requests : RecordLapsed(q) \/ DropRequest(q)

WalletNext ==
  \/ \E svc \in Services : BeginWalletPay(svc)
  \/ \E t \in TxIds, saved \in SaveOutcomes : WalletSettled(t, saved)
  \/ \E promoted \in BOOLEAN, saved \in SaveOutcomes :
       WalletPromoted(promoted, saved)
  \/ WalletAbandoned
  \/ \E p \in RecoveryProofs : BeginRecovery(p)
  \/ \E q \in requests : \/ PromoteRecovery(q)
                         \/ \E saved \in SaveOutcomes : FinishRecovery(q, saved)

OutsideNext ==
  \/ TearProof
  \/ \E c \in ProofChoices : WriteProof(c)
  \/ Tick
  \/ Crash

Next ==
  \/ \E saved \in SaveOutcomes : SandboxNext(saved) \/ PolicyNext(saved)
  \/ RecordNext \/ WalletNext \/ OutsideNext

Spec == Init /\ [][Next]_vars

-----------------------------------------------------------------------------
(* Properties.                                                             *)

(* Every variable has its type; the lists of the store never outgrow their *)
(* caps (prependReceipt, prependTransaction).                              *)
TypeOK ==
  /\ StoreTypeOK(mem) /\ StoreTypeOK(disk)
  /\ clock \in Nat
  /\ proofFile \in Proof \cup {Unreadable}
  /\ requests \subseteq Request
  /\ walletPay \in Payment \cup {Idle}
  /\ replies \in Promises

Everywhere(P(_)) == P(mem) /\ P(disk)

(* No balance is ever negative (the checks of settle come before the debit)*)
(* and no wallet holds and has spent more than the faucet gave its         *)
(* spellings: no retry, replay, lost save or crash debits a key twice or   *)
(* makes money.  Reopening keeps the larger of the balances of two         *)
(* spellings, so money may be lost; none is when the faucet only ever gave *)
(* to the spelling that reopening keeps.                                   *)
MoneyConserved == Everywhere(Conserved)

(* A settled key still has its receipt, so a retry is answered, unless the *)
(* receipt list is full and dropped it.                                    *)
Answerable(s) ==
  \A k \in s.settledKeys : HasReceipt(s, k) \/ Len(s.receipts) = ReceiptCap
RetriesAnswered == Everywhere(Answerable)

(* An official settlement is in the ledger at most once, whichever of the  *)
(* four handlers that record it ran and in whatever order they interleaved.*)
LedgerUnique == Everywhere(Unique)

(* The ledger and the bound reservations tell the truth about the chain: an*)
(* official entry has the payer and amount of its settlement, and a        *)
(* committed reservation is bound to a settlement of its own wallet and    *)
(* amount that the ledger has recorded.                                    *)
LedgerTrue == Everywhere(EntriesTrue) /\ Everywhere(Bound)

(* What a successful answer promised is on the disk, so a crash right after*)
(* it loses nothing: a granted authorization exists, a released one no     *)
(* longer holds budget, a recorded settlement and a settled sandbox payment*)
(* are known.  One answer is not among the promises: the wallet lane's 200 *)
(* when neither of its two saves worked, which claims what is not so.      *)
Kept(promised, s) ==
  /\ promised.granted \subseteq DOMAIN s.reservations
  /\ \A a \in promised.freed :
       /\ a \in DOMAIN s.reservations
       /\ s.reservations[a].status \in {"released", "committed"}
  /\ promised.recorded \subseteq Known(s)
  /\ promised.receipted \subseteq s.settledKeys
PromisesKept == Kept(replies, disk)

(* Within a day, the sandbox payments, the settlements committed while     *)
(* their authorization held budget, and the budget still held never exceed *)
(* the wallet's daily limit, as long as no operator lowers it.             *)
InBudget(s) == WithinBudget(s, clock)
BudgetKept == Everywhere(InBudget)

(* All spend of the day counts, whichever lane recorded it.                *)
DailyLimitKept ==
  \A w \in Wallets :
    DailySpend(mem, w, clock) + PendingSpend(mem, w, clock)
      <= PolicyOf(mem, w).dailyLimit

(* On the disk an authorization only moves forward: it never disappears,   *)
(* a released or expired one is never active again, and a committed one    *)
(* keeps its settlement for ever, across failed saves and crashes.         *)
StepsForward == AuthorizationsExtend(disk.reservations, disk'.reservations)
AuthorizationsForward == [][StepsForward]_vars
-----------------------------------------------------------------------------
(* The abstract authorization of a reservation on the disk.                *)
StageOf(a) ==
  IF a \notin DOMAIN disk.reservations THEN "none"
  ELSE CASE disk.reservations[a].status = "active"    -> "held"
         [] disk.reservations[a].status = "committed" -> "spent"
         [] OTHER -> "freed"

TermsOf(a) ==
  IF a \in DOMAIN disk.reservations
    THEN [payer  |-> WalletKey[disk.reservations[a].wallet],
          amount |-> disk.reservations[a].amount]
    ELSE NoAuth

SettlementOf(a) ==
  IF a \in DOMAIN disk.reservations THEN disk.reservations[a].tx ELSE NoTx

Contract == INSTANCE Authorizations WITH
  Terms      <- [payer: Wallets, amount: Nat],
  NoTerms    <- NoAuth,
  Pays       <- [t \in TxIds |-> [payer |-> WalletKey[Payer[t]], amount |-> Paid[t]]],
  stage      <- [a \in AuthIds |-> StageOf(a)],
  terms      <- [a \in AuthIds |-> TermsOf(a)],
  settlement <- [a \in AuthIds |-> SettlementOf(a)],
  accounted  <- Known(disk)

(* Whatever the handlers, the clients and the failures do, the file is only*)
(* ever a state of the contract: an authorization granted for a payer and  *)
(* an amount is freed at most once, spent by a settlement of that payer and*)
(* amount that the ledger knows, and then bound to it for ever.            *)
ImplementsAuthorizations == Contract!AuthSpec
=============================================================================
