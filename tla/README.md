# Verification of PayPerPrompt

TLA+ models of the payments of PayPerPrompt and of the paid work behind them,
model-checked with TLC on small instances and, for the invariants that matter
most, proved with TLAPS for every value of the constants. Line numbers refer to the files under `src/`.

## The system

PayPerPrompt sells AI work against x402 payments in USDC on Base Sepolia. A Go
gateway (`go-core/cmd/server/main.go`) holds the policies, the budget and the
ledger; a command-line client (`real-x402-go/cmd/official-client`) and a browser
pay an official server (`real-x402-go/cmd/official-server`), whose facilitator
pool (`internal/facilitatorpool`) verifies and settles the payments.

| Component | State | Operations | Interacts with |
|---|---|---|---|
| Gateway store | balances, policies, receipts, authorizations, settled keys, ledger; a JSON file | policy, faucet, sandbox settle, reserve, release, record, reconcile, bootstrap | client (HTTP), proof file, chain RPC |
| Browser-wallet lane | one payment under `walletPayMu` | pay, consume work, promote proof, recover by hash | prepared work, official server, store |
| Prepared work, plan jobs | escrow and jobs in memory | plan, start job, poll, match, mark, consume | local model, wallet lane |
| Command-line client | one run, the latest-proof file | reserve, pay, save proof, record, release, reconcile | gateway, official server |
| Facilitator pool | active endpoint, selection per payload, health, last settlement | Verify, Settle, GetSupported, Probe | facilitators |
| Official server | the pool | middleware: verify, handler, settle | pool, clients |
| Proof and history files | latest proof, append-only history | write, promote, append once | client, gateway, verifier |
| Work suggestions, rate limit | last prompts per type, calls per address | suggest | local model |
| Task routing | none | preferred service, routes | web |
| AI work preparation and validation (`internal/payperprompt/work.go`) | none between requests | write drafts, normalise, validate, validate again at release | local model, official server |
| Node sandbox (`src/server.js`) | in-memory balances, receipts | sandbox API | web |
| Rust verifier, Rust service, SDK, skeleton server | none | pure checks and HTTP | proof bundle |
| Web application | browser payment under way | connect, sign, pay, recover | gateway |

What is hard in it:

- **Failure between two steps.** `Store.update` (446) changes memory and then
  saves; the client dies between paying, writing its proof and recording it;
  an answer is not heard within the client's five seconds.
- **Interleaving.** Record, reconcile, bootstrap, wallet payment and wallet
  recovery report the same settlement; several reservations compete for the
  last cent; other requests move the pool's active endpoint between this
  request's verification and its settlement.
- **Stale reads.** Proof and chain are read before the lock; the wallet lane
  evaluates its policy on a snapshot; prepared work is matched, and marked only
  after a fresh challenge.
- **Time.** Authorizations lapse after two minutes, work after ten, jobs after
  fifteen, the UTC day ends, while a signed payment can still settle.
- **Files without a common lock.** Wallet payments, recoveries, record requests
  and the client write the latest proof, the history and the ledger, one after
  the other; a write that fails leaves part of a line, and the next line is
  glued to it.
- **Rewriting.** Six normalisations change a draft before it is validated, one
  after the other, and all of it runs a second time when the wallet has signed.
- **Limits.** Receipts and transactions are capped, and an evicted entry is
  forgotten.

What makes the components correct: the gateway keeps each daily limit, keeps
what it promised, records each settlement once and truthfully, and lets an
authorization only move forward; the client pays only under an authorization and
gets its settlement accounted for; the pool settles where it verified and gives
up only when everyone failed; prepared work is paid for at most once, and fresh;
one job prepares at a time and ends; the history and the ledger together show
each settlement once and nothing that never settled, whatever a failed write
left behind; work that is offered covers its source, says what was taken out of
it, and is what the wallet gets. `PROJECT.json` lists every hazard at its
line with the property that watches it.

## Modules

| Module | What it is |
|---|---|
| `Totals` | the sum of some amounts, as the gateway's loops add them up |
| `LedgerState` | the `State` record and the pure functions over it: spend, policy, reservations, ledger, balances, normalisation |
| `GatewayStore` | the store in memory and on disk, every handler that changes it, the browser lane's ledger side, time, crashes, writers of the proof file |
| `OfficialLane` | the client's runs, the chain and the reconciling operator, composed with `GatewayStore` |
| `FacilitatorPool` | the pool under concurrent requests and health checks, and the middleware's order |
| `PreparedWork` | escrow, jobs and their goroutines, and the payments that consume work |
| `Authorizations` | the abstract specification: what the gateway promises about an authorization, without handlers, files or clock; `GatewayStore` implements it |
| `ProofFiles` | latest proof, history and the ledger's official entries, with all who write them and what the dashboard counts |
| `WorkProduct` | the normalisations and validators as pure operators over the statements a text makes |
| `PaidWork` | an order at the official server, from the drafts to the settlement, over `WorkProduct` |
| `MC*` | the instances for TLC |
| `*_proofs` | the theorems of the module they are named after |

Correspondence with the code:

- **One action is one critical section or one call.** Each closure run by
  `Store.update` is an action with all it does; `Update(s, saved)` keeps a
  failed save's state in `mem` and not on `disk`. What a handler reads before
  the lock is an action of its own (`BeginRecord`, `BeginRecovery`), and the
  request carries what it read. Every other refusal that changes nothing is
  left out, unless the code writes on that path (denied payments and
  reservations are ledger entries, a record request may write an expiry).
- **The disk** changes whole: the file is written aside and renamed. A crash
  loads it through `Normalized` (395-444) and ends what was under way.
- **The proof file** is one for all. `WriteProof` and `TearProof` are the
  client's `os.WriteFile`, which truncates first; without a readable file the
  gateway falls back to the settlement embedded in it (`BaselineTx`).
  `ProofFiles` has no such settlement and records nothing while the proof is torn.
- **The chain** is the constant functions `Payer` and `Paid`: who paid how much
  in each settlement. `Verified` is the RPC check as far as payer and amount go.
- **History variables** (`replies`, `kept` in a wallet payment, `verified`, `sent`,
  `answered`, `used`, `appended`, `draft`, and `minted`, `covered` in the state) record what the
  properties speak of; no action's guard depends on them except that `used`
  stands for the freshness of random ids.
- **Pool.** Go's locks cover single fields, so each read or write of the pool
  is a step. Requests and checks are named; a request is one verify, handler
  and settle sequence of the middleware. That `Settle` finds no endpoint at all
  cannot happen behind the middleware, which verified first.
- **Time** is a counter. `TTL`, `WorkTTL`, `JobTTL` and `JobTimeout` are in
  ticks and keep their order.

- **Authorizations.** `StageOf`, `TermsOf` and `SettlementOf` map a state of the
  gateway's file to the contract: no reservation is `none`, a reserved one is
  `held`, a released or lapsed one `freed`, a committed one `spent`. The file is
  mapped, not memory, since a crash takes memory back to it.
- **Files.** A line of the history is what hashes it mentions, whether it parses
  and whether it ends in a newline. `AppendFails` leaves a fragment of a line
  (all of it, when only the Sync fails), and `WithLine` glues the next line to
  an unended one, as `O_APPEND` does. A handler's steps are the promotion of the
  proof, the search of the history, the append, and the ledger's update; another
  handler and the client may step between any two. An entry of the ledger keeps
  who entered it, since the recovery asks for the latest entry of a browser
  payment. The ledger is never full here, and a proof is read and recorded in
  one step: `GatewayStore` has the ledger's cap and the steps of a record
  request, and leaves the history out.
- **Work.** A text is the set of the statements it makes; a source is the facts
  that the patterns find in it and the elements it declares. A claim is one
  model value for all the phrases the code lists for it. The operators keep the
  order of the normalisations and the fields each one changes. An order keeps
  its last draft (`draft`, a history variable) so that what was lost can be told.

The text of a payment, prompts, prices as strings and logging are abstracted to
model values and whole cents. `PROJECT.json` maps each definition to its lines.

## What the runs check

Every passing run finishes with no error; distinct states in parentheses.

| Run | Instance | Properties |
|---|---|---|
| `official` (611 000) | two authorizations, limit of one cent, two requests in flight, true and false proofs, two ticks, one raise of the limit | `LedgerTrue`, `BudgetKept`, `AuthorizationsForward` |
| `saves` (318 000) | wallet lane, recovery by hash and record requests on three settlements of one and two cents, any save may fail | `PromisesKept`, `LedgerUnique`, `ImplementsAuthorizations` |
| `sandbox` (522 000) | two spellings of one wallet, three requests, two receipts kept, one reservation, failing saves, midnight | `TypeOK`, `MoneyConserved`, `RetriesAnswered`, `BudgetKept` |
| `lane` (429) | one run of the client, an operator who reconciles, failing saves, expiry | `LaneTypeOK`, `PaidUnderAuthorization`, `HeldForItsTime`, `OwnSettlement`, `FreedForGood`, `Reconciled` |
| `pool` (769 000) | three facilitators, two requests beside one check, or one payload presented twice | `PoolTypeOK`, `VerifierSettles`, `FailsExhausted`, `RoutesAnswered`, `CallsEnd` |
| `work` (2 024 000) | two payments, two prompts, two pieces of work, two jobs | `WorkTypeOK`, `PaidOnce`, `OnePreparation`, `FreshWhenPaid`, `JobsEnd` |
| `paidwork` (43 000) | six sources, all seven tasks, every draft within two edits of a good one, four attempts | `PaidTypeOK`, `SourceCovered`, `Disclosed`, `RefusedWhenEmptied`, `WritingEnds` |
| `files` (752 000) | one handler, one run of the client, two settlements, two failed writes or restarts | `FilesTypeOK`, `NothingInvented`, `CountedOnce`, `AnsweredCounted`, `FailureCost`, `HistoryKept`, `LatestRecorded` |

What they show, beyond the property's own comment:

- `LedgerTrue` and `AuthorizationsForward`: a proof file that is stale by the
  time the lock is taken, torn, false or of the other authorization never
  makes the gateway record something that is not on the chain, nor commits an
  authorization twice.
- `BudgetKept`: within a day, sandbox payments, settlements recorded while
  their authorization held budget, and the budget still held never exceed the
  limit. Late settlements of lapsed authorizations and the wallet lane's are
  not covered by a held budget and are excluded: see the findings.
- `MoneyConserved`: a retry, a replay, a failed save or a crash debits no key
  twice. Reopening the file merges the balances of two spellings by taking the
  larger one, which loses money whenever the faucet gave to both, but makes none;
  the equality is claimed only of a wallet whose faucet money all went to the
  spelling that is kept.
- `PromisesKept`: a failed save leaves memory ahead of the file, and later
  answers may depend on it; what a 2xx answer said is on the disk all the same,
  because each save writes the whole state. The wallet lane's answer says
  `durable_spend_recorded: true` whatever became of its two saves. The model
  counts it as a promise when either save worked, since the second one writes
  the entry too, wherever the first one failed. When both failed the answer is
  wrong: the property leaves it out, and the observations describe it.
- `ImplementsAuthorizations`: through failed saves, crashes, expiry, release,
  record and reconcile, the file only ever shows an authorization granted, held,
  freed and spent in that order, under its first terms and by one settlement of
  exactly those terms. A lapsed authorization may still be spent, by
  reconciliation; that is part of the contract.
- `HeldForItsTime`: until the time to live is over nothing gives the budget of a
  payment away that may still settle. What happens after it is the finding
  `lane_held`.
- `FreedForGood`: an authorization that the disk shows as given back is never
  spent after that. The store alone would spend it, as reconciling commits
  released authorizations too; that it cannot happen rests on the client, which
  gives back only what it has not sent a payment under, whichever run's proof is
  in the one file.
- `Reconciled` with `OwnSettlement`: when runs do not overlap, a saved
  settlement is committed in the end, to its own authorization.
- `VerifierSettles`: a payload that is presented once settles at the
  facilitator that verified it, though other requests and probes move the
  active endpoint meanwhile and the server restarts.
- `OnePreparation` holds because a job's context (10 min) ends before its
  entry lapses (15 min): with `JobTimeout >= JobTTL` it would not, and the
  assumption is stated. `JobsEnd` says that the one preparation slot is free
  again and again, so no job blocks the others for ever.
- `FailureCost`: a failed append never damages a line that was whole, but the
  next line may be lost to it, although its writer was told all is well. One
  failed write costs at most one settlement. `LatestRecorded` is the other half:
  the recovery sees that the line does not parse and writes it again.
- `CountedOnce` and `AnsweredCounted`: handlers and the client do write the same
  settlement several times, since nothing is locked between the search and the
  append (main.go 2815-2850); the totals count it once all the same, before and
  after a restart.
- `NothingInvented`: a recovery takes any hash a caller types, yet nothing that
  never settled gets into a file or the ledger.
- `SourceCovered`, `Disclosed`: after the rewriting, in whatever order statements
  were lost, every element of the source is there, and some caveat says that the
  draft was changed. In a Solidity review two parts are replaced without one: the
  coverage always (work.go 658), the summary when a function is unrestricted
  (660-662). There the property says that they hold what the analysis of the
  source found and nothing else.
- `RefusedWhenEmptied`: the second validation changes nothing in work the first
  one accepted, with one exception, which is the finding below.

### Findings

Each is a run with one property that TLC refutes.

| Run | Property | What happens |
|---|---|---|
| `lanes` | `DailyLimitKept` | the wallet lane holds no reservation while its payment settles (2278-2286), another lane takes the same budget |
| `lane_own` | `OwnSettlement` | with two runs, recording commits an authorization to the other run's settlement: only wallet, resource and amount are compared (1357, 1413) |
| `lane_held` | `HeldUntilResolved` | the authorization lapses after its TTL while the payment may still settle (4134) |
| `release_refused` | `OfferedIsReleased` | a review whose summary or deliverable lost all its sentences is offered, and refused as incomplete once the wallet has signed (work.go 24, 162) |

Observations made while modelling and not kept as runs:

- The wallet lane drops the error of the save and answers
  `durable_spend_recorded: true` (main.go 2375, 2415), which
  `docs/official-x402-proof.md` 31 reports as evidence. The save of the promoted
  proof may still make it true; when both saves fail, the entry is gone from
  the ledger after a restart until a recovery enters it again.
- The second of two overlapping runs may overwrite the latest proof before the
  first is recorded, and nothing reconciles the first from then on
  (official-client 1013).
- A payload presented twice may be verified, and settled, at another facilitator
  the second time, since the pool forgets its selection (pool.go 187).
- Two spellings of one address have balances of their own until a restart merges
  them by taking the larger one (423): the smaller one is lost. `MoneyConserved`
  allows the loss and excludes a gain.
- After an unknown outcome of a wallet payment the prepared work stays blocked,
  but the same prompt can be prepared and paid for anew (2309).
- A wallet payment that settled without handing over its work returns before the
  ledger is written (2349-2357), and a recovery ignores the hash it was given as
  long as the ledger has another browser payment's entry (2563-2585): unless that
  payment was the wallet's first, nothing records it.
- The wallet lane's own duplicate check compares hashes exactly, the recovery's
  without case (2634-2640).
- The totals of the dashboard count a ledger entry as verified although the
  wallet lane enters it before anything checked the chain, and a line of the
  history that was not verified hides a later verified entry of the same
  settlement (3257-3338). With nothing counted they show one verified
  settlement, the one embedded in the gateway.
- A Solidity function named like a Go keyword (`close`) is taken for a keyword by
  the coverage check (work.go 1203-1215), so a review of such a source is never
  offered; the preparation fails before the wallet signs.
- In every Solidity review the coverage is replaced whole by that of the
  analysis (work.go 658), and for an unprotected contract the summary as well
  (660-662). No caveat says so; see `Disclosed`.

### Bounds, and why they are enough

- Two authorizations, two requests in flight: each hazard of the store involves
  two actors, and both may be the same kind of request. Three sandbox keys of two
  spellings of one wallet: payments that compete for one limit and, until a
  crash merges them, for two balances.
- Caps of one to three entries: every list reaches its cap and evicts.
- One to three ticks, with times to live of one or two: everything that lapses
  does so before, between and after the steps of a request, and the day ends.
- Three facilitators: fail-over has a first, a middle and a last endpoint, and
  the active one may be any of them.
- `MintBound`, `MaxClock`, `MaxRequests` are guards of `Mint`, `Tick` and the
  requests, and bound nothing else. Payments, runs and jobs are finite sets.
- `MaxFaults = 2` in `files`: one failed write garbles a line, a second one the
  line that should repair it, or a restart comes between. With two handlers and
  no client the safety properties were checked once more (about a million
  states); the proofs hold for any number.
- `paidwork` has one order, as orders share nothing, and drafts of one good one
  changed in two places: each normalisation reacts to one or two statements,
  and the pairs are all there.
- `InOrder` in `work` keeps one of the behaviours that differ only in the names
  of ids, payments and prompts; it excludes no other.
- `TwoAtATime` in `pool`: the payload that is presented twice meets neither the
  request with its own payload nor the check. `VerifierSettles` therefore speaks
  of the request `r2` here, beside `r1`, the check and restarts, and by symmetry
  of any; the theorem has no such bound.
- `lane` grants one authorization at a time, so that another run's reservation
  does not run the expiry there; `HeldForItsTime` and the store's `LapseOnTime`
  are proved for any number.
- `SaveOutcomes = {TRUE}` in `official`, `lanes`, `lane_own` and `lane_held`:
  failing saves are in `saves`, `sandbox`, `lane` and `files`, and in the proofs.
- Symmetry over authorizations in `official`, which checks safety only.
- `lane` has one run, since with two at once `OwnSettlement` and `Reconciled`
  do not hold (see above); `PaidUnderAuthorization` and `FreedForGood` are
  proved for any number of runs.

### Fairness

- `FairSpec` (lane): the operator keeps running
  `reconcile-official-settlement.sh` (weak fairness of `Reconcile`), a request
  that fails comes back (weak fairness of `DropRequest`), and neither the RPC
  endpoint nor the disk fails every time (strong fairness of `ReconcileDone`).
  Nothing is assumed of the client, which may stop anywhere.
- `PoolFairSpec`: every call to a facilitator and every handler returns; the
  middleware bounds a request to 150 s (official-server 321).
- `WorkFairSpec`: a job's goroutine ends, because every call it makes carries a
  context of ten minutes (1678). For the same reason time does not pass a
  goroutine's deadline in the model.
- `PaidFairSpec`: a call to the model ends, well or badly; its client has a
  timeout of 240 s. Nothing is assumed of the wallet or the middleware.
- `FilesFairSpec`: the page asks for a recovery whenever it is opened, and is
  opened again; a handler goes on to its end; a promotion that is possible again
  and again succeeds at last, and so does an append (strong fairness: neither
  endpoint nor disk fails for ever). Nothing is assumed of payments, record
  requests or the client.

## What is proved

TLAPS checks every proof; constants are arbitrary up to the named assumptions.

| Theorem | States |
|---|---|
| `TypeCorrect`, `LedgerUniqueness`, `LedgerTruth`, `Durability`, `ForwardOnly` | `TypeOK`, `LedgerUnique`, `LedgerTrue`, `PromisesKept`, `AuthorizationsForward` of `GatewayStore` |
| `RetriesFindReceipts`, `AuthorizationContract` | `RetriesAnswered` of `GatewayStore`; that it implements `Authorizations` |
| `DailyBudget`, `Money` | `BudgetKept`, as long as no operator lowers a limit; `MoneyConserved` |
| `DailyLimit`, `LapseOnTime` | `DailyLimitKept`, if besides every settlement is recorded while its authorization holds budget; that nothing expires early |
| `Authorized`, `HeldInTime`, `ReleasedForGood`, `LaneTypeCorrect` | `PaidUnderAuthorization`, `HeldForItsTime`, `FreedForGood`, `LaneTypeOK` of `OfficialLane` |
| `BoundToItsOwn`, `NoneSpentTwice` | `OwnSettlement`, and that no settlement accounts for two authorizations, as long as each run finds its own proof |
| `LanePromises` | the store's promises, of the store with the client at work |
| `SettledByVerifier`, `GivesUpExhausted`, `RoutedToAnswered`, `PoolTypeCorrect` | `VerifierSettles`, `FailsExhausted`, `RoutesAnswered`, `PoolTypeOK` of `FacilitatorPool` |
| `PaidAtMostOnce`, `PaidFresh`, `OneRunner`, `WorkTypeCorrect` | `PaidOnce`, `FreshWhenPaid`, `OnePreparation`, `WorkTypeOK` of `PreparedWork` |
| `Coverage`, `Disclosure`, `ReleaseIsFixed`, `PaidTypeCorrect` | `SourceCovered`, `Disclosed`, `RefusedWhenEmptied`, `PaidTypeOK` of `PaidWork` |
| `NothingFromNowhere`, `FailuresBounded`, `HistoryOnlyGrows`, `FilesTypeCorrect` | `NothingInvented`, `FailureCost`, `HistoryKept`, `FilesTypeOK` of `ProofFiles` |
| `EachCountedOnce`, `AnswersCounted` | `CountedOnce`, `AnsweredCounted` of `ProofFiles` |

The arguments:

- **Store.** `IInv` says of memory and disk alike that entries are unique and
  true and committed authorizations are bound to recorded settlements
  (`StoreInv`), and relates the two: `Extends(disk, mem)`, memory is the disk
  plus later updates that were not saved. That is what makes a save after a
  failed one, and a crash, harmless: a promise on the disk is also in memory, so
  the next save keeps it; authorizations only move forward from disk to memory,
  so going either way never takes one back on the disk. `RequestsVerified` says
  that what a request has read was checked against the chain, however old it is.
  `LedgerState_proofs` has a lemma for each operation of the state.
- **Budget.** Sums are where a fold would need induction over data, so a sum is
  the number of the cents it adds up (`Totals`): a disjoint union of pairs, for
  which `Totals_proofs` derives from the library's theorems on finite sets what
  the proofs need (one amount more, one less, moved, unchanged, renamed). The
  invariant `BInv` is `BudgetKept` with the days: no receipt and no entry is of a
  day to come, so a midnight only empties the day, and a reservation that lapses
  or is released only takes away. A commit while budget is held moves the amount
  from the reservations to the entries; an entry or a receipt evicted at the cap
  only takes away. The hypothesis `OperatorRaises` is on the policies alone: a
  lowered limit is exceeded by what was already spent, and the code does not
  claim otherwise.
- **Money.** `MInv` adds to `MoneyConserved` that what the faucet gave, what is
  held and what was settled are finite sums, and `SpellingsOK`: a spelling that
  `walletKey` does not keep never holds more than the faucet gave that spelling.
  Merging is where money may be lost, hence the inequality; when the faucet gave
  to the kept spelling only, the others hold nothing, so the larger balance is
  the sum and the equality survives.
- **Lapse.** `TInv`: an expired authorization is past its time, in memory and in
  the file. With `LaneInv`, which excludes a release, what remains for a payment
  under way is to be held, committed or late.
- **Lane.** Each lane step is a store step or leaves the store alone
  (`LaneStepIsStoreStep`, and the lemma `LaneRefines`). That is so by the way the
  actions are put together and says nothing of the client; it is what lets the
  store's invariants be used. `LaneInv` adds: a run that counts on its authorization has
  it on the disk and it is released in neither memory nor disk; only the run's
  own `GiveBack`, before it sends, can release it.
- **Whose settlement.** `Binds(R)`: a proof that names an authorization, and a
  request that read it, make a pair of `R`, and in memory and on the disk
  authorizations are bound by pairs of `R` only. One chain of lemmas shows that
  every step of the store and of the client keeps it, and two theorems use it.
  For `ReleasedForGood`, `R` pairs the runs that have settled with any
  settlement (`SpentIfSettled`), whatever overlapping runs do to the file; a
  released authorization is one whose run has sent nothing. For `BoundToItsOwn`,
  `R` pairs each run with its own settlement, and `ProofsUndisturbed` says of the
  step `RecordSpend` that the proof file then names the run's own authorization. Two runs at once break it, and so may a
  browser payment that overwrites the file between saving and recording, even
  beside a single run; the theorem says that nothing else can bind a wrong
  settlement.
- **Pool.** `Pinned(c)`: if no other request carries c's payload, then what c
  has chosen, or finds in the selection, was verified for that payload. A call
  that walks the endpoints has failed at each one it passed, and its order is a
  permutation of them all, however old it is.
- **Prepared work.** `Sealed`: work that was sent for payment is marked as long
  as it is held, and ids are not given out twice, so neither clean-up nor a
  crash makes it payable again. `Watched`: a goroutine's entry is in the map,
  processing, and lapses after the goroutine, so a new job finds it.

- **Authorization contract.** A step of the store maps to a step of
  `Authorizations` because memory is the file plus later updates
  (`Extends(disk, mem)`): a save may move an authorization by several stages at
  once, never back, and what it commits is recorded in the same state.
- **Paid work.** `PaidInv`: the work of an order is the normal form of an
  acceptable draft. The heart is a lemma about `WorkProduct` alone: on work that
  is valid and was not emptied, trimming and normalising is the identity, for
  any source and any product; each normalisation removes what it reacts to, and
  none of the later ones brings it back.
- **Files.** `FailureCost` is not inductive: a failed write costs nothing until
  the next line is glued to what it left. `FailuresPaid` counts the unended line
  at the end of the history as a loss already, so that appending to it changes
  nothing in the sum, and a failed write is paid when it fails.
  `WorksOnSettled` says the same of the handlers as `NothingInvented` says of
  the files.

- **Totals of the dashboard.** The two loops are one recursive function over the
  lines (`CountAll`). That it returns what the set definition `Tally` says is
  proved by the smallest line at which it does not, since an induction theorem
  cannot be used. `CountInv` says that a line that parses names one hash, so each
  turn counts at most one, and that what was answered is in the ledger on the
  disk, which is in the ledger in memory; `EachCountedOnce` and `AnswersCounted`
  follow.

The hypotheses of `DailyBudget`, `DailyLimit`, `BoundToItsOwn` and
`NoneSpentTwice` are about steps of operators and runs that the code does not
prevent; the runs `lanes` and `lane_own` show what happens without the last two.

Left to TLC: liveness (`Reconciled`, `CallsEnd`, `JobsEnd`, `WritingEnds`,
`LatestRecorded`), which is beyond the prover. Every invariant and every action
property of a passing run is proved, some under the hypotheses above.

## What is not modelled

- The work-audit list (its cap of 500 and contents); saving it is a save.
- Legacy policy fields that `normalizeState` merges; state files written by
  earlier versions.
- Power loss between rename and the directory's sync.
- Rounding: amounts are whole cents, so prices below a cent and float
  comparison exactly at a limit are out; negative faucet amounts, which `mint`
  does not refuse, are assumed away (`Funds`).
- In `ProofFiles`: the settlement embedded in the gateway, which record requests
  fall back to when the latest proof cannot be read (it is no run's there;
  `GatewayStore` has it), and a history that cannot be read, which fails the
  handler before it appends (2815-2833).
- Spelling of transaction hashes; they are compared without case throughout.
- `pay` without a gateway, except that its proofs carry no authorization.
- The wallet lane and the escrow are not composed: `GatewayStore` has the
  payment's ledger, `PreparedWork` its work, `ProofFiles` its proof. A crash
  between settlement and answer loses the work; the code promises nothing there
  that a property could state.
- The regular expressions and word lists that find facts, elements and claims in
  a text; the local analysis and the prompt guard before the model is asked.
- Work suggestions (a sliding window and the last four prompts), task routing
  (pure), the Node sandbox (in memory, one process, one thread), the Rust
  verifier (a pure decision over a proof bundle) and the web application: small
  beside the rest, and planned.
- The Rust service, the SDK and the skeleton server: no state, only calls to a
  library or over HTTP. Scripts and static pages.

## Plan

In order of importance; the modules of the first six lines are there.

1. `LedgerState`, `GatewayStore`, `Authorizations` and their proofs: the store is
   what everything else relies on.
2. `OfficialLane`, composed with the store, whose promises it inherits.
3. `FacilitatorPool`.
4. `PreparedWork`.
5. `ProofFiles`: latest proof, history and ledger under all their writers.
6. `WorkProduct` and `PaidWork`.
7. `NodeSandbox`: settle and idempotency of `src/server.js`, against the same
   promise as the gateway's sandbox.
8. `WorkSuggestions` (sliding window) and `TaskRouting` (a total preorder, so the
   preferred service does not depend on the order of the catalogue).
9. `ProofVerifier`: the Rust verifier's decision as an operator, checked against
   a reference definition over altered bundles.
10. `BrowserFlow`: the states of a payment in the web application.

Further proofs: consequences of the contract `Authorizations` alone, which the
store then inherits; the composition of the escrow with the wallet lane's ledger.
