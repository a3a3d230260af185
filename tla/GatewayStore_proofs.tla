------------------------ MODULE GatewayStore_proofs ------------------------
(***************************************************************************)
(* Type correctness of the gateway's store, the uniqueness and truth of its*)
(* ledger, the durability of what its answers promise, and the forward-only*)
(* life of an authorization, for any wallets, settlements, caps and number *)
(* of requests, and across failed saves and crashes.                       *)
(***************************************************************************)
EXTENDS GatewayStore, LedgerState_proofs

RequestsVerified == \A q \in requests : Verified(q.proof)

(* A wallet payment that entered the ledger is there, and in the file if   *)
(* that save worked.                                                       *)
WalletKept ==
  walletPay.phase = "ledgered" =>
    /\ walletPay.tx \in Known(mem)
    /\ walletPay.kept => walletPay.tx \in Known(disk)

DiskExtends == Extends(disk, disk')

(* The memory is the disk after some more updates, however many saves      *)
(* failed; and a request in flight carries a proof that was verified when  *)
(* it was read, which the chain never takes back.                          *)
IInv ==
  /\ TypeOK
  /\ StoreInv(mem) /\ StoreInv(disk)
  /\ Extends(disk, mem)
  /\ PromisesKept
  /\ RequestsVerified
  /\ WalletKept

(***************************************************************************)
(* Steps of the store.                                                     *)
(***************************************************************************)

(* Two good updates of one closure are one good update.                    *)
LEMMA GoodTransitive ==
  ASSUME NEW s, NEW u, NEW v, StoreInv(s), Good(s, u), Good(u, v)
  PROVE  Good(s, v)
BY ExtendsTransitive DEF Good, StoreInv, LedgerInv

(* A promise kept by one state is kept by every state that extends it.     *)
LEMMA KeptForever ==
  ASSUME NEW s, NEW u, StoreTypeOK(s), Extends(s, u),
         NEW promised, Kept(promised, s)
  PROVE  Kept(promised, u)
<1>1. ASSUME NEW a \in promised.freed
      PROVE  /\ a \in DOMAIN u.reservations
             /\ u.reservations[a].status \in {"released", "committed"}
  <2>1. /\ a \in DOMAIN s.reservations
        /\ s.reservations[a].status \in {"released", "committed"}
        /\ a \in DOMAIN u.reservations
        /\ Forward(s.reservations[a], u.reservations[a])
    BY DEF Kept, Extends, AuthorizationsExtend
  <2> QED
    BY <2>1 DEF Forward, After
<1>2. promised.granted \subseteq DOMAIN u.reservations
  BY DEF Kept, Extends, AuthorizationsExtend
<1> QED
  BY <1>1, <1>2 DEF Kept, Extends

(* What an update does to the memory and the file, saved or not.           *)
LEMMA UpdateStep ==
  ASSUME IInv, NEW s, Good(mem, s), NEW saved \in BOOLEAN, Update(s, saved)
  PROVE  /\ StoreInv(mem') /\ StoreInv(disk')
         /\ StoreTypeOK(mem') /\ StoreTypeOK(disk')
         /\ Extends(disk', mem') /\ Extends(disk, disk')
         /\ Kept(replies, disk')
         /\ UNCHANGED walletPay => WalletKept'
<1>1. /\ StoreInv(mem) /\ StoreInv(disk) /\ StoreInv(s) /\ Extends(mem, s)
      /\ Extends(disk, mem) /\ Kept(replies, disk)
  BY DEF IInv, Good, PromisesKept
<1>2. StoreTypeOK(mem) /\ StoreTypeOK(disk) /\ StoreTypeOK(s)
  BY <1>1 DEF StoreInv, LedgerInv
<1>3. Extends(disk, s) /\ Extends(s, s) /\ Extends(disk, disk)
  BY <1>1, <1>2, ExtendsTransitive, ExtendsReflexive
<1>4. Kept(replies, s)
  BY <1>1, <1>2, <1>3, KeptForever
<1>5. /\ StoreInv(mem') /\ StoreInv(disk')
      /\ StoreTypeOK(mem') /\ StoreTypeOK(disk')
      /\ Extends(disk', mem') /\ Extends(disk, disk')
      /\ Kept(replies, disk')
  <2>1. CASE saved
    BY <1>1, <1>2, <1>3, <1>4, <2>1 DEF Update
  <2>2. CASE ~saved
    BY <1>1, <1>2, <1>3, <2>2 DEF Update
  <2> QED
    BY <2>1, <2>2
<1>6. Known(mem) \subseteq Known(mem') /\ Known(disk) \subseteq Known(disk')
  BY <1>1, <1>5 DEF Update, Extends
<1> QED
  BY <1>5, <1>6 DEF IInv, WalletKept

(* A promise made after a save that the saved state keeps.                 *)
LEMMA PromiseStep ==
  ASSUME IInv, NEW saved \in BOOLEAN,
         NEW field \in {"granted", "freed", "recorded", "receipted"},
         NEW x, Promise(field, x, saved), Kept(replies, disk'),
         field \in {"granted", "freed"} => x \in AuthIds,
         field = "recorded" => x \in TxIds,
         field = "receipted" => x \in Keys,
         saved => /\ field = "granted" => x \in DOMAIN disk'.reservations
                  /\ field = "freed" =>
                       /\ x \in DOMAIN disk'.reservations
                       /\ disk'.reservations[x].status \in {"released", "committed"}
                  /\ field = "recorded" => x \in Known(disk')
                  /\ field = "receipted" => x \in disk'.settledKeys
  PROVE  PromisesKept' /\ replies' \in Promises
<1>1. replies \in Promises
  BY DEF IInv, TypeOK
<1>2. CASE ~saved
  BY <1>1, <1>2 DEF Promise, PromisesKept
<1>3. CASE saved
  <2>1. replies' = [replies EXCEPT ![field] = @ \cup {x}]
    BY <1>3 DEF Promise
  <2>2. replies' \in Promises
    BY <1>1, <2>1 DEF Promises
  <2>3. Kept(replies', disk')
    BY <1>1, <1>3, <2>1 DEF Kept, Promises
  <2> QED
    BY <2>2, <2>3 DEF PromisesKept
<1> QED
  BY <1>2, <1>3

(* An update and nothing else.                                             *)
LEMMA UpdateOnly ==
  ASSUME IInv, NEW s, Good(mem, s), NEW saved \in BOOLEAN, Update(s, saved),
         UNCHANGED <<clock, proofFile, requests, walletPay, replies>>
  PROVE  IInv' /\ DiskExtends
<1>1. /\ StoreInv(mem') /\ StoreInv(disk')
      /\ StoreTypeOK(mem') /\ StoreTypeOK(disk')
      /\ Extends(disk', mem') /\ Extends(disk, disk') /\ Kept(replies, disk')
      /\ WalletKept'
  BY UpdateStep
<1>2. TypeOK'
  BY <1>1 DEF IInv, TypeOK
<1>3. PromisesKept' /\ RequestsVerified'
  BY <1>1 DEF IInv, PromisesKept, RequestsVerified
<1> QED
  BY <1>1, <1>2, <1>3 DEF IInv, DiskExtends

(* An update that is answered and, if it was a request's, ends it.         *)
LEMMA UpdateAnswered ==
  ASSUME IInv, NEW s, Good(mem, s), NEW saved \in BOOLEAN, Update(s, saved),
         NEW field \in {"granted", "freed", "recorded", "receipted"},
         NEW x, NEW answered \in BOOLEAN, answered => saved,
         Promise(field, x, answered),
         /\ field = "granted" => x \in AuthIds \cap DOMAIN s.reservations
         /\ field = "freed" =>
              /\ x \in AuthIds \cap DOMAIN s.reservations
              /\ answered => s.reservations[x].status \in {"released", "committed"}
         /\ field = "recorded" => x \in TxIds \cap Known(s)
         /\ field = "receipted" => x \in Keys \cap s.settledKeys,
         requests' \subseteq requests, UNCHANGED <<clock, proofFile, walletPay>>
  PROVE  IInv' /\ DiskExtends
<1>1. /\ StoreInv(mem') /\ StoreInv(disk')
      /\ StoreTypeOK(mem') /\ StoreTypeOK(disk')
      /\ Extends(disk', mem') /\ Extends(disk, disk') /\ Kept(replies, disk')
      /\ WalletKept'
  BY UpdateStep
<1>2. answered => disk' = s
  BY DEF Update
<1>3. PromisesKept' /\ replies' \in Promises
  BY <1>1, <1>2, PromiseStep
<1>4. TypeOK' /\ RequestsVerified'
  BY <1>1, <1>3 DEF IInv, TypeOK, RequestsVerified
<1> QED
  BY <1>1, <1>3, <1>4 DEF IInv, DiskExtends

(* A step that leaves the store alone.                                     *)
LEMMA StoreUntouched ==
  ASSUME IInv, UNCHANGED <<mem, disk, replies>>, clock' \in Nat,
         proofFile' \in Proof \cup {Unreadable}, requests' \subseteq Request,
         \A q \in requests' : Verified(q.proof),
         walletPay' \in Payment \cup {Idle},
         UNCHANGED walletPay \/ walletPay'.phase # "ledgered"
  PROVE  IInv' /\ DiskExtends
<1>1. Extends(disk, disk)
  BY ExtendsReflexive DEF IInv, TypeOK
<1> QED
  BY <1>1
     DEF IInv, TypeOK, PromisesKept, RequestsVerified, WalletKept, DiskExtends

(***************************************************************************)
(* Every action keeps the invariant and moves the authorizations forward.  *)
(***************************************************************************)

(* Policies, faucet and sandbox payments.                                  *)
LEMMA SandboxStep ==
  ASSUME IInv, NEW saved \in SaveOutcomes, SandboxNext(saved)
  PROVE  IInv' /\ DiskExtends
<1>1. saved \in BOOLEAN /\ StoreInv(mem) /\ clock \in Nat /\ Good(mem, mem)
  BY GatewayAssumption, ExtendsReflexive DEF IInv, TypeOK, Good
<1>2. ASSUME NEW w \in Wallets, NEW policy \in PolicyChoices,
             SetPolicy(w, policy, saved)
      PROVE  IInv' /\ DiskExtends
  <2>1. WalletKey[w] \in Wallets /\ policy \in Policy
    BY WalletAssumption, GatewayAssumption
  <2> QED
    BY <1>1, <1>2, <2>1, WithPolicyGood, UpdateOnly DEF SetPolicy
<1>3. ASSUME NEW w \in Wallets, NEW f \in Funds, Mint(w, f, saved)
      PROVE  IInv' /\ DiskExtends
  <2>1. f.eth \in Nat /\ f.usdc \in Nat
    BY GatewayAssumption
  <2> QED
    BY <1>1, <1>3, <2>1, MintedGood, UpdateOnly DEF Mint
<1>4. ASSUME NEW k \in Keys, SettleReplay(k, saved)
      PROVE  IInv' /\ DiskExtends
  BY <1>1, <1>4, UpdateAnswered DEF SettleReplay
<1>5. ASSUME NEW k \in Keys, SettlePaid(k, saved)
      PROVE  IInv' /\ DiskExtends
  <2>1. Good(mem, Settled(mem, k, clock)) /\ k \in Settled(mem, k, clock).settledKeys
    BY <1>1, SettledGood
  <2> QED
    BY <1>1, <1>5, <2>1, UpdateAnswered DEF SettlePaid
<1>6. ASSUME NEW k \in Keys, SettleDenied(k, saved) \/ RecordDenied(k, saved)
      PROVE  IInv' /\ DiskExtends
  <2>1. k.wallet \in Wallets /\ k.resource \in Resources /\ k.price \in Nat
    BY KeyAssumption
  <2>2. Good(mem, AppendTransaction(mem, DeniedEntry(k.wallet, k.resource, k.price,
                                                     clock)))
    BY <1>1, <2>1, DeniedGood
  <2> QED
    BY <1>1, <1>6, <2>2, UpdateOnly DEF SettleDenied, RecordDenied
<1>7. ASSUME RecordWorkAudit(saved)
      PROVE  IInv' /\ DiskExtends
  BY <1>1, <1>7, UpdateOnly DEF RecordWorkAudit
<1> QED
  BY <1>2, <1>3, <1>4, <1>5, <1>6, <1>7 DEF SandboxNext

(* Authorizations granted, freed and committed.                            *)
LEMMA PolicyStep ==
  ASSUME IInv, NEW saved \in SaveOutcomes, PolicyNext(saved)
  PROVE  IInv' /\ DiskExtends
<1> DEFINE s == Expired(mem, clock)
<1>1. /\ saved \in BOOLEAN /\ StoreInv(mem) /\ clock \in Nat /\ Good(mem, mem)
      /\ DOMAIN mem.reservations \subseteq AuthIds
  BY GatewayAssumption, ExtendsReflexive DEF IInv, TypeOK, Good, StoreTypeOK
<1>2. /\ Good(mem, s) /\ StoreInv(s)
      /\ DOMAIN s.reservations = DOMAIN mem.reservations
  BY <1>1, ExpiredGood DEF Good
<1>3. \A q \in requests : q.proof \in Proof /\ Verified(q.proof) /\ q.proof.tx \in TxIds
  BY DEF IInv, TypeOK, RequestsVerified, Request, Proof
<1> HIDE DEF s
<1>4. ASSUME NEW w \in Wallets, NEW r \in Resources, NEW x \in Amounts,
             NEW a \in AuthIds, Reserve(a, w, r, x, saved)
      PROVE  IInv' /\ DiskExtends
  <2> DEFINE u == Reserved(s, a, w, r, x, clock)
  <2>1. /\ a \notin DOMAIN s.reservations /\ x \in Nat
        /\ Update(u, saved) /\ Promise("granted", a, saved)
        /\ UNCHANGED <<clock, proofFile, requests, walletPay>>
    BY <1>2, <1>4, GatewayAssumption DEF Reserve, Fresh, s
  <2>2. Good(s, u) /\ a \in DOMAIN u.reservations
    BY <1>1, <1>2, <2>1, ReservedGood
  <2> HIDE DEF u
  <2>3. Good(mem, u)
    BY <1>1, <1>2, <2>2, GoodTransitive
  <2> QED
    BY <1>1, <2>1, <2>2, <2>3, UpdateAnswered
<1>5. ASSUME NEW w \in Wallets, NEW r \in Resources, NEW x \in Amounts,
             ReserveDenied(w, r, x, saved)
      PROVE  IInv' /\ DiskExtends
  BY <1>1, <1>2, <1>5, UpdateOnly DEF ReserveDenied, s
<1>6. ASSUME NEW a \in AuthIds, Release(a, saved)
      PROVE  IInv' /\ DiskExtends
  <2> DEFINE u == Released(mem, a)
  <2>1. /\ Good(mem, u) /\ a \in DOMAIN u.reservations
    BY <1>1, <1>6, ReleasedGood
       DEF Release, Good, Extends, AuthorizationsExtend
  <2>2. /\ Update(u, saved)
        /\ Promise("freed", a, saved /\ u.reservations[a].status = "released")
        /\ UNCHANGED <<clock, proofFile, requests, walletPay>>
    BY <1>6 DEF Release
  <2>3. (saved /\ u.reservations[a].status = "released") \in BOOLEAN
    OBVIOUS
  <2> HIDE DEF u
  <2> QED
    BY <1>1, <2>1, <2>2, <2>3, UpdateAnswered
<1>7. ASSUME NEW q \in requests, RecordNothing(q, saved)
      PROVE  IInv' /\ DiskExtends
  <2>1. q.proof.tx \in Known(mem)
    BY <1>1, <1>7
       DEF RecordNothing, AlreadyRecorded, Reservable, Known, StoreInv, Bound
  <2> QED
    BY <1>1, <1>3, <1>7, <2>1, UpdateAnswered DEF RecordNothing
<1>8. ASSUME NEW q \in requests, RecordCommit(q, saved)
      PROVE  IInv' /\ DiskExtends
  <2> DEFINE u == Committed(mem, q.auth, q.proof, clock)
  <2>1. /\ q.auth \in DOMAIN mem.reservations
        /\ mem.reservations[q.auth].status # "committed"
        /\ Matches(mem.reservations[q.auth], q.proof)
        /\ Update(u, saved) /\ Promise("recorded", q.proof.tx, saved)
        /\ requests' = requests \ {q}
        /\ UNCHANGED <<clock, proofFile, walletPay>>
    BY <1>8 DEF RecordCommit, Committable, Reservable
  <2>2. Good(mem, u) /\ q.proof.tx \in Known(u)
    BY <1>1, <1>3, <2>1, CommittedGood
  <2> HIDE DEF u
  <2> QED
    BY <1>1, <1>3, <2>1, <2>2, UpdateAnswered
<1>9. ASSUME NEW q \in requests, RecordBootstrap(q, saved)
      PROVE  IInv' /\ DiskExtends
  <2>1. LET u == RecordedOnce(mem, "official", q.proof, FALSE) IN
        Good(mem, u) /\ q.proof.tx \in Known(u)
    BY <1>1, <1>3, RecordedOnceGood
  <2> QED
    BY <1>1, <1>3, <1>9, <2>1, UpdateAnswered DEF RecordBootstrap
<1> QED
  BY <1>4, <1>5, <1>6, <1>7, <1>8, <1>9 DEF PolicyNext

(* Record and reconcile requests that commit nothing.                      *)
LEMMA RecordStep ==
  ASSUME IInv, RecordNext
  PROVE  IInv' /\ DiskExtends
<1>1. /\ clock \in Nat /\ proofFile \in Proof \cup {Unreadable}
      /\ requests \subseteq Request /\ walletPay \in Payment \cup {Idle}
      /\ \A q \in requests : Verified(q.proof)
  BY DEF IInv, TypeOK, RequestsVerified
<1>2. ASSUME NEW body \in Submissions, BeginRecord(body)
      PROVE  IInv' /\ DiskExtends
  <2> DEFINE p == ProofRead
  <2> DEFINE carried == body.mode = "reconcile" /\ p.auth # NoAuth
  <2> DEFINE q == [mode |-> body.mode, auth |-> IF carried THEN p.auth ELSE body.auth,
                   bootstrap |-> body.bootstrap, proof |-> p]
  <2>1. requests' = requests \cup {q} /\ Verified(p)
        /\ UNCHANGED <<mem, disk, clock, proofFile, walletPay, replies>>
    BY <1>2 DEF BeginRecord
  <2>2. p \in Proof
    <3>1. CASE proofFile = Unreadable
      <4>1. /\ Payer[BaselineTx] \in Wallets /\ Paid[BaselineTx] \in Nat
            /\ Day(clock) \in Nat
        BY <1>1, ChainAssumption, GatewayAssumption, BoundAssumption DEF Day
      <4> QED
        BY <3>1, <4>1, BoundAssumption, GatewayAssumption DEF ProofRead, Proof
    <3>2. CASE proofFile # Unreadable
      BY <1>1, <3>2 DEF ProofRead
    <3> QED
      BY <3>1, <3>2
  <2>3. /\ body.mode \in {"record", "reconcile"} /\ body.bootstrap \in BOOLEAN
        /\ body.auth \in AuthIds \cup {NoAuth}
    BY GatewayAssumption
  <2> HIDE DEF p
  <2>4. q \in Request
    BY <2>2, <2>3 DEF Request, Modes, Proof
  <2>5. Verified(q.proof)
    BY <2>1
  <2> HIDE DEF q
  <2> QED
    BY <1>1, <2>1, <2>4, <2>5, StoreUntouched
<1>3. ASSUME NEW q \in requests, DropRequest(q)
      PROVE  IInv' /\ DiskExtends
  BY <1>1, <1>3, StoreUntouched DEF DropRequest
<1>4. ASSUME NEW q \in requests, RecordLapsed(q)
      PROVE  IInv' /\ DiskExtends
  <2> DEFINE u == WithStatus(mem, q.auth, "expired")
  <2>1. /\ StoreInv(mem) /\ StoreInv(disk) /\ Extends(disk, mem)
        /\ StoreTypeOK(mem) /\ StoreTypeOK(disk)
    BY DEF IInv, TypeOK
  <2>2. /\ mem' = u /\ disk' = disk /\ requests' = requests \ {q}
        /\ UNCHANGED <<clock, proofFile, walletPay, replies>>
        /\ q.auth \in DOMAIN mem.reservations
        /\ mem.reservations[q.auth].status = "active"
    BY <1>4 DEF RecordLapsed, Lapses, Reservable
  <2>3. Good(mem, u)
    BY <2>1, <2>2, WithStatusGood
  <2> HIDE DEF u
  <2>4. /\ StoreInv(u) /\ StoreTypeOK(u) /\ Extends(mem, u)
    BY <2>3 DEF Good, StoreInv, LedgerInv
  <2>5. Extends(disk, u) /\ Extends(disk, disk)
    BY <2>1, <2>4, ExtendsTransitive, ExtendsReflexive
  <2>6. TypeOK' /\ PromisesKept' /\ RequestsVerified'
    BY <2>2, <2>4 DEF IInv, TypeOK, PromisesKept, RequestsVerified
  <2>7. WalletKept'
    BY <2>2, <2>4 DEF IInv, WalletKept, Extends
  <2> QED
    BY <2>1, <2>2, <2>4, <2>5, <2>6, <2>7 DEF IInv, DiskExtends
<1> QED
  BY <1>2, <1>3, <1>4 DEF RecordNext

(* Browser-wallet payments and their recovery.                             *)
LEMMA WalletStep ==
  ASSUME IInv, WalletNext
  PROVE  IInv' /\ DiskExtends
<1>1. /\ StoreInv(mem) /\ Good(mem, mem) /\ clock \in Nat /\ Day(clock) \in Nat
      /\ proofFile \in Proof \cup {Unreadable}
      /\ requests \subseteq Request /\ walletPay \in Payment \cup {Idle}
      /\ \A q \in requests : Verified(q.proof)
      /\ replies \in Promises
  BY ExtendsReflexive, BoundAssumption
     DEF IInv, TypeOK, RequestsVerified, Good, Day
<1>2. walletPay # Idle => walletPay \in Payment
  BY <1>1
<1>3. ASSUME NEW t \in TxIds, NEW w \in Wallets, NEW x \in Nat,
             NEW r \in Resources, NEW day \in Nat
      PROVE  /\ WalletProof(t, w, x, r, day) \in Proof
             /\ WalletProof(t, w, x, r, day).tx = t
             /\ Verified(WalletProof(t, w, x, r, day)) <=>
                  SameWallet(w, Payer[t]) /\ x = Paid[t]
  BY DEF WalletProof, Proof, Verified
<1>4. ASSUME NEW svc \in Services, BeginWalletPay(svc)
      PROVE  IInv' /\ DiskExtends
  <2>1. svc.resource \in Resources /\ svc.price \in Nat
    BY GatewayAssumption
  <2>2. walletPay' \in Payment /\ walletPay'.phase = "sent"
    BY <1>1, <1>4, <2>1 DEF BeginWalletPay, Payment, Sent
  <2> QED
    BY <1>1, <1>4, <2>2, StoreUntouched DEF BeginWalletPay
<1>5. ASSUME NEW t \in TxIds, NEW saved \in SaveOutcomes, WalletSettled(t, saved)
      PROVE  IInv' /\ DiskExtends
  <2> DEFINE p == WalletProof(t, OfficialPayer, walletPay.price,
                              walletPay.resource, Day(clock))
  <2> DEFINE u == RecordedOnce(mem, "browser", p, FALSE)
  <2>1. walletPay \in Payment
    BY <1>2, <1>5 DEF WalletSettled, Idle
  <2>2. /\ walletPay.price \in Nat /\ walletPay.resource \in Resources
        /\ OfficialPayer \in Wallets /\ saved \in BOOLEAN
    BY <2>1, GatewayAssumption DEF Payment, Sent, Ledgered
  <2>3. p \in Proof /\ p.tx = t /\ Verified(p)
    BY <1>1, <1>3, <1>5, <2>2 DEF WalletSettled, SameWallet
  <2>4. /\ Update(u, saved)
        /\ walletPay' = [walletPay EXCEPT !.phase = "ledgered", !.tx = t,
                              !.day = Day(clock), !.kept = saved]
        /\ UNCHANGED <<clock, proofFile, requests, replies>>
    BY <1>5 DEF WalletSettled
  <2> HIDE DEF p
  <2>5. Good(mem, u) /\ t \in Known(u)
    BY <1>1, <2>3, RecordedOnceGood
  <2> HIDE DEF u
  <2>6. /\ StoreInv(mem') /\ StoreInv(disk')
        /\ StoreTypeOK(mem') /\ StoreTypeOK(disk')
        /\ Extends(disk', mem') /\ Extends(disk, disk') /\ Kept(replies, disk')
    BY <2>2, <2>4, <2>5, UpdateStep
  <2>7. PromisesKept' /\ replies' \in Promises
    BY <1>1, <2>4, <2>6 DEF PromisesKept, TypeOK
  <2>8. walletPay' \in Payment
    BY <1>1, <1>5, <2>1, <2>2, <2>4 DEF WalletSettled, Payment, Sent, Ledgered
  <2>9. TypeOK' /\ RequestsVerified'
    BY <1>1, <2>4, <2>6, <2>7, <2>8 DEF TypeOK, RequestsVerified
  <2>10. WalletKept'
    <3>1. walletPay'.tx = t /\ walletPay'.kept = saved
      BY <2>1, <2>4 DEF Payment, Sent, Ledgered
    <3> QED
      BY <2>4, <2>5, <3>1 DEF WalletKept, Update
  <2> QED
    BY <2>6, <2>7, <2>9, <2>10 DEF IInv, DiskExtends
<1>6. ASSUME NEW promised \in BOOLEAN, NEW saved \in SaveOutcomes,
             WalletPromoted(promised, saved)
      PROVE  IInv' /\ DiskExtends
  <2> DEFINE p == WalletProof(walletPay.tx, OfficialPayer, walletPay.price,
                              walletPay.resource, walletPay.day)
  <2>1. walletPay \in Payment /\ saved \in BOOLEAN
    BY <1>2, <1>6, GatewayAssumption DEF WalletPromoted, Idle
  <2>2. /\ StoreInv(mem') /\ StoreInv(disk')
        /\ StoreTypeOK(mem') /\ StoreTypeOK(disk')
        /\ Extends(disk', mem') /\ Extends(disk, disk') /\ Kept(replies, disk')
    BY <1>1, <1>6, <2>1, UpdateStep DEF WalletPromoted
  <2>3. /\ proofFile' = IF promised THEN p ELSE proofFile
        /\ walletPay' = Idle /\ UNCHANGED <<clock, requests>>
        /\ Promise("recorded", walletPay.tx, saved \/ walletPay.kept)
        /\ walletPay.phase = "ledgered" /\ Update(mem, saved)
        /\ walletPay.tx \in TxIds /\ walletPay.kept \in BOOLEAN
    BY <1>6, <2>1 DEF WalletPromoted, Payment, Sent, Ledgered
  <2>4. p \in Proof
    BY <1>3, <2>1, <2>3, GatewayAssumption DEF Payment, Sent, Ledgered
  <2> HIDE DEF p
  <2>5. saved \/ walletPay.kept => walletPay.tx \in Known(disk')
    BY <2>1, <2>2, <2>3 DEF IInv, WalletKept, Update, Extends
  <2>6. PromisesKept' /\ replies' \in Promises
    <3> DEFINE answered == saved \/ walletPay.kept
    <3>1. answered \in BOOLEAN /\ Promise("recorded", walletPay.tx, answered)
      BY <2>1, <2>3
    <3>2. answered => walletPay.tx \in Known(disk')
      BY <2>5
    <3> HIDE DEF answered
    <3> QED
      BY <2>2, <2>3, <3>1, <3>2, PromiseStep
  <2>7. TypeOK' /\ RequestsVerified' /\ WalletKept'
    BY <1>1, <2>2, <2>3, <2>4, <2>6 DEF TypeOK, RequestsVerified, WalletKept, Idle
  <2> QED
    BY <2>2, <2>6, <2>7 DEF IInv, DiskExtends
<1>7. ASSUME WalletAbandoned
      PROVE  IInv' /\ DiskExtends
  BY <1>1, <1>7, StoreUntouched DEF WalletAbandoned, Idle
<1>8. ASSUME NEW p \in RecoveryProofs, BeginRecovery(p)
      PROVE  IInv' /\ DiskExtends
  <2>1. p \in Proof
    <3>1. ASSUME NEW e \in BrowserEntries
          PROVE  WalletProof(e.tx, e.wallet, e.amount, e.resource, e.day) \in Proof
      <4>1. PICK i \in DOMAIN mem.transactions : e = mem.transactions[i]
        BY DEF BrowserEntries
      <4>2. e \in Entry /\ Official(e)
        BY <1>1, <4>1, ElementOfSeq, LenProperties
           DEF StoreInv, LedgerInv, StoreTypeOK, BrowserEntries, Official
      <4>3. e.tx \in TxIds
        BY <1>1, <4>1, <4>2 DEF StoreInv, LedgerInv, EntriesTrue
      <4> QED
        BY <1>3, <4>2, <4>3 DEF Entry
    <3>2. \A t \in TxIds : WalletProof(t, OfficialPayer, RecoverPrice, DefaultResource,
                                        Day(clock)) \in Proof
      BY <1>1, <1>3, GatewayAssumption, BoundAssumption
    <3> QED
      BY <3>1, <3>2 DEF RecoveryProofs
  <2> DEFINE q == [mode |-> "verify", auth |-> NoAuth, bootstrap |-> FALSE, proof |-> p]
  <2>2. /\ requests' = requests \cup {q} /\ Verified(p)
        /\ UNCHANGED <<mem, disk, clock, proofFile, walletPay, replies>>
    BY <1>8 DEF BeginRecovery
  <2>3. q \in Request /\ q.proof = p
    BY <2>1 DEF Request, Modes
  <2> HIDE DEF q
  <2> QED
    BY <1>1, <2>2, <2>3, StoreUntouched
<1>9. ASSUME NEW q \in requests, PromoteRecovery(q)
      PROVE  IInv' /\ DiskExtends
  <2> DEFINE n == [q EXCEPT !.mode = "recover"]
  <2>1. n \in Request /\ n.proof = q.proof /\ q.proof \in Proof /\ Verified(q.proof)
    BY <1>1 DEF Request, Modes
  <2>2. /\ proofFile' = q.proof /\ requests' = (requests \ {q}) \cup {n}
        /\ UNCHANGED <<mem, disk, clock, walletPay, replies>>
    BY <1>9 DEF PromoteRecovery
  <2> HIDE DEF n
  <2> QED
    BY <1>1, <2>1, <2>2, StoreUntouched
<1>10. ASSUME NEW q \in requests, NEW saved \in SaveOutcomes, FinishRecovery(q, saved)
       PROVE  IInv' /\ DiskExtends
  <2> DEFINE u == RecordedOnce(mem, "browser", q.proof, FALSE)
  <2>1. /\ q.proof \in Proof /\ Verified(q.proof) /\ q.proof.tx \in TxIds
        /\ saved \in BOOLEAN
    BY <1>1, GatewayAssumption DEF Request, Proof
  <2>2. Good(mem, u) /\ q.proof.tx \in Known(u)
    BY <1>1, <2>1, RecordedOnceGood
  <2>3. /\ Update(u, saved) /\ Promise("recorded", q.proof.tx, saved)
        /\ requests' = requests \ {q} /\ UNCHANGED <<clock, proofFile, walletPay>>
    BY <1>10 DEF FinishRecovery
  <2> HIDE DEF u
  <2> QED
    BY <2>1, <2>2, <2>3, UpdateAnswered
<1> QED
  BY <1>4, <1>5, <1>6, <1>7, <1>8, <1>9, <1>10, GatewayAssumption DEF WalletNext

(* Clients rewriting the proof file, time, and crashes.                    *)
LEMMA OutsideStep ==
  ASSUME IInv, OutsideNext
  PROVE  IInv' /\ DiskExtends
<1>1. /\ clock \in Nat /\ Day(clock) \in Nat /\ proofFile \in Proof \cup {Unreadable}
      /\ requests \subseteq Request /\ walletPay \in Payment \cup {Idle}
      /\ \A q \in requests : Verified(q.proof)
  BY BoundAssumption DEF IInv, TypeOK, RequestsVerified, Day
<1>2. ASSUME TearProof \/ Tick
      PROVE  IInv' /\ DiskExtends
  BY <1>1, <1>2, StoreUntouched DEF TearProof, Tick
<1>3. ASSUME NEW c \in ProofChoices, WriteProof(c)
      PROVE  IInv' /\ DiskExtends
  <2>1. /\ c.tx \in TxIds /\ c.payer \in Wallets /\ c.amount \in Nat
        /\ c.resource \in Resources /\ c.auth \in AuthIds \cup {NoAuth}
    BY GatewayAssumption
  <2>2. proofFile' \in Proof
    BY <1>1, <1>3, <2>1 DEF WriteProof, Proof
  <2> QED
    BY <1>1, <1>3, <2>2, StoreUntouched DEF WriteProof
<1>4. ASSUME Crash
      PROVE  IInv' /\ DiskExtends
  <2> DEFINE u == Normalized(disk)
  <2>1. /\ mem' = u /\ disk' = disk /\ requests' = {} /\ walletPay' = Idle
        /\ UNCHANGED <<clock, proofFile, replies>>
    BY <1>4 DEF Crash
  <2>2. StoreInv(disk) /\ StoreTypeOK(disk)
    BY DEF IInv, TypeOK
  <2>3. Good(disk, u)
    BY <2>2, NormalizedGood
  <2> HIDE DEF u
  <2>4. StoreInv(u) /\ StoreTypeOK(u) /\ Extends(disk, u) /\ Extends(disk, disk)
    BY <2>2, <2>3, ExtendsReflexive DEF Good, StoreInv, LedgerInv
  <2>5. TypeOK' /\ PromisesKept' /\ RequestsVerified' /\ WalletKept'
    BY <2>1, <2>4
       DEF IInv, TypeOK, PromisesKept, RequestsVerified, WalletKept, Idle
  <2> QED
    BY <2>1, <2>2, <2>4, <2>5 DEF IInv, DiskExtends
<1> QED
  BY <1>2, <1>3, <1>4 DEF OutsideNext

(***************************************************************************)
(* The theorems.                                                           *)
(***************************************************************************)

(* The empty store has nothing to be false about.                          *)
LEMMA InitIInv == Init => IInv
<1> SUFFICES ASSUME Init
             PROVE  IInv
  OBVIOUS
<1>1. /\ EmptyState.reservations = [a \in {} |-> NoTx]
      /\ EmptyState.transactions = <<>> /\ EmptyState.receipts = <<>>
      /\ EmptyState.settledKeys = {} /\ EmptyState.forgotten = {}
      /\ EmptyState.policies = [w \in {} |-> DefaultPolicy]
      /\ EmptyState.minted = [w \in Wallets |-> 0]
      /\ EmptyState = [policies |-> EmptyState.policies,
           balances |-> EmptyState.balances, receipts |-> EmptyState.receipts,
           transactions |-> EmptyState.transactions,
           settledKeys |-> EmptyState.settledKeys,
           reservations |-> EmptyState.reservations,
           minted |-> EmptyState.minted, forgotten |-> EmptyState.forgotten]
  BY DEF EmptyState
<1>2. /\ <<>> \in Seq(Receipt) /\ <<>> \in Seq(Entry) /\ Len(<<>>) = 0
      /\ DOMAIN <<>> = {}
  BY EmptySeq, LenProperties
<1> HIDE DEF EmptyState
<1>3. StoreTypeOK(EmptyState)
  BY <1>1, <1>2, BoundAssumption DEF StoreTypeOK
<1>4. StoreInv(EmptyState)
  BY <1>1, <1>2, <1>3 DEF StoreInv, LedgerInv, Unique, EntriesTrue, Bound
<1>5. Extends(EmptyState, EmptyState)
  BY <1>3, ExtendsReflexive
<1> QED
  BY <1>3, <1>4, <1>5
     DEF Init, IInv, TypeOK, PromisesKept, Kept, RequestsVerified, Promises,
         WalletKept, Idle

(* Every step keeps the invariant, and the file only ever promises more.   *)
LEMMA NextIInv == IInv /\ [Next]_vars => IInv' /\ DiskExtends
<1> SUFFICES ASSUME IInv, [Next]_vars
             PROVE  IInv' /\ DiskExtends
  OBVIOUS
<1>1. CASE \E saved \in SaveOutcomes : SandboxNext(saved) \/ PolicyNext(saved)
  BY <1>1, SandboxStep, PolicyStep
<1>2. CASE RecordNext
  BY <1>2, RecordStep
<1>3. CASE WalletNext
  BY <1>3, WalletStep
<1>4. CASE OutsideNext
  BY <1>4, OutsideStep
<1>5. CASE UNCHANGED vars
  BY <1>5, StoreUntouched DEF vars, IInv, TypeOK, RequestsVerified
<1> QED
  BY <1>1, <1>2, <1>3, <1>4, <1>5 DEF Next

(* The invariant holds in every reachable state.                           *)
THEOREM Invariance == Spec => []IInv
BY InitIInv, NextIInv, PTL DEF Spec

(* Every variable has its type and no list of the store outgrows its cap.  *)
THEOREM TypeCorrect == Spec => []TypeOK
<1>1. IInv => TypeOK
  BY DEF IInv
<1> QED
  BY <1>1, Invariance, PTL

(* No two official entries of the ledger, in memory or on disk, are of the *)
(* same settlement, whichever handlers recorded it.                        *)
THEOREM LedgerUniqueness == Spec => []LedgerUnique
<1>1. IInv => LedgerUnique
  BY DEF IInv, StoreInv, LedgerInv, LedgerUnique, Everywhere
<1> QED
  BY <1>1, Invariance, PTL

(* Official entries and committed authorizations agree with the chain.     *)
THEOREM LedgerTruth == Spec => []LedgerTrue
<1>1. IInv => LedgerTrue
  BY DEF IInv, StoreInv, LedgerInv, LedgerTrue, Everywhere
<1> QED
  BY <1>1, Invariance, PTL

(* What a 2xx answer promised survives any failed save and any crash; the  *)
(* wallet lane's counts once one of the two saves under it worked.         *)
THEOREM Durability == Spec => []PromisesKept
<1>1. IInv => PromisesKept
  BY DEF IInv
<1> QED
  BY <1>1, Invariance, PTL

(* On the disk an authorization never disappears, never becomes active     *)
(* again, and keeps its settlement once committed.                         *)
THEOREM ForwardOnly == Spec => AuthorizationsForward
<1>1. IInv /\ [Next]_vars => [StepsForward]_vars
  BY NextIInv DEF DiskExtends, Extends, StepsForward
<1> QED
  BY <1>1, Invariance, PTL DEF Spec, AuthorizationsForward

(***************************************************************************)
(* The file implements the contract of Authorizations.                     *)
(***************************************************************************)

(* What a reservation stands for when it moves forward: its stage does, its*)
(* terms stay, and so does its settlement once there is one.               *)
LEMMA ForwardStage ==
  ASSUME IInv, IInv', DiskExtends, NEW a \in AuthIds
  PROVE  /\ StageOf(a)' \in Contract!Later(StageOf(a))
         /\ IF StageOf(a) = "none"
              THEN TermsOf(a)' \in IF StageOf(a)' = "none" THEN {NoAuth}
                                   ELSE [payer: Wallets, amount: Nat]
              ELSE TermsOf(a)' = TermsOf(a)
         /\ StageOf(a) = "spent" => SettlementOf(a)' = SettlementOf(a)
<1>1. StoreTypeOK(disk) /\ StoreTypeOK(disk')
  BY DEF IInv, TypeOK
<1>2. /\ disk.reservations \in [DOMAIN disk.reservations -> Reservation]
      /\ disk'.reservations \in [DOMAIN disk'.reservations -> Reservation]
  BY <1>1 DEF StoreTypeOK
<1>3. CASE a \notin DOMAIN disk.reservations
  <2>1. StageOf(a) = "none"
    BY <1>3 DEF StageOf
  <2>2. CASE a \notin DOMAIN disk'.reservations
    BY <2>1, <2>2 DEF StageOf, TermsOf, Contract!Later, Contract!Stages
  <2>3. CASE a \in DOMAIN disk'.reservations
    <3>1. /\ disk'.reservations[a].wallet \in Wallets
          /\ disk'.reservations[a].amount \in Nat
      BY <1>2, <2>3 DEF Reservation
    <3>2. TermsOf(a)' \in [payer: Wallets, amount: Nat]
      BY <2>3, <3>1, WalletAssumption DEF TermsOf
    <3>3. StageOf(a)' \in {"held", "spent", "freed"}
      BY <2>3 DEF StageOf
    <3> QED
      BY <2>1, <3>2, <3>3 DEF Contract!Later, Contract!Stages
  <2> QED
    BY <2>2, <2>3
<1>4. CASE a \in DOMAIN disk.reservations
  <2> DEFINE r == disk.reservations[a]
             n == disk'.reservations[a]
  <2>1. a \in DOMAIN disk'.reservations /\ Forward(r, n)
    BY <1>4 DEF DiskExtends, Extends, AuthorizationsExtend
  <2>2. r.status \in Status /\ n.status \in After(r.status)
    BY <1>2, <1>4, <2>1 DEF Forward, Reservation
  <2>3. StageOf(a) # "none"
    BY <1>4 DEF StageOf
  <2>4. StageOf(a)' \in Contract!Later(StageOf(a))
    BY <1>4, <2>1, <2>2
       DEF StageOf, Status, After, Contract!Later, Contract!Stages
  <2>5. TermsOf(a)' = TermsOf(a)
    BY <1>4, <2>1 DEF TermsOf, Forward, SameWallet
  <2>6. StageOf(a) = "spent" => r.status = "committed"
    BY <1>4, <2>2 DEF StageOf, Status
  <2>7. StageOf(a) = "spent" => SettlementOf(a)' = SettlementOf(a)
    BY <1>4, <2>1, <2>6 DEF SettlementOf, Forward
  <2> QED
    BY <2>3, <2>4, <2>5, <2>7
<1> QED
  BY <1>3, <1>4

(* A settlement is named only by a spent authorization, is known, and has  *)
(* the payer and the amount the authorization was granted for.             *)
SpentBy ==
  \A a \in AuthIds :
    IF StageOf(a) # "spent" THEN SettlementOf(a) = NoTx
    ELSE /\ SettlementOf(a) \in Known(disk) \cap TxIds
         /\ TermsOf(a) = [payer  |-> WalletKey[Payer[SettlementOf(a)]],
                          amount |-> Paid[SettlementOf(a)]]

(* It holds in every state of the invariant.                               *)
LEMMA SpentBySettlement == IInv => SpentBy
<1> SUFFICES ASSUME IInv, NEW a \in AuthIds
    PROVE  IF StageOf(a) # "spent" THEN SettlementOf(a) = NoTx
           ELSE /\ SettlementOf(a) \in Known(disk) \cap TxIds
                /\ TermsOf(a) = [payer  |-> WalletKey[Payer[SettlementOf(a)]],
                                 amount |-> Paid[SettlementOf(a)]]
  BY DEF SpentBy
<1>1. StoreTypeOK(disk) /\ Bound(disk)
  BY DEF IInv, StoreInv, TypeOK
<1>2. CASE a \notin DOMAIN disk.reservations
  BY <1>2 DEF StageOf, SettlementOf
<1>3. CASE a \in DOMAIN disk.reservations
  <2> DEFINE r == disk.reservations[a]
  <2>1. r.status \in Status
    BY <1>1, <1>3 DEF StoreTypeOK, Reservation
  <2>2. (StageOf(a) = "spent") <=> (r.status = "committed")
    BY <1>3, <2>1 DEF StageOf, Status
  <2> QED
    BY <1>1, <1>3, <2>2 DEF Bound, SettlementOf, TermsOf, SameWallet
<1> QED
  BY <1>2, <1>3

(* The file is only ever a state of the contract: every authorization is   *)
(* granted, freed and spent as Authorizations allows, whatever the         *)
(* handlers, the clients, failed saves and crashes do.                     *)
THEOREM AuthorizationContract == Spec => ImplementsAuthorizations
<1>1. Init => Contract!AuthInit
  <2> SUFFICES ASSUME Init
               PROVE  Contract!AuthInit
    OBVIOUS
  <2>1. /\ disk.reservations = [a \in {} |-> NoTx]
        /\ disk.transactions = <<>> /\ disk.forgotten = {}
    BY DEF Init, EmptyState
  <2>2. DOMAIN disk.reservations = {} /\ DOMAIN disk.transactions = {}
    BY <2>1
  <2>3. Known(disk) = {}
    BY <2>1, <2>2 DEF Known, OfficialTxs
  <2> QED
    BY <2>2, <2>3 DEF Contract!AuthInit, StageOf, TermsOf, SettlementOf
<1>2. IInv /\ IInv' /\ DiskExtends => Contract!Advance
  <2> SUFFICES ASSUME IInv, IInv', DiskExtends
               PROVE  Contract!Advance
    OBVIOUS
  <2>1. Known(disk) \subseteq Known(disk')
    BY DEF DiskExtends, Extends
  <2>2. ASSUME NEW a \in AuthIds
        PROVE  /\ StageOf(a)' \in Contract!Later(StageOf(a))
               /\ Contract!KeepsTerms(a)
               /\ Contract!KeepsSettlement(a)
    <3>1. /\ StageOf(a)' \in Contract!Later(StageOf(a))
          /\ IF StageOf(a) = "none"
               THEN TermsOf(a)' \in IF StageOf(a)' = "none" THEN {NoAuth}
                                    ELSE [payer: Wallets, amount: Nat]
               ELSE TermsOf(a)' = TermsOf(a)
          /\ StageOf(a) = "spent" => SettlementOf(a)' = SettlementOf(a)
      BY <2>2, ForwardStage
    <3>2. IF StageOf(a)' # "spent" THEN SettlementOf(a)' = NoTx
          ELSE /\ SettlementOf(a)' \in Known(disk') \cap TxIds
               /\ TermsOf(a)' = [payer  |-> WalletKey[Payer[SettlementOf(a)']],
                                 amount |-> Paid[SettlementOf(a)']]
      <4>1. SpentBy'
        BY SpentBySettlement, PTL
      <4> QED
        BY <2>2, <4>1 DEF SpentBy
    <3> QED
      BY <3>1, <3>2, <2>2 DEF Contract!KeepsTerms, Contract!KeepsSettlement
  <2> QED
    BY <2>1, <2>2 DEF Contract!Advance
<1>3. IInv /\ [Next]_vars /\ IInv' => [Contract!Advance]_(Contract!authVars)
  BY <1>2, NextIInv
<1> QED
  BY <1>1, <1>3, Invariance, PTL DEF Spec, ImplementsAuthorizations, Contract!AuthSpec

(***************************************************************************)
(* A settled sandbox payment finds its receipt until the cap evicts it.    *)
(***************************************************************************)

SameReceipts(s, u) == u.receipts = s.receipts /\ u.settledKeys = s.settledKeys

(* Nothing but a sandbox payment touches the receipts or the index.        *)
LEMMA ReceiptsKept ==
  ASSUME NEW s, StoreTypeOK(s)
  PROVE  /\ \A w, policy : SameReceipts(s, WithPolicy(s, w, policy))
         /\ \A w, eth, usdc : SameReceipts(s, Minted(s, w, eth, usdc))
         /\ \A e : SameReceipts(s, AppendTransaction(s, e))
         /\ \A now : SameReceipts(s, Expired(s, now))
         /\ \A a, w, r, x, now : SameReceipts(s, Reserved(s, a, w, r, x, now))
         /\ \A a, status : SameReceipts(s, WithStatus(s, a, status))
         /\ \A a : SameReceipts(s, Released(s, a))
         /\ \A kind, p, covered : SameReceipts(s, RecordedOnce(s, kind, p, covered))
         /\ \A a, p, now : SameReceipts(s, Committed(s, a, p, now))
<1>1. s = [policies |-> s.policies, balances |-> s.balances,
           receipts |-> s.receipts, transactions |-> s.transactions,
           settledKeys |-> s.settledKeys, reservations |-> s.reservations,
           minted |-> s.minted, forgotten |-> s.forgotten]
  BY DEF StoreTypeOK
<1>2. \A w, policy : SameReceipts(s, WithPolicy(s, w, policy))
  BY <1>1 DEF SameReceipts, WithPolicy
<1>3. \A w, eth, usdc : SameReceipts(s, Minted(s, w, eth, usdc))
  BY <1>1 DEF SameReceipts, Minted
<1>4. \A e : SameReceipts(s, AppendTransaction(s, e))
  BY <1>1 DEF SameReceipts, AppendTransaction
<1>5. \A now : SameReceipts(s, Expired(s, now))
  BY <1>1 DEF SameReceipts, Expired
<1>6. \A a, w, r, x, now : SameReceipts(s, Reserved(s, a, w, r, x, now))
  BY <1>1 DEF SameReceipts, Reserved
<1>7. \A a, status : SameReceipts(s, WithStatus(s, a, status))
  BY <1>1 DEF SameReceipts, WithStatus
<1>8. \A a : SameReceipts(s, Released(s, a))
  BY <1>7 DEF SameReceipts, Released
<1>9. \A kind, p, covered : SameReceipts(s, RecordedOnce(s, kind, p, covered))
  BY <1>4 DEF SameReceipts, RecordedOnce
<1>10. ASSUME NEW a, NEW p, NEW now
       PROVE  SameReceipts(s, Committed(s, a, p, now))
  <2> DEFINE u == [s EXCEPT !.reservations[a].status = "committed",
                            !.reservations[a].tx = p.tx]
             c == HoldsBudget(s.reservations[a], now)
             e == OfficialEntry("official", p, c)
  <2>1. Committed(s, a, p, now) = IF p.tx \in OfficialTxs(u) THEN u
                                  ELSE AppendTransaction(u, e)
    BY DEF Committed, RecordedOnce
  <2>2. u.receipts = s.receipts /\ u.settledKeys = s.settledKeys
    BY <1>1
  <2>3. /\ AppendTransaction(u, e).receipts = u.receipts
        /\ AppendTransaction(u, e).settledKeys = u.settledKeys
    BY <1>1 DEF AppendTransaction
  <2> HIDE DEF u, e
  <2> QED
    BY <2>1, <2>2, <2>3 DEF SameReceipts
<1> QED
  BY <1>2, <1>3, <1>4, <1>5, <1>6, <1>7, <1>8, <1>9, <1>10

(* A state with the receipts of an answerable one is answerable.           *)
LEMMA AnswerableKept ==
  ASSUME NEW s, NEW u, SameReceipts(s, u), Answerable(s)
  PROVE  Answerable(u)
BY DEF SameReceipts, Answerable, HasReceipt

(* A payment adds its receipt in front; at the cap it evicts the last one. *)
LEMMA SettledAnswerable ==
  ASSUME NEW s, StoreTypeOK(s), Answerable(s), NEW k \in Keys, NEW now \in Nat
  PROVE  Answerable(Settled(s, k, now))
<1> DEFINE item == [key |-> k, wallet |-> k.wallet, amount |-> k.price,
                    day |-> Day(now)]
           new == Prepend(s.receipts, item, ReceiptCap)
           u == Settled(s, k, now)
<1>1. /\ s.receipts \in Seq(Receipt) /\ Len(s.receipts) <= ReceiptCap
      /\ ReceiptCap \in Nat \ {0} /\ Len(s.receipts) \in Nat
      /\ DOMAIN s.receipts = 1 .. Len(s.receipts)
  BY BoundAssumption, LenProperties DEF StoreTypeOK
<1>2. u.receipts = new /\ u.settledKeys = s.settledKeys \cup {k}
  <2>1. s = [policies |-> s.policies, balances |-> s.balances,
             receipts |-> s.receipts, transactions |-> s.transactions,
             settledKeys |-> s.settledKeys, reservations |-> s.reservations,
             minted |-> s.minted, forgotten |-> s.forgotten]
    BY DEF StoreTypeOK
  <2> QED
    BY <2>1 DEF Settled, AppendTransaction
<1> HIDE DEF u
<1> DEFINE n == IF Len(s.receipts) < ReceiptCap THEN Len(s.receipts) + 1
                                                 ELSE ReceiptCap
<1>3. /\ new = [i \in 1 .. n |-> IF i = 1 THEN item ELSE s.receipts[i - 1]]
      /\ n \in Nat /\ n >= 1
  BY <1>1 DEF Prepend
<1>4. Len(new) = n /\ DOMAIN new = 1 .. n
  <2>1. item \in Receipt
    BY KeyAssumption, BoundAssumption DEF Receipt, Day
  <2>2. new \in Seq(Receipt) /\ DOMAIN new = 1 .. n
    BY <1>1, <2>1, PrependType
  <2> HIDE DEF new, n
  <2>3. Len(new) \in Nat /\ 1 .. Len(new) = 1 .. n
    BY <2>2, LenProperties
  <2> QED
    BY <1>3, <2>2, <2>3
<1>5. new[1].key = k
  BY <1>3
<1>6. HasReceipt(u, k)
  BY <1>2, <1>3, <1>4, <1>5 DEF HasReceipt
<1>7. ASSUME NEW j \in s.settledKeys, Len(new) # ReceiptCap
      PROVE  HasReceipt(u, j)
  <2>1. /\ Len(s.receipts) < ReceiptCap /\ n = Len(s.receipts) + 1
    BY <1>1, <1>4, <1>7
  <2>2. PICK i \in DOMAIN s.receipts : s.receipts[i].key = j
    BY <1>1, <2>1 DEF Answerable, HasReceipt
  <2>3. i \in 1 .. Len(s.receipts) /\ i + 1 \in 1 .. n /\ i + 1 # 1
    BY <1>1, <2>1, <2>2
  <2>4. new[i + 1] = s.receipts[i]
    BY <1>3, <2>3
  <2> QED
    BY <1>2, <1>4, <2>2, <2>3, <2>4 DEF HasReceipt
<1> QED
  BY <1>2, <1>6, <1>7 DEF Answerable, u

(* Reopening the file rewrites wallets, never keys.                        *)
LEMMA NormalizedAnswerable ==
  ASSUME NEW s, StoreInv(s), Answerable(s)
  PROVE  Answerable(Normalized(s))
<1> DEFINE u == Normalized(s)
<1>1. /\ s.receipts \in Seq(Receipt) /\ Len(s.receipts) \in Nat
      /\ DOMAIN s.receipts = 1 .. Len(s.receipts)
  BY LenProperties DEF StoreInv, LedgerInv, StoreTypeOK
<1>2. /\ u.receipts = [i \in DOMAIN s.receipts |->
                         [s.receipts[i] EXCEPT !.wallet = WalletKey[s.receipts[i].wallet]]]
      /\ u.settledKeys = s.settledKeys
  <2>1. s = [policies |-> s.policies, balances |-> s.balances,
             receipts |-> s.receipts, transactions |-> s.transactions,
             settledKeys |-> s.settledKeys, reservations |-> s.reservations,
             minted |-> s.minted, forgotten |-> s.forgotten]
    BY DEF StoreInv, LedgerInv, StoreTypeOK
  <2> QED
    BY <2>1 DEF Normalized
<1> HIDE DEF u
<1>3. Len(u.receipts) = Len(s.receipts) /\ DOMAIN u.receipts = DOMAIN s.receipts
  <2>1. u.receipts \in Seq(Receipt)
    BY NormalizedGood DEF u, Good, StoreInv, LedgerInv, StoreTypeOK
  <2>2. DOMAIN u.receipts = 1 .. Len(u.receipts) /\ Len(u.receipts) \in Nat
    BY <2>1, LenProperties
  <2>3. DOMAIN u.receipts = DOMAIN s.receipts
    BY <1>2
  <2> QED
    BY <1>1, <2>2, <2>3
<1>4. \A i \in DOMAIN s.receipts : u.receipts[i].key = s.receipts[i].key
  <2>1. \A i \in DOMAIN s.receipts : s.receipts[i] \in Receipt
    BY <1>1
  <2> QED
    BY <1>2, <2>1 DEF Receipt
<1> QED
  BY <1>2, <1>3, <1>4 DEF Answerable, HasReceipt, u

(* An update with an answerable state, saved or not.                       *)
LEMMA UpdateAnswerable ==
  ASSUME RetriesAnswered, NEW s, Answerable(s), NEW saved, Update(s, saved)
  PROVE  RetriesAnswered'
BY DEF RetriesAnswered, Everywhere, Update

(* The sandbox's requests and the operator's policies.                     *)
LEMMA SandboxAnswers ==
  ASSUME IInv, RetriesAnswered, NEW saved \in SaveOutcomes, SandboxNext(saved)
  PROVE  RetriesAnswered'
<1>1. StoreTypeOK(mem) /\ Answerable(mem) /\ clock \in Nat
  BY DEF IInv, TypeOK, RetriesAnswered, Everywhere
<1>2. ASSUME NEW w \in Wallets, NEW policy \in PolicyChoices,
             SetPolicy(w, policy, saved)
      PROVE  RetriesAnswered'
  BY <1>1, <1>2, ReceiptsKept, AnswerableKept, UpdateAnswerable DEF SetPolicy
<1>3. ASSUME NEW w \in Wallets, NEW f \in Funds, Mint(w, f, saved)
      PROVE  RetriesAnswered'
  BY <1>1, <1>3, ReceiptsKept, AnswerableKept, UpdateAnswerable DEF Mint
<1>4. ASSUME NEW k \in Keys, SettleReplay(k, saved) \/ RecordWorkAudit(saved)
      PROVE  RetriesAnswered'
  BY <1>1, <1>4, UpdateAnswerable DEF SettleReplay, RecordWorkAudit
<1>5. ASSUME NEW k \in Keys, SettlePaid(k, saved)
      PROVE  RetriesAnswered'
  BY <1>1, <1>5, SettledAnswerable, UpdateAnswerable DEF SettlePaid
<1>6. ASSUME NEW k \in Keys, SettleDenied(k, saved) \/ RecordDenied(k, saved)
      PROVE  RetriesAnswered'
  BY <1>1, <1>6, ReceiptsKept, AnswerableKept, UpdateAnswerable
     DEF SettleDenied, RecordDenied
<1>7. ASSUME RecordWorkAudit(saved)
      PROVE  RetriesAnswered'
  BY <1>1, <1>7, UpdateAnswerable DEF RecordWorkAudit
<1> QED
  BY <1>2, <1>3, <1>4, <1>5, <1>6, <1>7 DEF SandboxNext

(* The authorizations of the official lane.                                *)
LEMMA PolicyAnswers ==
  ASSUME IInv, RetriesAnswered, NEW saved \in SaveOutcomes, PolicyNext(saved)
  PROVE  RetriesAnswered'
<1>1. StoreTypeOK(mem) /\ StoreInv(mem) /\ Answerable(mem)
  BY DEF IInv, TypeOK, RetriesAnswered, Everywhere
<1>2. /\ Answerable(Expired(mem, clock)) /\ StoreTypeOK(Expired(mem, clock))
  <2>1. clock \in Nat
    BY DEF IInv, TypeOK
  <2> QED
    BY <1>1, <2>1, ReceiptsKept, AnswerableKept, ExpiredGood
       DEF Good, StoreInv, LedgerInv
<1>3. ASSUME NEW a \in AuthIds, NEW w \in Wallets, NEW r \in Resources,
             NEW x \in Amounts, Reserve(a, w, r, x, saved)
      PROVE  RetriesAnswered'
  <2> DEFINE s == Expired(mem, clock)
  <2>1. Update(Reserved(s, a, w, r, x, clock), saved)
    BY <1>3 DEF Reserve
  <2> HIDE DEF s
  <2>2. Answerable(Reserved(s, a, w, r, x, clock))
    BY <1>2, ReceiptsKept, AnswerableKept DEF s
  <2> QED
    BY <2>1, <2>2, UpdateAnswerable
<1>4. ASSUME NEW w \in Wallets, NEW r \in Resources, NEW x \in Amounts,
             ReserveDenied(w, r, x, saved)
      PROVE  RetriesAnswered'
  BY <1>2, <1>4, UpdateAnswerable DEF ReserveDenied
<1>5. ASSUME NEW a \in AuthIds, Release(a, saved)
      PROVE  RetriesAnswered'
  BY <1>1, <1>5, ReceiptsKept, AnswerableKept, UpdateAnswerable DEF Release
<1>6. ASSUME NEW q \in requests, RecordNothing(q, saved)
      PROVE  RetriesAnswered'
  BY <1>1, <1>6, UpdateAnswerable DEF RecordNothing
<1>7. ASSUME NEW q \in requests, RecordCommit(q, saved)
      PROVE  RetriesAnswered'
  BY <1>1, <1>7, ReceiptsKept, AnswerableKept, UpdateAnswerable DEF RecordCommit
<1>8. ASSUME NEW q \in requests, RecordBootstrap(q, saved)
      PROVE  RetriesAnswered'
  BY <1>1, <1>8, ReceiptsKept, AnswerableKept, UpdateAnswerable
     DEF RecordBootstrap
<1> QED
  BY <1>3, <1>4, <1>5, <1>6, <1>7, <1>8 DEF PolicyNext

(* Requests, the wallet lane and the outside.                              *)
LEMMA OtherAnswers ==
  ASSUME IInv, RetriesAnswered, RecordNext \/ WalletNext \/ OutsideNext
  PROVE  RetriesAnswered'
<1>1. /\ StoreTypeOK(mem) /\ StoreInv(disk)
      /\ Answerable(mem) /\ Answerable(disk)
  BY DEF IInv, TypeOK, RetriesAnswered, Everywhere
<1>2. ASSUME UNCHANGED <<mem, disk>>
      PROVE  RetriesAnswered'
  BY <1>1, <1>2 DEF RetriesAnswered, Everywhere
<1>3. CASE RecordNext
  <2>1. ASSUME NEW q \in requests, RecordLapsed(q)
        PROVE  RetriesAnswered'
    BY <1>1, <2>1, ReceiptsKept, AnswerableKept
       DEF RecordLapsed, RetriesAnswered, Everywhere
  <2> QED
    BY <1>2, <1>3, <2>1 DEF RecordNext, BeginRecord, DropRequest
<1>4. CASE WalletNext
  <2>1. ASSUME NEW t \in TxIds, NEW saved \in SaveOutcomes,
               WalletSettled(t, saved)
        PROVE  RetriesAnswered'
    BY <1>1, <2>1, ReceiptsKept, AnswerableKept, UpdateAnswerable
       DEF WalletSettled
  <2>2. ASSUME NEW promoted \in BOOLEAN, NEW saved \in SaveOutcomes,
               WalletPromoted(promoted, saved)
        PROVE  RetriesAnswered'
    BY <1>1, <2>2, UpdateAnswerable DEF WalletPromoted
  <2>3. ASSUME NEW q \in requests, NEW saved \in SaveOutcomes,
               FinishRecovery(q, saved)
        PROVE  RetriesAnswered'
    BY <1>1, <2>3, ReceiptsKept, AnswerableKept, UpdateAnswerable
       DEF FinishRecovery
  <2> QED
    BY <1>2, <1>4, <2>1, <2>2, <2>3
       DEF WalletNext, BeginWalletPay, WalletAbandoned, BeginRecovery,
           PromoteRecovery
<1>5. CASE OutsideNext
  <2>1. ASSUME Crash
        PROVE  RetriesAnswered'
    BY <1>1, <2>1, NormalizedAnswerable DEF Crash, RetriesAnswered, Everywhere
  <2> QED
    BY <1>2, <1>5, <2>1 DEF OutsideNext, TearProof, WriteProof, Tick
<1> QED
  BY <1>3, <1>4, <1>5

(* A settled sandbox key has its receipt for as long as the list is not    *)
(* full, for any keys and cap, across lost saves and crashes.              *)
THEOREM RetriesFindReceipts == Spec => []RetriesAnswered
<1>1. Init => RetriesAnswered
  BY DEF Init, EmptyState, RetriesAnswered, Everywhere, Answerable
<1>2. IInv /\ RetriesAnswered /\ [Next]_vars => RetriesAnswered'
  <2> SUFFICES ASSUME IInv, RetriesAnswered, [Next]_vars
               PROVE  RetriesAnswered'
    OBVIOUS
  <2>1. CASE UNCHANGED vars
    BY <2>1 DEF vars, RetriesAnswered, Everywhere
  <2> QED
    BY <2>1, SandboxAnswers, PolicyAnswers, OtherAnswers DEF Next
<1> QED
  BY <1>1, <1>2, Invariance, PTL DEF Spec

(***************************************************************************)
(* The daily limit.                                                        *)
(***************************************************************************)

(* Whatever may still be recorded is dated today or earlier.               *)
DateInv ==
  /\ proofFile # Unreadable => proofFile.day <= Day(clock)
  /\ \A q \in requests : q.proof.day <= Day(clock)
  /\ walletPay.phase = "ledgered" => walletPay.day <= Day(clock)

BInv == DateInv /\ BudgetInv(mem, clock) /\ BudgetInv(disk, clock)

(* An operator who changes a policy does not lower its daily limit below   *)
(* the one in force; without this a limit may fall under what was spent.   *)
LimitRaised ==
  \A w \in Wallets, policy \in PolicyChoices, saved \in SaveOutcomes :
    SetPolicy(w, policy, saved) => PolicyOf(mem, w).dailyLimit <= policy.dailyLimit
OperatorRaises == [][LimitRaised]_vars

(* An update with a state within its budget, saved or not, while nothing   *)
(* else that carries a date changes.                                       *)
LEMMA UpdateBudget ==
  ASSUME BInv, NEW s, BudgetInv(s, clock), NEW saved, Update(s, saved),
         requests' \subseteq requests, UNCHANGED <<clock, proofFile, walletPay>>
  PROVE  BInv'
<1>1. clock' = clock /\ mem' = s /\ (disk' = s \/ disk' = disk)
  BY DEF Update
<1>2. BudgetInv(mem, clock)' /\ BudgetInv(disk, clock)'
  BY <1>1 DEF BInv, BudgetInv, WithinBudget, PastDays
<1>3. DateInv'
  BY DEF BInv, DateInv
<1> QED
  BY <1>2, <1>3 DEF BInv

(* A step that leaves the store and the clock alone.                       *)
LEMMA BudgetUntouched ==
  ASSUME BInv, UNCHANGED <<mem, disk, clock>>, DateInv'
  PROVE  BInv'
BY DEF BInv, BudgetInv, WithinBudget, PastDays

(* The sandbox's requests and the operator's policies.                     *)
LEMMA SandboxBudget ==
  ASSUME IInv, BInv, NEW saved \in SaveOutcomes, SandboxNext(saved), LimitRaised
  PROVE  BInv'
<1>1. StoreInv(mem) /\ clock \in Nat /\ BudgetInv(mem, clock)
  BY DEF IInv, TypeOK, BInv
<1>2. ASSUME NEW w \in Wallets, NEW policy \in PolicyChoices,
             SetPolicy(w, policy, saved)
      PROVE  BInv'
  <2> DEFINE u == WithPolicy(mem, WalletKey[w], policy)
  <2>1. /\ WalletKey[w] \in Wallets /\ policy \in Policy
        /\ WalletKey[WalletKey[w]] = WalletKey[w]
    BY WalletAssumption, GatewayAssumption
  <2>2. u.policies = Put(mem.policies, WalletKey[w], policy)
    <3>1. mem = [policies |-> mem.policies, balances |-> mem.balances,
                 receipts |-> mem.receipts, transactions |-> mem.transactions,
                 settledKeys |-> mem.settledKeys,
                 reservations |-> mem.reservations,
                 minted |-> mem.minted, forgotten |-> mem.forgotten]
      BY <1>1 DEF StoreInv, LedgerInv, StoreTypeOK
    <3> QED
      BY <3>1 DEF WithPolicy
  <2>3. PolicyOf(mem, w).dailyLimit <= policy.dailyLimit
    BY <1>2 DEF LimitRaised
  <2>4. ASSUME NEW v \in Wallets
        PROVE  PolicyOf(mem, v).dailyLimit <= PolicyOf(u, v).dailyLimit
    <3>1. CASE WalletKey[v] = WalletKey[w]
      <4>1. PolicyOf(u, v) = policy
        BY <2>2, <3>1 DEF PolicyOf, Put
      <4>2. PolicyOf(mem, v) = PolicyOf(mem, w)
        BY <3>1 DEF PolicyOf
      <4> QED
        BY <2>3, <4>1, <4>2
    <3>2. CASE WalletKey[v] # WalletKey[w]
      <4>1. PolicyOf(u, v) = PolicyOf(mem, v)
        BY <2>2, <3>2 DEF PolicyOf, Put
      <4>2. PolicyOf(mem, v).dailyLimit \in Nat
        BY <1>1, PolicyType DEF StoreInv, LedgerInv
      <4> QED
        BY <4>1, <4>2
    <3> QED
      BY <3>1, <3>2
  <2>5. Update(u, saved) /\ UNCHANGED <<clock, proofFile, requests, walletPay>>
    BY <1>2 DEF SetPolicy
  <2>6. u = WithPolicy(mem, WalletKey[w], policy)
    OBVIOUS
  <2> HIDE DEF u
  <2>7. BudgetInv(u, clock)
    BY <1>1, <2>1, <2>4, <2>6, WithPolicyBudget
  <2> QED
    BY <2>5, <2>7, UpdateBudget
<1>3. ASSUME NEW w \in Wallets, NEW f \in Funds, Mint(w, f, saved)
      PROVE  BInv'
  <2>1. f.eth \in Nat /\ f.usdc \in Nat
    BY GatewayAssumption
  <2> QED
    BY <1>1, <1>3, <2>1, MintedBudget, UpdateBudget DEF Mint
<1>4. ASSUME NEW k \in Keys, SettleReplay(k, saved)
      PROVE  BInv'
  BY <1>1, <1>4, UpdateBudget DEF SettleReplay
<1>5. ASSUME NEW k \in Keys, SettlePaid(k, saved)
      PROVE  BInv'
  BY <1>1, <1>5, SettledBudget, UpdateBudget DEF SettlePaid
<1>6. ASSUME NEW k \in Keys, SettleDenied(k, saved) \/ RecordDenied(k, saved)
      PROVE  BInv'
  <2>1. k.wallet \in Wallets /\ k.resource \in Resources /\ k.price \in Nat
    BY KeyAssumption
  <2>2. BudgetInv(AppendTransaction(mem, DeniedEntry(k.wallet, k.resource, k.price,
                                                     clock)), clock)
    BY <1>1, <2>1, DeniedBudget
  <2> QED
    BY <1>6, <2>2, UpdateBudget DEF SettleDenied, RecordDenied
<1>7. ASSUME RecordWorkAudit(saved)
      PROVE  BInv'
  BY <1>1, <1>7, UpdateBudget DEF RecordWorkAudit
<1> QED
  BY <1>2, <1>3, <1>4, <1>5, <1>6, <1>7 DEF SandboxNext

(* Authorizations granted, freed and committed.                            *)
LEMMA PolicyBudget ==
  ASSUME IInv, BInv, NEW saved \in SaveOutcomes, PolicyNext(saved)
  PROVE  BInv'
<1> DEFINE s == Expired(mem, clock)
<1>1. /\ StoreInv(mem) /\ clock \in Nat /\ BudgetInv(mem, clock)
      /\ DOMAIN mem.reservations \subseteq AuthIds
  BY DEF IInv, TypeOK, BInv, StoreTypeOK
<1>2. /\ StoreInv(s) /\ BudgetInv(s, clock)
      /\ DOMAIN s.reservations = DOMAIN mem.reservations
  BY <1>1, ExpiredGood, ExpiredBudget DEF Good
<1>3. \A q \in requests : /\ q.proof \in Proof /\ Verified(q.proof)
                          /\ q.proof.day <= Day(clock)
  BY DEF IInv, TypeOK, RequestsVerified, Request, Proof, BInv, DateInv
<1> HIDE DEF s
<1>4. ASSUME NEW w \in Wallets, NEW r \in Resources, NEW x \in Amounts,
             NEW a \in AuthIds, Reserve(a, w, r, x, saved)
      PROVE  BInv'
  <2> DEFINE u == Reserved(s, a, w, r, x, clock)
  <2>1. /\ a \notin DOMAIN s.reservations /\ x \in Nat
        /\ Allowed(s, w, r, x, clock) /\ Update(u, saved)
        /\ UNCHANGED <<clock, proofFile, requests, walletPay>>
    BY <1>2, <1>4, GatewayAssumption DEF Reserve, Fresh, s
  <2>2. BudgetInv(u, clock)
    BY <1>1, <1>2, <2>1, ReservedBudget
  <2> HIDE DEF u
  <2> QED
    BY <2>1, <2>2, UpdateBudget
<1>5. ASSUME NEW w \in Wallets, NEW r \in Resources, NEW x \in Amounts,
             ReserveDenied(w, r, x, saved)
      PROVE  BInv'
  BY <1>2, <1>5, UpdateBudget DEF ReserveDenied, s
<1>6. ASSUME NEW a \in AuthIds, Release(a, saved)
      PROVE  BInv'
  BY <1>1, <1>6, ReleasedBudget, UpdateBudget DEF Release
<1>7. ASSUME NEW q \in requests, RecordNothing(q, saved)
      PROVE  BInv'
  BY <1>1, <1>7, UpdateBudget DEF RecordNothing
<1>8. ASSUME NEW q \in requests, RecordCommit(q, saved)
      PROVE  BInv'
  <2>1. /\ q.auth \in DOMAIN mem.reservations
        /\ mem.reservations[q.auth].status # "committed"
        /\ Matches(mem.reservations[q.auth], q.proof)
    BY <1>8 DEF RecordCommit, Committable, Reservable
  <2>2. BudgetInv(Committed(mem, q.auth, q.proof, clock), clock)
    BY <1>1, <1>3, <2>1, CommittedBudget
  <2> QED
    BY <1>8, <2>2, UpdateBudget DEF RecordCommit
<1>9. ASSUME NEW q \in requests, RecordBootstrap(q, saved)
      PROVE  BInv'
  <2>1. BudgetInv(RecordedOnce(mem, "official", q.proof, FALSE), clock)
    BY <1>1, <1>3, RecordedOnceBudget
  <2> QED
    BY <1>9, <2>1, UpdateBudget DEF RecordBootstrap
<1> QED
  BY <1>4, <1>5, <1>6, <1>7, <1>8, <1>9 DEF PolicyNext

(* Record and reconcile requests that commit nothing.                      *)
LEMMA RecordBudget ==
  ASSUME IInv, BInv, RecordNext
  PROVE  BInv'
<1>1. /\ clock \in Nat /\ Day(clock) \in Nat /\ StoreInv(mem)
      /\ DateInv /\ BudgetInv(mem, clock) /\ BudgetInv(disk, clock)
  BY LaterDay DEF IInv, TypeOK, BInv
<1>2. ASSUME NEW body \in Submissions, BeginRecord(body)
      PROVE  BInv'
  <2> DEFINE p == ProofRead
  <2>1. p.day <= Day(clock)
    BY <1>1 DEF ProofRead, DateInv
  <2> HIDE DEF p
  <2>2. /\ \A q \in requests' : q \in requests \/ q.proof = p
        /\ UNCHANGED <<mem, disk, clock, proofFile, walletPay>>
    BY <1>2 DEF BeginRecord, p
  <2>3. DateInv'
    BY <1>1, <2>1, <2>2 DEF DateInv
  <2> QED
    BY <2>2, <2>3, BudgetUntouched
<1>3. ASSUME NEW q \in requests, DropRequest(q)
      PROVE  BInv'
  <2>1. DateInv'
    BY <1>1, <1>3 DEF DateInv, DropRequest
  <2> QED
    BY <1>3, <2>1, BudgetUntouched DEF DropRequest
<1>4. ASSUME NEW q \in requests, RecordLapsed(q)
      PROVE  BInv'
  <2> DEFINE u == WithStatus(mem, q.auth, "expired")
  <2>1. /\ Update(u, FALSE) /\ requests' \subseteq requests
        /\ UNCHANGED <<clock, proofFile, walletPay>>
        /\ q.auth \in DOMAIN mem.reservations
        /\ mem.reservations[q.auth].status = "active"
    BY <1>4 DEF RecordLapsed, Lapses, Reservable, Update
  <2>2. BudgetInv(u, clock)
    BY <1>1, <2>1, WithStatusBudget
  <2> HIDE DEF u
  <2> QED
    BY <2>1, <2>2, UpdateBudget
<1> QED
  BY <1>2, <1>3, <1>4 DEF RecordNext

(* Browser-wallet payments and recovery.                                   *)
LEMMA WalletBudget ==
  ASSUME IInv, BInv, WalletNext
  PROVE  BInv'
<1>1. /\ clock \in Nat /\ Day(clock) \in Nat /\ StoreInv(mem)
      /\ DateInv /\ BudgetInv(mem, clock) /\ BudgetInv(disk, clock)
      /\ walletPay \in Payment \cup {Idle} /\ requests \subseteq Request
  BY LaterDay DEF IInv, TypeOK, BInv
<1>2. /\ "sent" # "ledgered" /\ "idle" # "ledgered"
      /\ Idle.phase = "idle"
  BY DEF Idle
<1>3. ASSUME NEW svc \in Services, BeginWalletPay(svc)
      PROVE  BInv'
  <2>1. DateInv'
    BY <1>1, <1>2, <1>3 DEF DateInv, BeginWalletPay
  <2> QED
    BY <1>3, <2>1, BudgetUntouched DEF BeginWalletPay
<1>4. ASSUME NEW t \in TxIds, NEW saved \in SaveOutcomes, WalletSettled(t, saved)
      PROVE  BInv'
  <2> DEFINE p == WalletProof(t, OfficialPayer, walletPay.price, walletPay.resource,
                              Day(clock))
  <2> DEFINE u == RecordedOnce(mem, "browser", p, FALSE)
  <2>1. walletPay \in Sent
    BY <1>1, <1>4 DEF WalletSettled, Payment, Ledgered, Idle
  <2>2. /\ p.tx = t /\ p.payer = OfficialPayer /\ p.amount = walletPay.price
        /\ p.day = Day(clock)
    BY DEF WalletProof
  <2>3. p \in Proof
    BY <1>1, <2>1, GatewayAssumption DEF WalletProof, Proof, Sent
  <2>4. Verified(p)
    BY <1>4, <2>2 DEF WalletSettled, Verified, SameWallet
  <2>5. /\ Update(u, saved) /\ UNCHANGED <<clock, proofFile, requests>>
        /\ walletPay' = [walletPay EXCEPT !.phase = "ledgered", !.tx = t,
                              !.day = Day(clock), !.kept = saved]
    BY <1>4 DEF WalletSettled
  <2>6. BudgetInv(u, clock)
    <3>1. p.day <= Day(clock)
      BY <1>1, <2>2
    <3> HIDE DEF p
    <3> QED
      BY <1>1, <2>3, <2>4, <3>1, RecordedOnceBudget
  <2> HIDE DEF p
  <2> HIDE DEF u
  <2>7. walletPay'.day = Day(clock)
    BY <2>1, <2>5 DEF Sent
  <2>8. DateInv'
    BY <1>1, <2>5, <2>7 DEF DateInv
  <2>9. BudgetInv(mem, clock)' /\ BudgetInv(disk, clock)'
    <3>1. clock' = clock /\ mem' = u /\ (disk' = u \/ disk' = disk)
      BY <2>5 DEF Update
    <3> QED
      BY <1>1, <2>6, <3>1 DEF BudgetInv, WithinBudget, PastDays
  <2> QED
    BY <2>8, <2>9 DEF BInv
<1>5. ASSUME NEW promoted \in BOOLEAN, NEW saved \in SaveOutcomes,
             WalletPromoted(promoted, saved)
      PROVE  BInv'
  <2> DEFINE p == WalletProof(walletPay.tx, OfficialPayer, walletPay.price,
                              walletPay.resource, walletPay.day)
  <2>1. p.day <= Day(clock)
    BY <1>1, <1>5 DEF WalletPromoted, WalletProof, DateInv
  <2> HIDE DEF p
  <2>2. /\ Update(mem, saved) /\ UNCHANGED <<clock, requests>>
        /\ proofFile' = p \/ proofFile' = proofFile
        /\ walletPay' = Idle
    BY <1>5 DEF WalletPromoted, p
  <2>3. DateInv'
    BY <1>1, <1>2, <2>1, <2>2 DEF DateInv
  <2>4. BudgetInv(mem, clock)' /\ BudgetInv(disk, clock)'
    <3>1. clock' = clock /\ mem' = mem /\ (disk' = mem \/ disk' = disk)
      BY <2>2 DEF Update
    <3> QED
      BY <1>1, <3>1 DEF BudgetInv, WithinBudget, PastDays
  <2> QED
    BY <2>3, <2>4 DEF BInv
<1>6. ASSUME WalletAbandoned
      PROVE  BInv'
  <2>1. DateInv'
    BY <1>1, <1>2, <1>6 DEF DateInv, WalletAbandoned
  <2> QED
    BY <1>6, <2>1, BudgetUntouched DEF WalletAbandoned
<1>7. ASSUME NEW p \in RecoveryProofs, BeginRecovery(p)
      PROVE  BInv'
  <2>1. p.day <= Day(clock)
    <3>1. ASSUME NEW e \in BrowserEntries
          PROVE  e.day <= Day(clock)
      BY <1>1, <3>1 DEF BrowserEntries, BudgetInv, PastDays
    <3> QED
      BY <1>1, <3>1 DEF RecoveryProofs, WalletProof
  <2>2. /\ \A q \in requests' : q \in requests \/ q.proof = p
        /\ UNCHANGED <<mem, disk, clock, proofFile, walletPay>>
    BY <1>7 DEF BeginRecovery
  <2>3. DateInv'
    BY <1>1, <2>1, <2>2 DEF DateInv
  <2> QED
    BY <2>2, <2>3, BudgetUntouched
<1>8. ASSUME NEW q \in requests, PromoteRecovery(q)
      PROVE  BInv'
  <2>1. /\ \A o \in requests' : o \in requests \/ o.proof = q.proof
        /\ proofFile' = q.proof /\ UNCHANGED <<mem, disk, clock, walletPay>>
    BY <1>1, <1>8 DEF PromoteRecovery, Request
  <2>2. DateInv'
    BY <1>1, <2>1 DEF DateInv
  <2> QED
    BY <2>1, <2>2, BudgetUntouched
<1>9. ASSUME NEW q \in requests, NEW saved \in SaveOutcomes,
             FinishRecovery(q, saved)
      PROVE  BInv'
  <2>1. q.proof \in Proof /\ Verified(q.proof) /\ q.proof.day <= Day(clock)
    BY <1>1 DEF IInv, RequestsVerified, Request, DateInv
  <2>2. BudgetInv(RecordedOnce(mem, "browser", q.proof, FALSE), clock)
    BY <1>1, <2>1, RecordedOnceBudget
  <2> QED
    BY <1>9, <2>2, UpdateBudget DEF FinishRecovery
<1> QED
  BY <1>3, <1>4, <1>5, <1>6, <1>7, <1>8, <1>9 DEF WalletNext

(* Clients rewriting the proof file, time, and crashes.                    *)
LEMMA OutsideBudget ==
  ASSUME IInv, BInv, OutsideNext
  PROVE  BInv'
<1>1. /\ clock \in Nat /\ Day(clock) \in Nat /\ StoreInv(mem) /\ StoreInv(disk)
      /\ StoreTypeOK(mem) /\ StoreTypeOK(disk)
      /\ DateInv /\ BudgetInv(mem, clock) /\ BudgetInv(disk, clock)
      /\ walletPay \in Payment \cup {Idle} /\ requests \subseteq Request
      /\ proofFile \in Proof \cup {Unreadable}
  BY LaterDay DEF IInv, TypeOK, BInv
<1>2. ASSUME TearProof \/ \E c \in ProofChoices : WriteProof(c)
      PROVE  BInv'
  <2>1. proofFile' = Unreadable \/ proofFile'.day <= Day(clock)
    BY <1>1, <1>2 DEF TearProof, WriteProof
  <2>2. UNCHANGED <<mem, disk, clock, requests, walletPay>>
    BY <1>2 DEF TearProof, WriteProof
  <2>3. DateInv'
    BY <1>1, <2>1, <2>2 DEF DateInv
  <2> QED
    BY <2>2, <2>3, BudgetUntouched
<1>3. ASSUME Tick
      PROVE  BInv'
  <2>1. /\ clock' = clock + 1
        /\ UNCHANGED <<mem, disk, proofFile, requests, walletPay>>
    BY <1>3 DEF Tick
  <2>2. BudgetInv(mem, clock + 1) /\ BudgetInv(disk, clock + 1)
    BY <1>1, LaterBudget
  <2>3. Day(clock) <= Day(clock + 1) /\ Day(clock + 1) \in Nat
    BY <1>1, LaterDay
  <2>4. /\ proofFile # Unreadable => proofFile.day \in Nat
        /\ \A q \in requests : q.proof.day \in Nat
        /\ walletPay.phase = "ledgered" => walletPay.day \in Nat
    <3>1. proofFile # Unreadable => proofFile.day \in Nat
      BY <1>1 DEF Proof
    <3>2. \A q \in requests : q.proof.day \in Nat
      BY <1>1 DEF Proof, Request
    <3>3. walletPay.phase = "ledgered" => walletPay.day \in Nat
      <4>1. "idle" # "ledgered" /\ Idle.phase = "idle"
        BY DEF Idle
      <4>2. CASE walletPay \in Payment
        BY <4>2 DEF Payment, Sent, Ledgered
      <4> QED
        BY <1>1, <4>1, <4>2
    <3> QED
      BY <3>1, <3>2, <3>3
  <2>5. DateInv'
    BY <1>1, <2>1, <2>3, <2>4 DEF DateInv
  <2>6. BudgetInv(mem, clock)' /\ BudgetInv(disk, clock)'
    BY <2>1, <2>2 DEF BudgetInv, WithinBudget, PastDays
  <2> QED
    BY <2>5, <2>6 DEF BInv
<1>4. ASSUME Crash
      PROVE  BInv'
  <2> DEFINE u == Normalized(disk)
  <2>1. BudgetInv(u, clock)
    BY <1>1, NormalizedBudget
  <2>2. /\ mem' = u /\ requests' = {} /\ walletPay' = Idle
        /\ UNCHANGED <<disk, clock, proofFile>>
    BY <1>4 DEF Crash
  <2> HIDE DEF u
  <2>3. DateInv'
    BY <1>1, <2>2 DEF DateInv, Idle
  <2>4. BudgetInv(mem, clock)' /\ BudgetInv(disk, clock)'
    BY <1>1, <2>1, <2>2 DEF BudgetInv, WithinBudget, PastDays
  <2> QED
    BY <2>3, <2>4 DEF BInv
<1> QED
  BY <1>2, <1>3, <1>4 DEF OutsideNext

(* Nothing was spent and nothing is dated yet.                             *)
LEMMA InitBudget == Init => BInv
<1> SUFFICES ASSUME Init
             PROVE  BInv
  OBVIOUS
<1>1. /\ mem.receipts = <<>> /\ mem.transactions = <<>>
      /\ DOMAIN mem.reservations = {} /\ disk = mem /\ clock = 0
      /\ proofFile = Unreadable /\ requests = {} /\ walletPay = Idle
  BY DEF Init, EmptyState
<1>2. DateInv
  BY <1>1 DEF DateInv, Idle
<1>3. IsFiniteSet(DOMAIN mem.reservations) /\ PastDays(mem, clock)
  BY <1>1, FS_EmptySet DEF PastDays
<1>4. ASSUME NEW w \in Wallets
      PROVE  CoveredSpend(mem, w, clock) <= PolicyOf(mem, w).dailyLimit
  <2>1. /\ ReceiptSpend(mem, w, Day(clock)) = 0
        /\ EntrySpend(mem, CoveredEntries(mem, w, Day(clock))) = 0
        /\ PendingSpend(mem, w, clock) = 0
    <3>1. /\ {i \in DOMAIN mem.receipts :
                /\ SameWallet(mem.receipts[i].wallet, w)
                /\ mem.receipts[i].day = Day(clock)} = {}
          /\ CoveredEntries(mem, w, Day(clock)) = {}
          /\ {a \in DOMAIN mem.reservations :
                /\ HoldsBudget(mem.reservations[a], clock)
                /\ SameWallet(mem.reservations[a].wallet, w)} = {}
      BY <1>1 DEF CoveredEntries, OfficialEntries
    <3> QED
      BY <3>1, TotalEmpty DEF ReceiptSpend, EntrySpend, PendingSpend
  <2>2. StoreTypeOK(mem)
    BY InitIInv DEF IInv, TypeOK
  <2>3. PolicyOf(mem, w).dailyLimit \in Nat
    BY <2>2, PolicyType
  <2> QED
    BY <2>1, <2>3 DEF CoveredSpend
<1> QED
  BY <1>1, <1>2, <1>3, <1>4 DEF BInv, BudgetInv, WithinBudget

(* As long as no operator lowers a limit, what was spent of the day within *)
(* an authorization, or by a sandbox payment, and what is still promised   *)
(* stay within each wallet's daily limit, in the memory and in the file,   *)
(* for any wallets, prices, limits, lifetimes and day length, whatever     *)
(* expires, is released, is committed late, fails to be saved or is        *)
(* reopened after a crash.                                                 *)
THEOREM DailyBudget == Spec /\ OperatorRaises => []BudgetKept
<1>1. Init => BInv
  BY InitBudget
<1>2. IInv /\ BInv /\ [Next]_vars /\ [LimitRaised]_vars => BInv'
  <2> SUFFICES ASSUME IInv, BInv, [Next]_vars, [LimitRaised]_vars
               PROVE  BInv'
    OBVIOUS
  <2>1. CASE UNCHANGED vars
    <3>1. DateInv'
      BY <2>1 DEF vars, BInv, DateInv
    <3> QED
      BY <2>1, <3>1, BudgetUntouched DEF vars
  <2>2. CASE Next /\ LimitRaised
    BY <2>2, SandboxBudget, PolicyBudget, RecordBudget, WalletBudget, OutsideBudget
       DEF Next
  <2> QED
    BY <2>1, <2>2
<1>3. BInv => BudgetKept
  BY DEF BInv, BudgetInv, BudgetKept, Everywhere, InBudget
<1> QED
  BY <1>1, <1>2, <1>3, Invariance, PTL DEF Spec, OperatorRaises

(* Every settlement was recorded while its authorization held the budget.  *)
AllCovered ==
  \A i \in DOMAIN mem.transactions :
    Official(mem.transactions[i]) => mem.transactions[i].covered

(* Then all the spend of a day and all that is promised are within the     *)
(* limit: payments of the wallet lane, which hold no budget, bootstrapped  *)
(* settlements and those committed late are the only way beyond it.        *)
THEOREM DailyLimit == Spec /\ OperatorRaises /\ []AllCovered => []DailyLimitKept
<1>1. BudgetKept /\ AllCovered => DailyLimitKept
  <2> SUFFICES ASSUME BudgetKept, AllCovered, NEW w \in Wallets
               PROVE  DailySpend(mem, w, clock) + PendingSpend(mem, w, clock)
                        <= PolicyOf(mem, w).dailyLimit
    BY DEF DailyLimitKept
  <2>1. CoveredEntries(mem, w, Day(clock)) = OfficialEntries(mem, w, Day(clock))
    BY DEF CoveredEntries, OfficialEntries, AllCovered
  <2>2. CoveredSpend(mem, w, clock) <= PolicyOf(mem, w).dailyLimit
    BY DEF BudgetKept, Everywhere, InBudget, WithinBudget
  <2> QED
    BY <2>1, <2>2 DEF CoveredSpend, DailySpend
<1> QED
  BY <1>1, DailyBudget, PTL

(***************************************************************************)
(* The money.                                                              *)
(***************************************************************************)

MInv == MoneyInv(mem) /\ MoneyInv(disk)

SameFunds(s, u) ==
  /\ u.balances = s.balances
  /\ u.settledKeys = s.settledKeys
  /\ u.minted = s.minted

(* Nothing but policies, the faucet and sandbox payments moves money.      *)
LEMMA FundsKept ==
  ASSUME NEW s, StoreTypeOK(s)
  PROVE  /\ \A e : SameFunds(s, AppendTransaction(s, e))
         /\ \A now : SameFunds(s, Expired(s, now))
         /\ \A a, w, r, x, now : SameFunds(s, Reserved(s, a, w, r, x, now))
         /\ \A a, status : SameFunds(s, WithStatus(s, a, status))
         /\ \A a : SameFunds(s, Released(s, a))
         /\ \A kind, p, covered : SameFunds(s, RecordedOnce(s, kind, p, covered))
         /\ \A a, p, now : SameFunds(s, Committed(s, a, p, now))
<1>1. s = [policies |-> s.policies, balances |-> s.balances,
           receipts |-> s.receipts, transactions |-> s.transactions,
           settledKeys |-> s.settledKeys, reservations |-> s.reservations,
           minted |-> s.minted, forgotten |-> s.forgotten]
  BY DEF StoreTypeOK
<1>2. \A e : SameFunds(s, AppendTransaction(s, e))
  BY <1>1 DEF SameFunds, AppendTransaction
<1>3. \A now : SameFunds(s, Expired(s, now))
  BY <1>1 DEF SameFunds, Expired
<1>4. \A a, w, r, x, now : SameFunds(s, Reserved(s, a, w, r, x, now))
  BY <1>1 DEF SameFunds, Reserved
<1>5. \A a, status : SameFunds(s, WithStatus(s, a, status))
  BY <1>1 DEF SameFunds, WithStatus
<1>6. \A a : SameFunds(s, Released(s, a))
  BY <1>5 DEF SameFunds, Released
<1>7. \A kind, p, covered : SameFunds(s, RecordedOnce(s, kind, p, covered))
  BY <1>2 DEF SameFunds, RecordedOnce
<1>8. ASSUME NEW a, NEW p, NEW now
      PROVE  SameFunds(s, Committed(s, a, p, now))
  <2> DEFINE u == [s EXCEPT !.reservations[a].status = "committed",
                            !.reservations[a].tx = p.tx]
             c == HoldsBudget(s.reservations[a], now)
             e == OfficialEntry("official", p, c)
  <2>1. Committed(s, a, p, now) = IF p.tx \in OfficialTxs(u) THEN u
                                  ELSE AppendTransaction(u, e)
    BY DEF Committed, RecordedOnce
  <2>2. SameFunds(s, u)
    BY <1>1 DEF SameFunds
  <2>3. SameFunds(u, AppendTransaction(u, e))
    BY <1>1 DEF SameFunds, AppendTransaction
  <2> HIDE DEF u, e
  <2> QED
    BY <2>1, <2>2, <2>3 DEF SameFunds
<1> QED
  BY <1>2, <1>3, <1>4, <1>5, <1>6, <1>7, <1>8

(* A state with the funds of one that conserves the money conserves it.    *)
LEMMA FundsConserved ==
  ASSUME NEW s, NEW u, SameFunds(s, u), MoneyInv(s)
  PROVE  MoneyInv(u)
BY SameMoney DEF SameFunds

(* An update with a state that conserves the money, saved or not.          *)
LEMMA UpdateMoney ==
  ASSUME MInv, NEW s, MoneyInv(s), NEW saved, Update(s, saved)
  PROVE  MInv'
<1>1. mem' = s /\ (disk' = s \/ disk' = disk)
  BY DEF Update
<1> QED
  BY <1>1 DEF MInv, MoneyInv, BalancesOK, SpellingsOK, Funded, Conserved, Held,
              SettledFor, Given, GivenCanonically

(* A step that leaves the store alone.                                     *)
LEMMA MoneyUntouched ==
  ASSUME MInv, UNCHANGED <<mem, disk>>
  PROVE  MInv'
BY DEF MInv, MoneyInv, BalancesOK, SpellingsOK, Funded, Conserved, Held,
       SettledFor, Given, GivenCanonically

(* The sandbox's requests and the operator's policies.                     *)
LEMMA SandboxMoney ==
  ASSUME IInv, MInv, NEW saved \in SaveOutcomes, SandboxNext(saved)
  PROVE  MInv'
<1>1. StoreTypeOK(mem) /\ StoreInv(mem) /\ MoneyInv(mem) /\ clock \in Nat
  BY DEF IInv, TypeOK, MInv
<1>2. ASSUME NEW w \in Wallets, NEW policy \in PolicyChoices,
             SetPolicy(w, policy, saved)
      PROVE  MInv'
  <2>1. WalletKey[w] \in Wallets
    BY WalletAssumption
  <2> QED
    BY <1>1, <1>2, <2>1, WithPolicyMoney, UpdateMoney DEF SetPolicy
<1>3. ASSUME NEW w \in Wallets, NEW f \in Funds, Mint(w, f, saved)
      PROVE  MInv'
  <2>1. f.eth \in Nat /\ f.usdc \in Nat
    BY GatewayAssumption
  <2> QED
    BY <1>1, <1>3, <2>1, MintedMoney, UpdateMoney DEF Mint
<1>4. ASSUME NEW k \in Keys, SettleReplay(k, saved)
      PROVE  MInv'
  BY <1>1, <1>4, UpdateMoney DEF SettleReplay
<1>5. ASSUME NEW k \in Keys, SettlePaid(k, saved)
      PROVE  MInv'
  BY <1>1, <1>5, SettledMoney, UpdateMoney DEF SettlePaid
<1>6. ASSUME NEW k \in Keys, SettleDenied(k, saved) \/ RecordDenied(k, saved)
      PROVE  MInv'
  BY <1>1, <1>6, FundsKept, FundsConserved, UpdateMoney
     DEF SettleDenied, RecordDenied
<1>7. ASSUME RecordWorkAudit(saved)
      PROVE  MInv'
  BY <1>1, <1>7, UpdateMoney DEF RecordWorkAudit
<1> QED
  BY <1>2, <1>3, <1>4, <1>5, <1>6, <1>7 DEF SandboxNext

(* The authorizations of the official lane.                                *)
LEMMA PolicyMoney ==
  ASSUME IInv, MInv, NEW saved \in SaveOutcomes, PolicyNext(saved)
  PROVE  MInv'
<1>1. StoreTypeOK(mem) /\ StoreInv(mem) /\ MoneyInv(mem)
  BY DEF IInv, TypeOK, MInv
<1>2. MoneyInv(Expired(mem, clock)) /\ StoreTypeOK(Expired(mem, clock))
  <2>1. clock \in Nat
    BY DEF IInv, TypeOK
  <2> QED
    BY <1>1, <2>1, FundsKept, FundsConserved, ExpiredGood
       DEF Good, StoreInv, LedgerInv
<1>3. ASSUME NEW a \in AuthIds, NEW w \in Wallets, NEW r \in Resources,
             NEW x \in Amounts, Reserve(a, w, r, x, saved)
      PROVE  MInv'
  <2> DEFINE s == Expired(mem, clock)
  <2>1. Update(Reserved(s, a, w, r, x, clock), saved)
    BY <1>3 DEF Reserve
  <2> HIDE DEF s
  <2>2. MoneyInv(Reserved(s, a, w, r, x, clock))
    BY <1>2, FundsKept, FundsConserved DEF s
  <2> QED
    BY <2>1, <2>2, UpdateMoney
<1>4. ASSUME NEW w \in Wallets, NEW r \in Resources, NEW x \in Amounts,
             ReserveDenied(w, r, x, saved)
      PROVE  MInv'
  BY <1>2, <1>4, UpdateMoney DEF ReserveDenied
<1>5. ASSUME NEW a \in AuthIds, Release(a, saved)
      PROVE  MInv'
  BY <1>1, <1>5, FundsKept, FundsConserved, UpdateMoney DEF Release
<1>6. ASSUME NEW q \in requests, RecordNothing(q, saved)
      PROVE  MInv'
  BY <1>1, <1>6, UpdateMoney DEF RecordNothing
<1>7. ASSUME NEW q \in requests, RecordCommit(q, saved)
      PROVE  MInv'
  BY <1>1, <1>7, FundsKept, FundsConserved, UpdateMoney DEF RecordCommit
<1>8. ASSUME NEW q \in requests, RecordBootstrap(q, saved)
      PROVE  MInv'
  BY <1>1, <1>8, FundsKept, FundsConserved, UpdateMoney DEF RecordBootstrap
<1> QED
  BY <1>3, <1>4, <1>5, <1>6, <1>7, <1>8 DEF PolicyNext

(* Requests, the wallet lane and the outside; reopening after a crash may  *)
(* lose money, when it merges spellings, and never makes any.              *)
LEMMA OtherMoney ==
  ASSUME IInv, MInv, RecordNext \/ WalletNext \/ OutsideNext
  PROVE  MInv'
<1>1. /\ StoreTypeOK(mem) /\ StoreInv(disk)
      /\ MoneyInv(mem) /\ MoneyInv(disk)
  BY DEF IInv, TypeOK, MInv
<1>2. CASE RecordNext
  <2>1. ASSUME NEW q \in requests, RecordLapsed(q)
        PROVE  MInv'
    <3>1. Update(WithStatus(mem, q.auth, "expired"), FALSE)
      BY <2>1 DEF RecordLapsed, Update
    <3> QED
      BY <1>1, <3>1, FundsKept, FundsConserved, UpdateMoney
  <2> QED
    BY <1>2, <2>1, MoneyUntouched DEF RecordNext, BeginRecord, DropRequest
<1>3. CASE WalletNext
  <2>1. ASSUME NEW t \in TxIds, NEW saved \in SaveOutcomes,
               WalletSettled(t, saved)
        PROVE  MInv'
    BY <1>1, <2>1, FundsKept, FundsConserved, UpdateMoney DEF WalletSettled
  <2>2. ASSUME NEW promoted \in BOOLEAN, NEW saved \in SaveOutcomes,
               WalletPromoted(promoted, saved)
        PROVE  MInv'
    BY <1>1, <2>2, UpdateMoney DEF WalletPromoted
  <2>3. ASSUME NEW q \in requests, NEW saved \in SaveOutcomes,
               FinishRecovery(q, saved)
        PROVE  MInv'
    BY <1>1, <2>3, FundsKept, FundsConserved, UpdateMoney DEF FinishRecovery
  <2> QED
    BY <1>3, <2>1, <2>2, <2>3, MoneyUntouched
       DEF WalletNext, BeginWalletPay, WalletAbandoned, BeginRecovery,
           PromoteRecovery
<1>4. CASE OutsideNext
  <2>1. ASSUME Crash
        PROVE  MInv'
    <3> DEFINE u == Normalized(disk)
    <3>1. MoneyInv(u)
      BY <1>1, NormalizedMoney
    <3>2. mem' = u /\ disk' = disk
      BY <2>1 DEF Crash
    <3> HIDE DEF u
    <3> QED
      BY <1>1, <3>1, <3>2
         DEF MInv, MoneyInv, BalancesOK, SpellingsOK, Funded, Conserved, Held,
             SettledFor, Given, GivenCanonically
  <2> QED
    BY <1>4, <2>1, MoneyUntouched DEF OutsideNext, TearProof, WriteProof, Tick
<1> QED
  BY <1>2, <1>3, <1>4

(* The faucet gave nothing yet and nothing is held or spent.               *)
LEMMA InitMoney == Init => MInv
<1> SUFFICES ASSUME Init
             PROVE  MInv
  OBVIOUS
<1>1. /\ DOMAIN mem.balances = {} /\ mem.settledKeys = {}
      /\ mem.minted = [w \in Wallets |-> 0] /\ disk = mem
      /\ mem.balances = [w \in {} |-> [eth |-> 0, usdc |-> 0]]
  BY DEF Init, EmptyState
<1>2. IsFiniteSet(Funded(mem)) /\ IsFiniteSet(mem.settledKeys)
  <2>1. \A w \in Wallets : mem.minted[w] = 0
    BY <1>1
  <2>2. Funded(mem) = {}
    BY <2>1 DEF Funded
  <2> QED
    BY <1>1, <2>2, FS_EmptySet
<1>3. BalancesOK(mem) /\ SpellingsOK(mem)
  BY <1>1, FS_EmptySet DEF BalancesOK, SpellingsOK
<1>4. ASSUME NEW w \in Wallets
      PROVE  Held(mem, w) = 0 /\ SettledFor(mem, w) = 0 /\ Given(mem, w) \in Nat
             /\ Given(mem, w) = 0
  <2> DEFINE S == {v \in Wallets : SameWallet(v, w)}
  <2>1. /\ {v \in DOMAIN mem.balances : SameWallet(v, w)} = {}
        /\ {k \in mem.settledKeys : SameWallet(k.wallet, w)} = {}
    BY <1>1
  <2>2. Held(mem, w) = 0 /\ SettledFor(mem, w) = 0
    BY <2>1, TotalEmpty DEF Held, SettledFor
  <2>3. {} \in SUBSET S /\ \A v \in S \ {} : mem.minted[v] = 0
    BY <1>1
  <2> HIDE DEF S
  <2>4. Total(mem.minted, S) = Total(mem.minted, {})
    BY <2>3, TotalSupport
  <2> QED
    BY <2>2, <2>4, TotalEmpty DEF Given, S
<1>5. Conserved(mem)
  BY <1>1, <1>4 DEF Conserved
<1> QED
  BY <1>1, <1>2, <1>3, <1>5 DEF MInv, MoneyInv

(* Sandbox money is conserved, for any wallets and spellings, keys, prices *)
(* and faucet amounts: no retry, replay, lost save, crash or merge of the  *)
(* spellings of one wallet makes a balance negative, debits a key twice or *)
(* gives a wallet more than the faucet did, and none is lost either as long*)
(* as the faucet was asked for the spelling that is kept.                  *)
THEOREM Money == Spec => []MoneyConserved
<1>1. Init => MInv
  BY InitMoney
<1>2. IInv /\ MInv /\ [Next]_vars => MInv'
  <2> SUFFICES ASSUME IInv, MInv, [Next]_vars
               PROVE  MInv'
    OBVIOUS
  <2>1. CASE UNCHANGED vars
    BY <2>1, MoneyUntouched DEF vars
  <2> QED
    BY <2>1, SandboxMoney, PolicyMoney, OtherMoney DEF Next
<1>3. MInv => MoneyConserved
  BY DEF MInv, MoneyInv, MoneyConserved, Everywhere
<1> QED
  BY <1>1, <1>2, <1>3, Invariance, PTL DEF Spec

(***************************************************************************)
(* When authorizations lapse.                                              *)
(***************************************************************************)

(* An expired authorization has had its time.                              *)
OnTime(s, now) ==
  \A a \in DOMAIN s.reservations :
    s.reservations[a].status = "expired" => s.reservations[a].expires <= now

TInv == OnTime(mem, clock) /\ OnTime(disk, clock)

(* What the functions on the state do to the times of the authorizations:  *)
(* only the two that expire them do so, and after their time.              *)
LEMMA OnTimeKept ==
  ASSUME NEW s, StoreInv(s), NEW now \in Nat, OnTime(s, now)
  PROVE  /\ \A u : u.reservations = s.reservations => OnTime(u, now)
         /\ OnTime(Expired(s, now), now)
         /\ \A a, w, r, x : OnTime(Reserved(s, a, w, r, x, now), now)
         /\ \A a : a \in DOMAIN s.reservations /\ s.reservations[a].expires <= now
              => OnTime(WithStatus(s, a, "expired"), now)
         /\ \A a : OnTime(Released(s, a), now)
         /\ \A a, p : OnTime(Committed(s, a, p, now), now)
         /\ OnTime(Normalized(s), now)
<1> DEFINE f == s.reservations
<1>1. f \in [DOMAIN f -> Reservation]
  BY DEF StoreInv, LedgerInv, StoreTypeOK
<1>2. \A g : [s EXCEPT !.reservations = g].reservations = g
  BY DEF StoreInv, LedgerInv, StoreTypeOK
<1>3. \A u : u.reservations = s.reservations => OnTime(u, now)
  BY DEF OnTime
<1>4. OnTime(Expired(s, now), now)
  <2> DEFINE g == Expired(s, now).reservations
  <2>1. \A a \in DOMAIN f : f[a].expires \in Nat
    BY <1>1 DEF Reservation
  <2>2. /\ DOMAIN g = DOMAIN f
        /\ \A a \in DOMAIN f : \/ g[a] = f[a]
                               \/ g[a].expires = f[a].expires /\ ~(now < f[a].expires)
    BY <1>1, <1>2 DEF Expired, Reservation, HoldsBudget
  <2> QED
    BY <2>1, <2>2 DEF OnTime
<1>5. ASSUME NEW a, NEW w, NEW r, NEW x
      PROVE  OnTime(Reserved(s, a, w, r, x, now), now)
  <2> DEFINE g == Reserved(s, a, w, r, x, now).reservations
  <2>1. /\ DOMAIN g = DOMAIN f \cup {a}
        /\ g[a].status = "active"
        /\ \A b \in DOMAIN f \ {a} : g[b] = f[b]
    BY <1>2 DEF Reserved, Put, StoreInv, LedgerInv, StoreTypeOK
  <2> QED
    BY <2>1 DEF OnTime
<1>6. ASSUME NEW a \in DOMAIN f, NEW status,
             status # "expired" \/ f[a].expires <= now
      PROVE  OnTime(WithStatus(s, a, status), now)
  <2> DEFINE g == [f EXCEPT ![a].status = status]
  <2>1. /\ DOMAIN g = DOMAIN f
        /\ \A b \in DOMAIN f \ {a} : g[b] = f[b]
        /\ g[a].status = status /\ g[a].expires = f[a].expires
    BY <1>1 DEF Reservation
  <2>2. WithStatus(s, a, status).reservations = g
    BY DEF WithStatus, StoreInv, LedgerInv, StoreTypeOK
  <2> HIDE DEF g
  <2> QED
    BY <1>6, <2>1, <2>2 DEF OnTime
<1>7. ASSUME NEW a
      PROVE  OnTime(Released(s, a), now)
  <2>1. CASE a \in DOMAIN f
    BY <1>3, <1>6, <2>1 DEF Released
  <2>2. CASE a \notin DOMAIN f
    <3>1. WithStatus(s, a, "released").reservations = f
      BY <2>2, <1>1 DEF WithStatus, StoreInv, LedgerInv, StoreTypeOK
    <3> QED
      BY <1>3, <3>1 DEF Released
  <2> QED
    BY <2>1, <2>2
<1>8. ASSUME NEW a, NEW p
      PROVE  OnTime(Committed(s, a, p, now), now)
  <2> DEFINE bound == [s EXCEPT !.reservations[a].status = "committed",
                                !.reservations[a].tx = p.tx]
  <2>1. Committed(s, a, p, now).reservations = bound.reservations
    BY DEF Committed, RecordedOnce, AppendTransaction, StoreInv, LedgerInv, StoreTypeOK
  <2> DEFINE g == bound.reservations
  <2>2. /\ DOMAIN g = DOMAIN f
        /\ \A b \in DOMAIN f \ {a} : g[b] = f[b]
        /\ a \in DOMAIN f => g[a].status = "committed"
    BY <1>1 DEF Reservation, StoreInv, LedgerInv, StoreTypeOK
  <2> HIDE DEF bound
  <2> QED
    BY <2>1, <2>2 DEF OnTime
<1>9. OnTime(Normalized(s), now)
  <2> DEFINE g == Normalized(s).reservations
  <2>1. g = [a \in DOMAIN f |-> [f[a] EXCEPT !.wallet = WalletKey[f[a].wallet]]]
    BY DEF Normalized, StoreInv, LedgerInv, StoreTypeOK
  <2>2. /\ DOMAIN g = DOMAIN f
        /\ \A a \in DOMAIN f : g[a].status = f[a].status /\ g[a].expires = f[a].expires
    BY <1>1, <2>1 DEF Reservation
  <2> QED
    BY <2>2 DEF OnTime
<1> QED
  BY <1>3, <1>4, <1>5, <1>6, <1>7, <1>8, <1>9

(* An update, saved or not, with a state whose authorizations are on time. *)
LEMMA UpdateOnTime ==
  ASSUME TInv, NEW s, OnTime(s, clock), NEW saved, Update(s, saved), clock' = clock
  PROVE  TInv'
<1>1. mem' = s /\ (disk' = s \/ disk' = disk)
  BY DEF Update
<1> QED
  BY <1>1 DEF TInv, OnTime

(* A step that leaves memory and file alone, however late it is.           *)
LEMMA OnTimeLater ==
  ASSUME TInv, IInv, UNCHANGED <<mem, disk>>, clock' \in Nat, clock <= clock'
  PROVE  TInv'
<1>1. ASSUME NEW s, StoreInv(s), OnTime(s, clock)
      PROVE  OnTime(s, clock')
  <2>1. \A a \in DOMAIN s.reservations : s.reservations[a].expires \in Nat
    BY <1>1 DEF StoreInv, LedgerInv, StoreTypeOK, Reservation
  <2>2. clock \in Nat
    BY DEF IInv, TypeOK
  <2> QED
    BY <1>1, <2>1, <2>2 DEF OnTime
<1>2. OnTime(mem, clock') /\ OnTime(disk, clock')
  BY <1>1 DEF TInv, IInv
<1> QED
  BY <1>2 DEF TInv, OnTime

(* The sandbox and the policies leave the authorizations alone.            *)
LEMMA SandboxOnTime ==
  ASSUME IInv, TInv, NEW saved \in SaveOutcomes, SandboxNext(saved)
  PROVE  TInv'
<1>1. StoreInv(mem) /\ OnTime(mem, clock) /\ clock \in Nat
  BY DEF IInv, TypeOK, TInv
<1>2. ASSUME NEW s, s.reservations = mem.reservations, Update(s, saved), clock' = clock
      PROVE  TInv'
  <2>1. OnTime(s, clock)
    BY <1>1, <1>2, OnTimeKept
  <2> QED
    BY <1>2, <2>1, UpdateOnTime
<1>3. ASSUME NEW w \in Wallets, NEW policy \in PolicyChoices,
             SetPolicy(w, policy, saved)
      PROVE  TInv'
  BY <1>1, <1>2, <1>3, ReservationsKept DEF SetPolicy
<1>4. ASSUME NEW w \in Wallets, NEW f \in Funds, Mint(w, f, saved)
      PROVE  TInv'
  BY <1>1, <1>2, <1>4, ReservationsKept DEF Mint
<1>5. ASSUME NEW k \in Keys, SettleReplay(k, saved)
      PROVE  TInv'
  BY <1>2, <1>5 DEF SettleReplay
<1>6. ASSUME NEW k \in Keys, SettlePaid(k, saved)
      PROVE  TInv'
  BY <1>1, <1>2, <1>6, ReservationsKept DEF SettlePaid
<1>7. ASSUME NEW k \in Keys, SettleDenied(k, saved) \/ RecordDenied(k, saved)
      PROVE  TInv'
  <2> DEFINE e == DeniedEntry(k.wallet, k.resource, k.price, clock)
  <2>1. Update(AppendTransaction(mem, e), saved) /\ clock' = clock
    BY <1>7 DEF SettleDenied, RecordDenied
  <2> HIDE DEF e
  <2> QED
    BY <1>1, <1>2, <2>1, ReservationsKept
<1>8. ASSUME RecordWorkAudit(saved)
      PROVE  TInv'
  BY <1>2, <1>8 DEF RecordWorkAudit
<1> QED
  BY <1>3, <1>4, <1>5, <1>6, <1>7, <1>8 DEF SandboxNext

(* Granting expires what has had its time; nothing else of these does.     *)
LEMMA PolicyOnTime ==
  ASSUME IInv, TInv, NEW saved \in SaveOutcomes, PolicyNext(saved)
  PROVE  TInv'
<1>1. /\ StoreTypeOK(mem) /\ StoreInv(mem) /\ OnTime(mem, clock) /\ clock \in Nat
      /\ StoreInv(Expired(mem, clock)) /\ OnTime(Expired(mem, clock), clock)
  BY ExpiredGood, OnTimeKept DEF IInv, TypeOK, TInv, Good
<1>2. ASSUME NEW a \in AuthIds, NEW w \in Wallets, NEW r \in Resources,
             NEW x \in Amounts, Reserve(a, w, r, x, saved)
      PROVE  TInv'
  <2> DEFINE s == Expired(mem, clock)
  <2>1. Update(Reserved(s, a, w, r, x, clock), saved) /\ clock' = clock
    BY <1>2 DEF Reserve
  <2> HIDE DEF s
  <2>2. OnTime(Reserved(s, a, w, r, x, clock), clock)
    BY <1>1, OnTimeKept DEF s
  <2> QED
    BY <2>1, <2>2, UpdateOnTime
<1>3. ASSUME NEW w \in Wallets, NEW r \in Resources, NEW x \in Amounts,
             ReserveDenied(w, r, x, saved)
      PROVE  TInv'
  BY <1>1, <1>3, UpdateOnTime DEF ReserveDenied
<1>4. ASSUME NEW a \in AuthIds, Release(a, saved)
      PROVE  TInv'
  BY <1>1, <1>4, OnTimeKept, UpdateOnTime DEF Release
<1>5. ASSUME NEW q \in requests, RecordNothing(q, saved)
      PROVE  TInv'
  BY <1>1, <1>5, UpdateOnTime DEF RecordNothing
<1>6. ASSUME NEW q \in requests, RecordCommit(q, saved)
      PROVE  TInv'
  BY <1>1, <1>6, OnTimeKept, UpdateOnTime DEF RecordCommit
<1>7. ASSUME NEW q \in requests, RecordBootstrap(q, saved)
      PROVE  TInv'
  <2> DEFINE u == RecordedOnce(mem, "official", q.proof, FALSE)
  <2>1. Update(u, saved) /\ clock' = clock
    BY <1>7 DEF RecordBootstrap
  <2>2. u.reservations = mem.reservations
    BY <1>1, RecordedReservations
  <2> HIDE DEF u
  <2> QED
    BY <1>1, <2>1, <2>2, OnTimeKept, UpdateOnTime
<1> QED
  BY <1>2, <1>3, <1>4, <1>5, <1>6, <1>7 DEF PolicyNext

(* Requests, the wallet lane and the outside: a recording expires only what*)
(* it finds past its time, and a crash changes no time.                    *)
LEMMA OtherOnTime ==
  ASSUME IInv, TInv, RecordNext \/ WalletNext \/ OutsideNext
  PROVE  TInv'
<1>1. /\ StoreTypeOK(mem) /\ StoreInv(mem) /\ StoreInv(disk)
      /\ OnTime(mem, clock) /\ OnTime(disk, clock) /\ clock \in Nat
  BY DEF IInv, TypeOK, TInv
<1>2. ASSUME UNCHANGED <<mem, disk, clock>>
      PROVE  TInv'
  BY <1>2 DEF TInv, OnTime
<1>3. CASE RecordNext
  <2>1. ASSUME NEW q \in requests, RecordLapsed(q)
        PROVE  TInv'
    <3>1. Update(WithStatus(mem, q.auth, "expired"), FALSE) /\ clock' = clock
      BY <2>1 DEF RecordLapsed, Update
    <3>2. /\ q.auth \in DOMAIN mem.reservations
          /\ clock > mem.reservations[q.auth].expires
      BY <2>1 DEF RecordLapsed, Lapses, Reservable
    <3>3. mem.reservations[q.auth].expires \in Nat
      BY <1>1, <3>2 DEF StoreTypeOK, Reservation
    <3>4. OnTime(WithStatus(mem, q.auth, "expired"), clock)
      BY <1>1, <3>2, <3>3, OnTimeKept
    <3> QED
      BY <3>1, <3>4, UpdateOnTime
  <2> QED
    BY <1>2, <1>3, <2>1 DEF RecordNext, BeginRecord, DropRequest
<1>4. CASE WalletNext
  <2>1. ASSUME NEW t \in TxIds, NEW saved \in SaveOutcomes,
               WalletSettled(t, saved)
        PROVE  TInv'
    <3> DEFINE p == WalletProof(t, OfficialPayer, walletPay.price,
                                walletPay.resource, Day(clock))
    <3> DEFINE u == RecordedOnce(mem, "browser", p, FALSE)
    <3>1. Update(u, saved) /\ clock' = clock
      BY <2>1 DEF WalletSettled
    <3>2. u.reservations = mem.reservations
      BY <1>1, RecordedReservations
    <3> HIDE DEF u
    <3> QED
      BY <1>1, <3>1, <3>2, OnTimeKept, UpdateOnTime
  <2>2. ASSUME NEW promoted \in BOOLEAN, NEW saved \in SaveOutcomes,
               WalletPromoted(promoted, saved)
        PROVE  TInv'
    BY <1>1, <2>2, UpdateOnTime DEF WalletPromoted
  <2>3. ASSUME NEW q \in requests, NEW saved \in SaveOutcomes,
               FinishRecovery(q, saved)
        PROVE  TInv'
    <3> DEFINE u == RecordedOnce(mem, "browser", q.proof, FALSE)
    <3>1. Update(u, saved) /\ clock' = clock
      BY <2>3 DEF FinishRecovery
    <3>2. u.reservations = mem.reservations
      BY <1>1, RecordedReservations
    <3> HIDE DEF u
    <3> QED
      BY <1>1, <3>1, <3>2, OnTimeKept, UpdateOnTime
  <2> QED
    BY <1>2, <1>4, <2>1, <2>2, <2>3
       DEF WalletNext, BeginWalletPay, WalletAbandoned, BeginRecovery,
           PromoteRecovery
<1>5. CASE OutsideNext
  <2>1. ASSUME Crash
        PROVE  TInv'
    <3> DEFINE u == Normalized(disk)
    <3>1. OnTime(u, clock)
      BY <1>1, OnTimeKept
    <3>2. mem' = u /\ UNCHANGED <<disk, clock>>
      BY <2>1 DEF Crash
    <3> HIDE DEF u
    <3> QED
      BY <1>1, <3>1, <3>2 DEF TInv, OnTime
  <2>2. ASSUME Tick
        PROVE  TInv'
    BY <1>1, <2>2, OnTimeLater DEF Tick
  <2> QED
    BY <1>2, <1>5, <2>1, <2>2 DEF OutsideNext, TearProof, WriteProof
<1> QED
  BY <1>3, <1>4, <1>5

(* No authorization expires before its time is over, neither in memory nor *)
(* in the file: not by another's reservation, a late record request, a     *)
(* failed save or a crash, however long the time to live.                  *)
THEOREM LapseOnTime == Spec => []TInv
<1>1. Init => TInv
  BY DEF Init, EmptyState, TInv, OnTime
<1>2. IInv /\ TInv /\ [Next]_vars => TInv'
  <2> SUFFICES ASSUME IInv, TInv, [Next]_vars
               PROVE  TInv'
    OBVIOUS
  <2>1. CASE UNCHANGED vars
    BY <2>1 DEF vars, TInv, OnTime
  <2>2. CASE Next
    BY <2>2, SandboxOnTime, PolicyOnTime, OtherOnTime DEF Next
  <2> QED
    BY <2>1, <2>2
<1> QED
  BY <1>1, <1>2, Invariance, PTL DEF Spec
=============================================================================
