------------------------- MODULE OfficialLane_proofs -------------------------
(***************************************************************************)
(* The command-line lane drives the store only through its handlers, and   *)
(* money leaves only under an authorization that is on the disk and was    *)
(* never released, for any number of runs, wallets, routes and settlements *)
(* and across failed saves, crashes and answers nobody heard.              *)
(***************************************************************************)
EXTENDS OfficialLane, GatewayStore_proofs

(* The ids of the authorizations that were given back.                     *)
Freed(s) ==
  {a \in DOMAIN s.reservations : s.reservations[a].status = "released"}
Gone == Freed(mem) \cup Freed(disk)

(* A run counts on its authorization from the 201 it heard until the end.  *)
Counting(a) == run[a].at = "reserved" \/ Spending(a)
Granted(a) ==
  /\ a \in DOMAIN disk.reservations
  /\ SameWallet(disk.reservations[a].wallet, CliWallet)
  /\ disk.reservations[a].resource = run[a].svc.resource
  /\ disk.reservations[a].amount = run[a].svc.price

(* The memory matters as well as the disk: a release whose save failed is  *)
(* written by the next save of anybody.                                    *)
LaneInv ==
  /\ LaneTypeOK
  /\ \A a \in AuthIds :
       /\ run[a].at # "new" => run[a].svc \in CliServices
       /\ run[a].at \in {"new", "reserved"} => ~Spending(a)
       /\ run[a].at \in {"paid", "torn", "saved"} => settlement[a] # NoTx
       /\ Counting(a) => Granted(a) /\ a \notin Gone

(***************************************************************************)
(* No handler but release gives an authorization back.                     *)
(***************************************************************************)

(* Functions on the store that leave the authorizations alone.             *)
LEMMA FreedUntouched ==
  ASSUME NEW s, StoreInv(s)
  PROVE  /\ \A w, eth, usdc : Freed(Minted(s, w, eth, usdc)) = Freed(s)
         /\ \A w, policy : Freed(WithPolicy(s, w, policy)) = Freed(s)
         /\ \A e : Freed(AppendTransaction(s, e)) = Freed(s)
         /\ \A k, now : Freed(Settled(s, k, now)) = Freed(s)
<1>1. ASSUME NEW u, u.reservations = s.reservations
      PROVE  Freed(u) = Freed(s)
  BY <1>1 DEF Freed
<1>2. \A e : AppendTransaction(s, e).reservations = s.reservations
  BY DEF AppendTransaction, StoreInv, LedgerInv, StoreTypeOK
<1>3. \A w, eth, usdc : Minted(s, w, eth, usdc).reservations = s.reservations
  BY DEF Minted, StoreInv, LedgerInv, StoreTypeOK
<1>4. \A w, policy : WithPolicy(s, w, policy).reservations = s.reservations
  BY DEF WithPolicy, StoreInv, LedgerInv, StoreTypeOK
<1>5. \A k, now : Settled(s, k, now).reservations = s.reservations
  BY DEF Settled, AppendTransaction, StoreInv, LedgerInv, StoreTypeOK
<1> QED
  BY <1>1, <1>2, <1>3, <1>4, <1>5

(* Recording a settlement frees none.                                      *)
LEMMA FreedRecorded ==
  ASSUME NEW s, StoreInv(s), NEW kind, NEW p
  PROVE  Freed(RecordedOnce(s, kind, p, FALSE)) = Freed(s)
BY RecordedReservations DEF Freed

(* Functions that change authorizations, but free none except the one they *)
(* release.                                                                *)
LEMMA FreedKept ==
  ASSUME NEW s, StoreInv(s)
  PROVE  /\ \A now : Freed(Expired(s, now)) = Freed(s)
         /\ \A a, w, r, x, now : Freed(Reserved(s, a, w, r, x, now)) \subseteq Freed(s)
         /\ \A a, p, now : Freed(Committed(s, a, p, now)) \subseteq Freed(s)
         /\ \A a : Freed(WithStatus(s, a, "expired")) \subseteq Freed(s)
         /\ \A a : Freed(Released(s, a)) \subseteq Freed(s) \cup {a}
         /\ Freed(Normalized(s)) = Freed(s)
<1> DEFINE f == s.reservations
<1>1. f \in [DOMAIN f -> Reservation] /\ s = [s EXCEPT !.reservations = f]
  BY DEF StoreInv, LedgerInv, StoreTypeOK
<1>2. \A g : [s EXCEPT !.reservations = g].reservations = g
  BY DEF StoreInv, LedgerInv, StoreTypeOK
<1>3. ASSUME NEW now
      PROVE  Freed(Expired(s, now)) = Freed(s)
  <2> DEFINE g == Expired(s, now).reservations
  <2>1. /\ DOMAIN g = DOMAIN f
        /\ \A a \in DOMAIN f : g[a].status = "released" <=> f[a].status = "released"
    BY <1>1, <1>2 DEF Expired, Reservation
  <2> QED
    BY <2>1 DEF Freed
<1>4. ASSUME NEW a, NEW w, NEW r, NEW x, NEW now
      PROVE  Freed(Reserved(s, a, w, r, x, now)) \subseteq Freed(s)
  <2> DEFINE g == Reserved(s, a, w, r, x, now).reservations
  <2>1. /\ DOMAIN g = DOMAIN f \cup {a}
        /\ g[a].status = "active"
        /\ \A b \in DOMAIN f \ {a} : g[b] = f[b]
    BY <1>2 DEF Reserved, Put, StoreInv, LedgerInv, StoreTypeOK
  <2> QED
    BY <2>1 DEF Freed
<1>5. ASSUME NEW a, NEW status
      PROVE  Freed(WithStatus(s, a, status)) \subseteq
               IF status = "released" THEN Freed(s) \cup {a} ELSE Freed(s)
  <2> DEFINE g == [f EXCEPT ![a].status = status]
  <2>1. /\ DOMAIN g = DOMAIN f
        /\ \A b \in DOMAIN f \ {a} : g[b] = f[b]
        /\ a \in DOMAIN f => g[a].status = status
    BY <1>1 DEF Reservation
  <2>2. WithStatus(s, a, status).reservations = g
    BY DEF WithStatus, StoreInv, LedgerInv, StoreTypeOK
  <2> HIDE DEF g
  <2> QED
    BY <2>1, <2>2 DEF Freed
<1>6. ASSUME NEW a, NEW p, NEW now
      PROVE  Freed(Committed(s, a, p, now)) \subseteq Freed(s)
  <2> DEFINE bound == [s EXCEPT !.reservations[a].status = "committed",
                                !.reservations[a].tx = p.tx]
  <2>1. Committed(s, a, p, now).reservations = bound.reservations
    BY DEF Committed, RecordedOnce, AppendTransaction, StoreInv, LedgerInv, StoreTypeOK
  <2> DEFINE g == bound.reservations
  <2>2. /\ DOMAIN g = DOMAIN f
        /\ \A b \in DOMAIN f \ {a} : g[b] = f[b]
        /\ a \in DOMAIN f => g[a].status = "committed"
    BY <1>1 DEF Reservation, StoreInv, LedgerInv, StoreTypeOK
  <2> HIDE DEF bound
  <2> QED
    BY <2>1, <2>2 DEF Freed
<1>7. \A a : Freed(Released(s, a)) \subseteq Freed(s) \cup {a}
  BY <1>5 DEF Released
<1>8. Freed(Normalized(s)) = Freed(s)
  <2> DEFINE g == Normalized(s).reservations
  <2>1. g = [a \in DOMAIN f |-> [f[a] EXCEPT !.wallet = WalletKey[f[a].wallet]]]
    BY DEF Normalized, StoreInv, LedgerInv, StoreTypeOK
  <2>2. DOMAIN g = DOMAIN f /\ \A a \in DOMAIN f : g[a].status = f[a].status
    BY <1>1, <2>1 DEF Reservation
  <2> QED
    BY <2>2 DEF Freed
<1> QED
  BY <1>3, <1>4, <1>5, <1>6, <1>7, <1>8

(* A step of the gateway, of an operator or of the outside frees nothing.  *)
LEMMA GatewayFreesNone ==
  ASSUME IInv, GatewayStep \/ Reconcile
  PROVE  Gone' \subseteq Gone
<1>1. StoreInv(mem) /\ StoreInv(disk)
  BY DEF IInv
<1>2. \A saved \in SaveOutcomes : saved \in BOOLEAN
  BY GatewayAssumption
<1>3. ASSUME NEW s, NEW saved \in SaveOutcomes, Update(s, saved),
             Freed(s) \subseteq Freed(mem)
      PROVE  Gone' \subseteq Gone
  BY <1>2, <1>3 DEF Update, Gone, Freed
<1>4. ASSUME UNCHANGED <<mem, disk>>
      PROVE  Gone' \subseteq Gone
  BY <1>4 DEF Gone, Freed
<1>5. ASSUME NEW saved \in SaveOutcomes, SandboxNext(saved)
      PROVE  Gone' \subseteq Gone
  <2>1. ASSUME NEW w \in Wallets, NEW policy \in PolicyChoices,
               SetPolicy(w, policy, saved)
        PROVE  Gone' \subseteq Gone
    <3>1. Freed(WithPolicy(mem, WalletKey[w], policy)) \subseteq Freed(mem)
      BY <1>1, FreedUntouched
    <3> QED
      BY <1>3, <2>1, <3>1 DEF SetPolicy
  <2>2. ASSUME NEW w \in Wallets, NEW f \in Funds, Mint(w, f, saved)
        PROVE  Gone' \subseteq Gone
    <3>1. Freed(Minted(mem, w, f.eth, f.usdc)) \subseteq Freed(mem)
      BY <1>1, FreedUntouched
    <3> QED
      BY <1>3, <2>2, <3>1 DEF Mint
  <2>3. ASSUME NEW k \in Keys, SettlePaid(k, saved)
        PROVE  Gone' \subseteq Gone
    <3>1. Freed(Settled(mem, k, clock)) \subseteq Freed(mem)
      BY <1>1, FreedUntouched
    <3> QED
      BY <1>3, <2>3, <3>1 DEF SettlePaid
  <2>4. ASSUME NEW k \in Keys, SettleDenied(k, saved) \/ RecordDenied(k, saved)
        PROVE  Gone' \subseteq Gone
    <3> DEFINE e == DeniedEntry(k.wallet, k.resource, k.price, clock)
    <3>1. Freed(AppendTransaction(mem, e)) \subseteq Freed(mem)
      BY <1>1, FreedUntouched
    <3>2. Update(AppendTransaction(mem, e), saved)
      BY <2>4 DEF SettleDenied, RecordDenied
    <3> QED
      BY <1>3, <3>1, <3>2
  <2>5. ASSUME Update(mem, saved)
        PROVE  Gone' \subseteq Gone
    BY <1>3, <2>5
  <2> QED
    BY <1>5, <2>1, <2>2, <2>3, <2>4, <2>5
       DEF SandboxNext, SettleReplay, RecordWorkAudit
<1>6. ASSUME NEW saved \in SaveOutcomes, NEW r, NEW x, ReserveDenied(CliWallet, r, x, saved)
      PROVE  Gone' \subseteq Gone
  <2>1. Freed(Expired(mem, clock)) \subseteq Freed(mem)
    BY <1>1, FreedKept
  <2> QED
    BY <1>3, <1>6, <2>1 DEF ReserveDenied
<1>7. ASSUME NEW saved \in SaveOutcomes, NEW q, RecordNothing(q, saved)
      PROVE  Gone' \subseteq Gone
  BY <1>3, <1>7 DEF RecordNothing
<1>8. ASSUME NEW saved \in SaveOutcomes, NEW q, RecordCommit(q, saved)
      PROVE  Gone' \subseteq Gone
  <2>1. Freed(Committed(mem, q.auth, q.proof, clock)) \subseteq Freed(mem)
    BY <1>1, FreedKept
  <2> QED
    BY <1>3, <1>8, <2>1 DEF RecordCommit
<1>9. ASSUME NEW q, RecordLapsed(q)
      PROVE  Gone' \subseteq Gone
  <2>1. Freed(WithStatus(mem, q.auth, "expired")) \subseteq Freed(mem)
    BY <1>1, FreedKept
  <2>2. mem' = WithStatus(mem, q.auth, "expired") /\ disk' = disk
    BY <1>9 DEF RecordLapsed
  <2> QED
    BY <2>1, <2>2 DEF Gone, Freed
<1>10. ASSUME WalletNext
       PROVE  Gone' \subseteq Gone
  <2>1. ASSUME NEW t, NEW saved \in SaveOutcomes, WalletSettled(t, saved)
        PROVE  Gone' \subseteq Gone
    <3> DEFINE p == WalletProof(t, OfficialPayer, walletPay.price,
                                walletPay.resource, Day(clock))
    <3> DEFINE u == RecordedOnce(mem, "browser", p, FALSE)
    <3>1. Freed(u) = Freed(mem)
      BY <1>1, FreedRecorded
    <3>2. Update(u, saved)
      BY <2>1 DEF WalletSettled
    <3> HIDE DEF u
    <3> QED
      BY <1>3, <3>1, <3>2
  <2>2. ASSUME NEW q, NEW saved \in SaveOutcomes, FinishRecovery(q, saved)
        PROVE  Gone' \subseteq Gone
    <3> DEFINE u == RecordedOnce(mem, "browser", q.proof, FALSE)
    <3>1. Freed(u) = Freed(mem)
      BY <1>1, FreedRecorded
    <3>2. Update(u, saved)
      BY <2>2 DEF FinishRecovery
    <3> HIDE DEF u
    <3> QED
      BY <1>3, <3>1, <3>2
  <2>3. ASSUME NEW promised, NEW saved \in SaveOutcomes, WalletPromoted(promised, saved)
        PROVE  Gone' \subseteq Gone
    BY <1>3, <2>3 DEF WalletPromoted
  <2> QED
    BY <1>4, <1>10, <2>1, <2>2, <2>3
       DEF WalletNext, BeginWalletPay, WalletAbandoned, BeginRecovery, PromoteRecovery
<1>11. ASSUME Crash
       PROVE  Gone' \subseteq Gone
  <2>1. Freed(Normalized(disk)) = Freed(disk)
    BY <1>1, FreedKept
  <2>2. mem' = Normalized(disk) /\ disk' = disk
    BY <1>11 DEF Crash
  <2> QED
    BY <2>1, <2>2 DEF Gone, Freed
<1>12. CASE Reconcile
  BY <1>4, <1>12 DEF Reconcile, BeginRecord
<1>13. CASE GatewayStep
  <2>1. ASSUME NEW q, DropRequest(q)
        PROVE  Gone' \subseteq Gone
    BY <1>4, <2>1 DEF DropRequest
  <2>2. ASSUME Tick
        PROVE  Gone' \subseteq Gone
    BY <1>4, <2>2 DEF Tick
  <2> QED
    BY <1>5, <1>6, <1>7, <1>8, <1>9, <1>10, <1>11, <1>13, <2>1, <2>2 DEF GatewayStep
<1> QED
  BY <1>12, <1>13

(***************************************************************************)
(* Every step of the lane is a step of the store or leaves it alone.       *)
(***************************************************************************)

(* A step of the lane is a step of the store, or one that leaves the store *)
(* alone.                                                                  *)
LEMMA LaneStepIsStoreStep ==
  ASSUME LaneInv, [LaneNext]_allVars
  PROVE  [Next]_vars
<1>1. ASSUME NEW a \in AuthIds, RunNext(a)
      PROVE  [Next]_vars
  <2>1. ASSUME NEW svc \in CliServices, NEW saved \in SaveOutcomes, NEW heard \in BOOLEAN,
               StartRun(a, svc, saved, heard)
        PROVE  Next
    <3>1. CliWallet \in Wallets /\ svc.resource \in Resources /\ svc.price \in Amounts
      BY LaneAssumption
    <3>2. Reserve(a, CliWallet, svc.resource, svc.price, saved)
      BY <2>1 DEF StartRun
    <3>3. PolicyNext(saved)
      BY <3>1, <3>2 DEF PolicyNext
    <3> QED
      BY <3>3 DEF Next
  <2>2. ASSUME NEW saved \in SaveOutcomes, GiveBack(a, saved)
        PROVE  Next
    <3>1. PolicyNext(saved)
      BY <2>2 DEF GiveBack, PolicyNext
    <3> QED
      BY <3>1 DEF Next
  <2>3. ASSUME TruncateProof(a)
        PROVE  Next
    BY <2>3 DEF TruncateProof, OutsideNext, Next
  <2>4. ASSUME SaveProof(a)
        PROVE  Next
    <3>1. settlement[a] \in TxIds /\ run[a].svc \in CliServices
      BY <2>4 DEF LaneInv, LaneTypeOK, SaveProof
    <3>2. Claim(a, settlement[a]) \in ProofChoices
      BY <3>1, LaneAssumption DEF Claim
    <3> QED
      BY <2>4, <3>2 DEF SaveProof, OutsideNext, Next
  <2>5. ASSUME RecordSpend(a)
        PROVE  Next
    <3>1. [mode |-> "record", auth |-> a, bootstrap |-> FALSE] \in Submissions
      BY LaneAssumption
    <3> QED
      BY <2>5, <3>1 DEF RecordSpend, RecordNext, Next
  <2>6. ASSUME \/ SendPayment(a) \/ HearSettlement(a) \/ StopRun(a)
               \/ \E t \in TxIds : SettleOnChain(a, t)
               \/ RejectPayment(a)
        PROVE  UNCHANGED vars
    BY <2>6 DEF SendPayment, HearSettlement, StopRun, SettleOnChain, RejectPayment
  <2> QED
    BY <1>1, <2>1, <2>2, <2>3, <2>4, <2>5, <2>6 DEF RunNext
<1>2. ASSUME Reconcile
      PROVE  Next
  <2>1. [mode |-> "reconcile", auth |-> NoAuth, bootstrap |-> FALSE] \in Submissions
    BY LaneAssumption
  <2> QED
    BY <1>2, <2>1 DEF Reconcile, RecordNext, Next
<1>3. ASSUME GatewayStep
      PROVE  Next
  <2>1. ASSUME NEW saved \in SaveOutcomes,
               \/ \E r \in Resources, x \in Amounts :
                    ReserveDenied(CliWallet, r, x, saved)
               \/ \E q \in requests : RecordNothing(q, saved) \/ RecordCommit(q, saved)
        PROVE  PolicyNext(saved)
    BY <2>1, LaneAssumption DEF PolicyNext
  <2> QED
    BY <1>3, <2>1 DEF GatewayStep, RecordNext, OutsideNext, Next
<1> QED
  BY <1>1, <1>2, <1>3 DEF LaneNext, allVars, vars

(***************************************************************************)
(* Money leaves only under an authorization.                               *)
(***************************************************************************)

(* What was granted on the disk stays granted.                             *)
LEMMA GrantedKept ==
  ASSUME NEW a \in AuthIds, Granted(a), StepsForward,
         run'[a].svc = run[a].svc
  PROVE  Granted(a)'
<1>1. /\ a \in DOMAIN disk.reservations /\ a \in DOMAIN disk'.reservations
      /\ Forward(disk.reservations[a], disk'.reservations[a])
  BY DEF Granted, StepsForward, AuthorizationsExtend
<1> QED
  BY <1>1 DEF Granted, Forward, SameWallet

(* A step that touches neither the runs nor the payments in flight.        *)
LEMMA RunsUntouched ==
  ASSUME LaneInv, StepsForward, Gone' \subseteq Gone, UNCHANGED laneVars
  PROVE  LaneInv'
<1>1. \A a \in AuthIds : Counting(a)' <=> Counting(a)
  BY DEF Counting, Spending, laneVars
<1>2. \A a \in AuthIds : Counting(a) => Granted(a)'
  BY GrantedKept DEF LaneInv, laneVars
<1> QED
  BY <1>1, <1>2 DEF LaneInv, LaneTypeOK, Spending, laneVars

(* A step of run a alone.                                                  *)
LEMMA RunMoves ==
  ASSUME LaneInv, StepsForward, NEW a \in AuthIds,
         Gone' \subseteq Gone \cup {a},
         LaneTypeOK',
         \A b \in AuthIds \ {a} :
           /\ run'[b] = run[b] /\ settlement'[b] = settlement[b]
           /\ b \in inFlight' <=> b \in inFlight,
         run'[a].at # "new" => run'[a].svc \in CliServices,
         run'[a].at \in {"new", "reserved"} => ~Spending(a)',
         run'[a].at \in {"paid", "torn", "saved"} => settlement'[a] # NoTx,
         Counting(a)' => Granted(a)' /\ (a \notin Gone)'
  PROVE  LaneInv'
<1>1. ASSUME NEW b \in AuthIds \ {a}
      PROVE  /\ run'[b].at # "new" => run'[b].svc \in CliServices
             /\ run'[b].at \in {"new", "reserved"} => ~Spending(b)'
             /\ run'[b].at \in {"paid", "torn", "saved"} => settlement'[b] # NoTx
             /\ Counting(b)' => Granted(b)' /\ (b \notin Gone)'
  <2>1. /\ Spending(b)' <=> Spending(b)
        /\ Counting(b)' <=> Counting(b)
    BY DEF Counting, Spending
  <2>2. Counting(b) => Granted(b)'
    BY GrantedKept DEF LaneInv
  <2> QED
    BY <2>1, <2>2 DEF LaneInv
<1> QED
  BY <1>1 DEF LaneInv

(* One step of a run.                                                      *)
LEMMA RunStep ==
  ASSUME IInv, LaneInv, StepsForward, NEW a \in AuthIds, RunNext(a)
  PROVE  LaneInv'
<1> DEFINE Frame == \A b \in AuthIds \ {a} :
                      /\ run'[b] = run[b] /\ settlement'[b] = settlement[b]
                      /\ b \in inFlight' <=> b \in inFlight
<1>1. /\ StoreInv(mem) /\ StoreInv(disk)
      /\ run \in [AuthIds -> [at: Place,
                   svc: [resource: Resources, price: Amounts \cup {0}]]]
      /\ inFlight \subseteq AuthIds
      /\ settlement \in [AuthIds -> TxIds \cup {NoTx}]
      /\ \A saved \in SaveOutcomes : saved \in BOOLEAN
  BY GatewayAssumption DEF IInv, LaneInv, LaneTypeOK
<1>2. ASSUME NEW place \in Place, Goto(a, place)
      PROVE  /\ run' \in [AuthIds -> [at: Place,
                   svc: [resource: Resources, price: Amounts \cup {0}]]]
             /\ run'[a].at = place /\ run'[a].svc = run[a].svc
             /\ \A b \in AuthIds \ {a} : run'[b] = run[b]
  BY <1>1, <1>2 DEF Goto
<1>3. ASSUME NEW svc \in CliServices, NEW saved \in SaveOutcomes, NEW heard \in BOOLEAN,
             StartRun(a, svc, saved, heard)
      PROVE  LaneInv'
  <2> DEFINE place == IF saved /\ heard THEN "reserved" ELSE "exited"
  <2> DEFINE s == Expired(mem, clock)
  <2> DEFINE u == Reserved(s, a, CliWallet, svc.resource, svc.price, clock)
  <2>1. svc.resource \in Resources /\ svc.price \in Amounts
    BY LaneAssumption
  <2>2. /\ run[a].at = "new" /\ Fresh(a) /\ Update(u, saved)
        /\ run' = [run EXCEPT ![a] = [at |-> place, svc |-> svc]]
        /\ UNCHANGED <<inFlight, settlement>>
    BY <1>3 DEF StartRun, Reserve
  <2>3. /\ LaneTypeOK' /\ Frame /\ run'[a].svc = svc /\ run'[a].at = place
    <3>1. place \in Place
      BY DEF Place
    <3> HIDE DEF place
    <3>2. [at |-> place, svc |-> svc] \in
             [at: Place, svc: [resource: Resources, price: Amounts \cup {0}]]
      BY <2>1, <3>1, LaneAssumption
    <3> QED
      BY <1>1, <2>2, <3>2 DEF LaneTypeOK
  <2>4. ~Spending(a) /\ ~Spending(a)'
    BY <2>2 DEF LaneInv, Spending
  <2>5. /\ StoreInv(s) /\ Freed(s) = Freed(mem)
    BY <1>1, ExpiredGood, FreedKept DEF IInv, TypeOK, Good
  <2> HIDE DEF s
  <2>6. Freed(u) \subseteq Freed(mem)
    BY <2>5, FreedKept
  <2>7. Gone' \subseteq Gone
    BY <1>1, <2>2, <2>6 DEF Update, Gone, Freed
  <2>8. a \notin Gone
    BY <2>2 DEF Fresh, Gone, Freed
  <2>9. ASSUME saved
        PROVE  Granted(a)'
    <3>1. disk' = u
      BY <2>2, <2>9 DEF Update
    <3>2. /\ a \in DOMAIN u.reservations
          /\ u.reservations[a].wallet = CliWallet
          /\ u.reservations[a].resource = svc.resource
          /\ u.reservations[a].amount = svc.price
      BY <2>5 DEF Reserved, Put, StoreInv, LedgerInv, StoreTypeOK
    <3> HIDE DEF u
    <3> QED
      BY <2>3, <3>1, <3>2 DEF Granted, SameWallet
  <2>10. Counting(a)' => Granted(a)' /\ (a \notin Gone)'
    BY <2>3, <2>4, <2>7, <2>8, <2>9 DEF Counting
  <2>11. run'[a].at \notin {"paid", "torn", "saved"}
    BY <2>3
  <2> HIDE DEF u, place
  <2> QED
    BY <2>3, <2>4, <2>7, <2>10, <2>11, RunMoves
<1>4. ASSUME NEW saved \in SaveOutcomes, GiveBack(a, saved)
      PROVE  LaneInv'
  <2>1. /\ run[a].at = "reserved" /\ Update(Released(mem, a), saved)
        /\ Goto(a, "exited") /\ UNCHANGED <<inFlight, settlement>>
    BY <1>4 DEF GiveBack, Release
  <2>2. LaneTypeOK' /\ Frame /\ run'[a].at = "exited" /\ run'[a].svc = run[a].svc
    BY <1>1, <1>2, <2>1 DEF LaneTypeOK, Place
  <2>3. ~Spending(a)' /\ ~Counting(a)'
    BY <2>1, <2>2 DEF LaneInv, Spending, Counting
  <2>4. Freed(Released(mem, a)) \subseteq Freed(mem) \cup {a}
    BY <1>1, FreedKept
  <2>5. Gone' \subseteq Gone \cup {a}
    BY <1>1, <2>1, <2>4 DEF Update, Gone, Freed
  <2>6. run[a].svc \in CliServices
    BY <2>1 DEF LaneInv
  <2> QED
    BY <2>2, <2>3, <2>5, <2>6, RunMoves
<1>5. ASSUME SendPayment(a)
      PROVE  LaneInv'
  <2>1. /\ run[a].at = "reserved" /\ Goto(a, "sent")
        /\ inFlight' = inFlight \cup {a}
        /\ UNCHANGED <<mem, disk, settlement>>
    BY <1>5 DEF SendPayment, vars
  <2>2. LaneTypeOK' /\ Frame /\ run'[a].at = "sent" /\ run'[a].svc = run[a].svc
    BY <1>1, <1>2, <2>1 DEF LaneTypeOK, Place
  <2>3. Granted(a) /\ a \notin Gone /\ run[a].svc \in CliServices
    BY <2>1 DEF LaneInv, Counting
  <2>4. Granted(a)' /\ (a \notin Gone)' /\ Gone' = Gone
    BY <2>1, <2>2, <2>3 DEF Granted, Gone, Freed
  <2> QED
    BY <2>2, <2>3, <2>4, RunMoves
<1>6. ASSUME NEW t \in TxIds, SettleOnChain(a, t)
      PROVE  LaneInv'
  <2>1. /\ a \in inFlight /\ settlement' = [settlement EXCEPT ![a] = t]
        /\ inFlight' = inFlight \ {a} /\ UNCHANGED <<mem, disk, run>>
    BY <1>6 DEF SettleOnChain, vars
  <2>2. LaneTypeOK' /\ Frame /\ settlement'[a] = t /\ t # NoTx
    BY <1>1, <2>1, ChainAssumption DEF LaneTypeOK
  <2>3. Spending(a) /\ Granted(a) /\ a \notin Gone
    BY <2>1 DEF LaneInv, Counting, Spending
  <2>4. Granted(a)' /\ (a \notin Gone)' /\ Gone' = Gone
    BY <2>1, <2>3 DEF Granted, Gone, Freed
  <2>5. /\ run'[a].at # "new" => run'[a].svc \in CliServices
        /\ run'[a].at \notin {"new", "reserved"}
    BY <2>1, <2>3 DEF LaneInv
  <2> QED
    BY <2>2, <2>4, <2>5, RunMoves
<1>7. ASSUME RejectPayment(a)
      PROVE  LaneInv'
  <2>1. /\ a \in inFlight /\ inFlight' = inFlight \ {a}
        /\ UNCHANGED <<mem, disk, run, settlement>>
    BY <1>7 DEF RejectPayment, vars
  <2>2. LaneTypeOK' /\ Frame
    BY <1>1, <2>1 DEF LaneTypeOK
  <2>3. Spending(a) /\ Granted(a) /\ a \notin Gone
    BY <2>1 DEF LaneInv, Counting, Spending
  <2>4. Granted(a)' /\ (a \notin Gone)' /\ Gone' = Gone
    BY <2>1, <2>3 DEF Granted, Gone, Freed
  <2>5. /\ run'[a].at # "new" => run'[a].svc \in CliServices
        /\ run'[a].at \notin {"new", "reserved"}
        /\ run'[a].at \in {"paid", "torn", "saved"} => settlement'[a] # NoTx
    BY <2>1, <2>3 DEF LaneInv
  <2> QED
    BY <2>2, <2>4, <2>5, RunMoves
<1>8. ASSUME NEW place \in {"paid", "torn", "saved", "recording", "exited"},
             Goto(a, place), UNCHANGED <<mem, disk, inFlight, settlement>>,
             run[a].at # "new",
             place \in {"paid", "torn", "saved"} => settlement[a] # NoTx
      PROVE  LaneInv'
  <2>1. LaneTypeOK' /\ Frame /\ run'[a].at = place /\ run'[a].svc = run[a].svc
    BY <1>1, <1>2, <1>8 DEF LaneTypeOK, Place
  <2>2. Gone' = Gone /\ (Spending(a)' <=> Spending(a)) /\ (Granted(a)' <=> Granted(a))
    BY <1>8, <2>1 DEF Gone, Freed, Spending, Granted
  <2>3. Counting(a)' => Counting(a)
    BY <2>1, <2>2 DEF Counting
  <2>4. /\ run'[a].svc \in CliServices
        /\ Counting(a)' => Granted(a)' /\ (a \notin Gone)'
    BY <1>8, <2>1, <2>2, <2>3 DEF LaneInv
  <2> QED
    BY <1>8, <2>1, <2>2, <2>4, RunMoves
<1>9. ASSUME HearSettlement(a) \/ TruncateProof(a) \/ SaveProof(a)
             \/ RecordSpend(a) \/ StopRun(a)
      PROVE  LaneInv'
  <2>1. /\ UNCHANGED <<mem, disk, inFlight, settlement>>
        /\ run[a].at # "new"
        /\ \/ Goto(a, "paid") /\ settlement[a] # NoTx
           \/ Goto(a, "torn") /\ run[a].at = "paid"
           \/ Goto(a, "saved") /\ run[a].at = "torn"
           \/ Goto(a, "recording") \/ Goto(a, "exited")
    BY <1>9
       DEF HearSettlement, TruncateProof, SaveProof, RecordSpend, StopRun,
           TearProof, WriteProof, BeginRecord, vars
  <2>2. run[a].at \in {"paid", "torn"} => settlement[a] # NoTx
    BY DEF LaneInv
  <2> QED
    BY <1>8, <2>1, <2>2
<1> QED
  BY <1>3, <1>4, <1>5, <1>6, <1>7, <1>9 DEF RunNext

(***************************************************************************)
(* The theorems.                                                           *)
(***************************************************************************)

(* Before anything ran nothing was spent.                                  *)
LEMMA InitLaneInv == LaneInit => LaneInv
BY BoundAssumption
   DEF LaneInit, LaneInv, LaneTypeOK, NotChosen, Place, Spending, Counting

(* Both invariants survive every step, which is one of the store.          *)
LEMMA NextLaneInv ==
  IInv /\ LaneInv /\ [LaneNext]_allVars => IInv' /\ LaneInv' /\ [Next]_vars
<1> SUFFICES ASSUME IInv, LaneInv, [LaneNext]_allVars
             PROVE  IInv' /\ LaneInv' /\ [Next]_vars
  OBVIOUS
<1>1. [Next]_vars
  BY LaneStepIsStoreStep
<1>2. IInv' /\ StepsForward
  BY <1>1, NextIInv DEF DiskExtends, Extends, StepsForward
<1>3. CASE \E a \in AuthIds : RunNext(a)
  BY <1>1, <1>2, <1>3, RunStep
<1>4. CASE Reconcile \/ GatewayStep
  <2>1. UNCHANGED laneVars
    BY <1>4 DEF Reconcile, GatewayStep
  <2> QED
    BY <1>1, <1>2, <1>4, <2>1, GatewayFreesNone, RunsUntouched
<1>5. CASE UNCHANGED allVars
  <2>1. Gone' = Gone /\ UNCHANGED laneVars
    BY <1>5 DEF allVars, vars, Gone, Freed
  <2> QED
    BY <1>1, <1>2, <2>1, RunsUntouched
<1> QED
  BY <1>3, <1>4, <1>5 DEF LaneNext

(* The invariant of the store and of the lane.                             *)
THEOREM LaneInvariance == LaneSpec => [](IInv /\ LaneInv)
<1>1. LaneInit => IInv /\ LaneInv
  BY InitIInv, InitLaneInv DEF LaneInit
<1> QED
  BY <1>1, NextLaneInv, PTL DEF LaneSpec

(* Every step of the lane is one of the store's handlers or none, so what  *)
(* is proved of the store holds of the lane.                               *)
LEMMA LaneRefines == LaneSpec => Spec
<1>1. LaneInit => Init
  BY DEF LaneInit
<1> QED
  BY <1>1, LaneInvariance, NextLaneInv, PTL DEF LaneSpec, Spec

(* The store's promises, then, with the official client at work: its       *)
(* authorizations keep their contract, its ledger counts each settlement   *)
(* once and truthfully, no receipt it promised is lost and no money is     *)
(* made.                                                                   *)
THEOREM LanePromises ==
  LaneSpec => /\ ImplementsAuthorizations
              /\ AuthorizationsForward
              /\ [](LedgerUnique /\ LedgerTrue /\ PromisesKept)
              /\ [](RetriesAnswered /\ MoneyConserved)
<1>1. Spec => /\ ImplementsAuthorizations
              /\ AuthorizationsForward
              /\ [](LedgerUnique /\ LedgerTrue /\ PromisesKept)
              /\ [](RetriesAnswered /\ MoneyConserved)
  BY AuthorizationContract, ForwardOnly, LedgerUniqueness, LedgerTruth,
     Durability, RetriesFindReceipts, Money, PTL
<1> QED
  BY <1>1, LaneRefines

(* Every variable of the lane has its type.                                *)
THEOREM LaneTypeCorrect == LaneSpec => []LaneTypeOK
<1>1. LaneInv => LaneTypeOK
  BY DEF LaneInv
<1> QED
  BY <1>1, LaneInvariance, PTL

(* A signed payment is in flight, or has settled, only under an            *)
(* authorization on the disk that is the run's and was never released.     *)
THEOREM Authorized == LaneSpec => []PaidUnderAuthorization
<1>1. LaneInv => PaidUnderAuthorization
  BY DEF LaneInv, PaidUnderAuthorization, Counting, Granted, Gone, Freed
<1> QED
  BY <1>1, LaneInvariance, PTL

(* A payment that may settle, or has, holds its budget until it is         *)
(* accounted for or its time to live is over, whatever other runs,         *)
(* requests, failed saves and crashes do: that time is the only way in     *)
(* which HeldUntilResolved fails.                                          *)
THEOREM HeldInTime == LaneSpec => []HeldForItsTime
<1>1. IInv /\ LaneInv /\ TInv => HeldForItsTime
  <2> SUFFICES ASSUME IInv, LaneInv, TInv, NEW a \in AuthIds, Spending(a)
               PROVE  \/ HoldsBudget(mem.reservations[a], clock)
                      \/ mem.reservations[a].status = "committed"
                      \/ mem.reservations[a].expires <= clock
    BY DEF HeldForItsTime
  <2>1. a \in DOMAIN disk.reservations /\ a \notin Freed(mem)
    BY DEF LaneInv, Counting, Granted, Gone
  <2>2. a \in DOMAIN mem.reservations
    BY <2>1 DEF IInv, Extends, AuthorizationsExtend
  <2> DEFINE r == mem.reservations[a]
  <2>3. r \in Reservation /\ clock \in Nat
    BY <2>2 DEF IInv, TypeOK, StoreTypeOK
  <2>4. r.status # "released"
    BY <2>1, <2>2 DEF Freed
  <2>5. r.status = "expired" => r.expires <= clock
    BY <2>2 DEF TInv, OnTime
  <2> HIDE DEF r
  <2>6. \/ HoldsBudget(r, clock) \/ r.status = "committed" \/ r.expires <= clock
    BY <2>3, <2>4, <2>5 DEF Reservation, Status, HoldsBudget
  <2> QED
    BY <2>6 DEF r
<1> QED
  BY <1>1, LaneInvariance, LaneRefines, LapseOnTime, PTL

(***************************************************************************)
(* Which settlement an authorization may be bound to.                      *)
(***************************************************************************)

(* R is a set of pairs of an authorization and a settlement.               *)
BoundTo(s, R) ==
  \A a \in DOMAIN s.reservations :
    s.reservations[a].status = "committed" => <<a, s.reservations[a].tx>> \in R

(* A proof, and a request with the authorization it is for, make a pair of *)
(* R as well; what the browser lane writes names no authorization.         *)
Truthful(R) ==
  /\ proofFile # Unreadable /\ proofFile.auth \in AuthIds =>
       <<proofFile.auth, proofFile.tx>> \in R
  /\ \A q \in requests :
       IF q.mode \in {"record", "reconcile"}
         THEN q.auth \in AuthIds => <<q.auth, q.proof.tx>> \in R
         ELSE q.proof.auth = NoAuth

Binds(R) == BoundTo(mem, R) /\ BoundTo(disk, R) /\ Truthful(R)

(* Only a commitment binds an authorization.                               *)
LEMMA BoundKept ==
  ASSUME NEW s, StoreInv(s), NEW R, BoundTo(s, R)
  PROVE  /\ \A u : u.reservations = s.reservations => BoundTo(u, R)
         /\ \A now : BoundTo(Expired(s, now), R)
         /\ \A a, w, r, x, now : BoundTo(Reserved(s, a, w, r, x, now), R)
         /\ \A a : BoundTo(WithStatus(s, a, "expired"), R)
         /\ \A a : BoundTo(Released(s, a), R)
         /\ \A a, p, now : <<a, p.tx>> \in R => BoundTo(Committed(s, a, p, now), R)
         /\ BoundTo(Normalized(s), R)
<1> DEFINE f == s.reservations
<1>1. f \in [DOMAIN f -> Reservation] /\ s = [s EXCEPT !.reservations = f]
  BY DEF StoreInv, LedgerInv, StoreTypeOK
<1>2. \A g : [s EXCEPT !.reservations = g].reservations = g
  BY DEF StoreInv, LedgerInv, StoreTypeOK
<1>3. \A u : u.reservations = s.reservations => BoundTo(u, R)
  BY DEF BoundTo
<1>4. ASSUME NEW now
      PROVE  BoundTo(Expired(s, now), R)
  <2> DEFINE g == Expired(s, now).reservations
  <2>1. /\ DOMAIN g = DOMAIN f
        /\ \A a \in DOMAIN f : g[a].status = "committed" => g[a] = f[a]
    BY <1>1, <1>2 DEF Expired, Reservation
  <2> QED
    BY <2>1 DEF BoundTo
<1>5. ASSUME NEW a, NEW w, NEW r, NEW x, NEW now
      PROVE  BoundTo(Reserved(s, a, w, r, x, now), R)
  <2> DEFINE g == Reserved(s, a, w, r, x, now).reservations
  <2>1. /\ DOMAIN g = DOMAIN f \cup {a}
        /\ g[a].status = "active"
        /\ \A b \in DOMAIN f \ {a} : g[b] = f[b]
    BY <1>2 DEF Reserved, Put, StoreInv, LedgerInv, StoreTypeOK
  <2> QED
    BY <2>1 DEF BoundTo
<1>6. ASSUME NEW a, NEW status, status # "committed"
      PROVE  BoundTo(WithStatus(s, a, status), R)
  <2> DEFINE g == [f EXCEPT ![a].status = status]
  <2>1. /\ DOMAIN g = DOMAIN f
        /\ \A b \in DOMAIN f \ {a} : g[b] = f[b]
        /\ a \in DOMAIN f => g[a].status = status
    BY <1>1 DEF Reservation
  <2>2. WithStatus(s, a, status).reservations = g
    BY DEF WithStatus, StoreInv, LedgerInv, StoreTypeOK
  <2> HIDE DEF g
  <2> QED
    BY <1>6, <2>1, <2>2 DEF BoundTo
<1>7. \A a : BoundTo(Released(s, a), R)
  <2>1. "released" # "committed"
    OBVIOUS
  <2> QED
    BY <1>6, <2>1 DEF Released
<1>8. ASSUME NEW a, NEW p, NEW now, <<a, p.tx>> \in R
      PROVE  BoundTo(Committed(s, a, p, now), R)
  <2> DEFINE bound == [s EXCEPT !.reservations[a].status = "committed",
                                !.reservations[a].tx = p.tx]
  <2>1. Committed(s, a, p, now).reservations = bound.reservations
    BY DEF Committed, RecordedOnce, AppendTransaction, StoreInv, LedgerInv, StoreTypeOK
  <2> DEFINE g == bound.reservations
  <2>2. /\ DOMAIN g = DOMAIN f
        /\ \A b \in DOMAIN f \ {a} : g[b] = f[b]
        /\ a \in DOMAIN f => g[a].tx = p.tx
    BY <1>1 DEF Reservation, StoreInv, LedgerInv, StoreTypeOK
  <2> HIDE DEF bound
  <2>3. ASSUME NEW b \in DOMAIN g, g[b].status = "committed"
        PROVE  <<b, g[b].tx>> \in R
    BY <1>8, <2>2, <2>3 DEF BoundTo
  <2> QED
    BY <2>1, <2>3 DEF BoundTo
<1>9. BoundTo(Normalized(s), R)
  <2> DEFINE g == Normalized(s).reservations
  <2>1. g = [a \in DOMAIN f |-> [f[a] EXCEPT !.wallet = WalletKey[f[a].wallet]]]
    BY DEF Normalized, StoreInv, LedgerInv, StoreTypeOK
  <2>2. /\ DOMAIN g = DOMAIN f
        /\ \A a \in DOMAIN f : g[a].status = f[a].status /\ g[a].tx = f[a].tx
    BY <1>1, <2>1 DEF Reservation
  <2> QED
    BY <2>2 DEF BoundTo
<1> QED
  BY <1>3, <1>4, <1>5, <1>6, <1>7, <1>8, <1>9

(* An update with a state that binds authorizations to their own, saved or *)
(* not.                                                                    *)
LEMMA UpdateBinds ==
  ASSUME NEW R, Binds(R), NEW s, BoundTo(s, R), NEW saved, Update(s, saved)
  PROVE  BoundTo(mem', R) /\ BoundTo(disk', R)
<1>1. mem' = s /\ (disk' = s \/ disk' = disk)
  BY DEF Update
<1> QED
  BY <1>1 DEF Binds, BoundTo

(* A step that leaves the proof alone and starts no                        *)
(* request.                                                                *)
LEMMA StillTruthful ==
  ASSUME NEW R, Binds(R), UNCHANGED proofFile, requests' \subseteq requests,
         BoundTo(mem', R) /\ BoundTo(disk', R)
  PROVE  Binds(R)'
<1>1. Truthful(R)'
  BY DEF Binds, Truthful
<1> QED
  BY <1>1 DEF Binds, BoundTo

(* The sandbox's requests and the operator's policies.                     *)
LEMMA SandboxBinds ==
  ASSUME IInv, NEW R, Binds(R), NEW saved \in SaveOutcomes, SandboxNext(saved)
  PROVE  Binds(R)'
<1>1. StoreInv(mem) /\ BoundTo(mem, R)
  BY DEF IInv, Binds
<1>2. ASSUME NEW s, s.reservations = mem.reservations, Update(s, saved),
             UNCHANGED <<proofFile, requests>>
      PROVE  Binds(R)'
  <2>1. BoundTo(s, R)
    BY <1>1, <1>2 DEF BoundTo
  <2> QED
    BY <1>1, <1>2, <2>1, UpdateBinds, StillTruthful
<1>3. ASSUME NEW w \in Wallets, NEW policy \in PolicyChoices,
             SetPolicy(w, policy, saved)
      PROVE  Binds(R)'
  BY <1>1, <1>2, <1>3, ReservationsKept DEF SetPolicy
<1>4. ASSUME NEW w \in Wallets, NEW f \in Funds, Mint(w, f, saved)
      PROVE  Binds(R)'
  BY <1>1, <1>2, <1>4, ReservationsKept DEF Mint
<1>5. ASSUME NEW k \in Keys, SettleReplay(k, saved)
      PROVE  Binds(R)'
  BY <1>2, <1>5 DEF SettleReplay
<1>6. ASSUME NEW k \in Keys, SettlePaid(k, saved)
      PROVE  Binds(R)'
  BY <1>1, <1>2, <1>6, ReservationsKept DEF SettlePaid
<1>7. ASSUME NEW k \in Keys, SettleDenied(k, saved) \/ RecordDenied(k, saved)
      PROVE  Binds(R)'
  <2> DEFINE e == DeniedEntry(k.wallet, k.resource, k.price, clock)
  <2>1. Update(AppendTransaction(mem, e), saved) /\ UNCHANGED <<proofFile, requests>>
    BY <1>7 DEF SettleDenied, RecordDenied
  <2> HIDE DEF e
  <2> QED
    BY <1>1, <1>2, <2>1, ReservationsKept
<1>8. ASSUME RecordWorkAudit(saved)
      PROVE  Binds(R)'
  BY <1>2, <1>8 DEF RecordWorkAudit
<1> QED
  BY <1>3, <1>4, <1>5, <1>6, <1>7, <1>8 DEF SandboxNext

(* The browser lane, whose proofs carry no authorization.                  *)
LEMMA BrowserBinds ==
  ASSUME IInv, NEW R, Binds(R), WalletNext
  PROVE  Binds(R)'
<1>1. /\ StoreInv(mem) /\ BoundTo(mem, R) /\ BoundTo(disk, R)
      /\ requests \subseteq Request
      /\ NoAuth \notin AuthIds
  BY ChainAssumption DEF IInv, TypeOK, Binds
<1>2. ASSUME UNCHANGED <<mem, disk>>
      PROVE  BoundTo(mem', R) /\ BoundTo(disk', R)
  BY <1>1, <1>2 DEF BoundTo
<1>3. ASSUME Truthful(R)', BoundTo(mem', R), BoundTo(disk', R)
      PROVE  Binds(R)'
  BY <1>1, <1>3 DEF Binds, BoundTo
<1>4. ASSUME NEW t \in TxIds, NEW saved \in SaveOutcomes, WalletSettled(t, saved)
      PROVE  Binds(R)'
  <2> DEFINE p == WalletProof(t, OfficialPayer, walletPay.price, walletPay.resource,
                              Day(clock))
  <2> DEFINE u == RecordedOnce(mem, "browser", p, FALSE)
  <2>1. Update(u, saved) /\ UNCHANGED <<proofFile, requests>>
    BY <1>4 DEF WalletSettled
  <2>2. u.reservations = mem.reservations
    BY <1>1, RecordedReservations
  <2> HIDE DEF u
  <2>3. BoundTo(u, R)
    BY <1>1, <2>2, BoundKept
  <2> QED
    BY <1>1, <2>1, <2>3, UpdateBinds, StillTruthful
<1>5. ASSUME NEW q \in requests, NEW saved \in SaveOutcomes, FinishRecovery(q, saved)
      PROVE  Binds(R)'
  <2> DEFINE u == RecordedOnce(mem, "browser", q.proof, FALSE)
  <2>1. Update(u, saved) /\ UNCHANGED proofFile /\ requests' \subseteq requests
    BY <1>5 DEF FinishRecovery
  <2>2. u.reservations = mem.reservations
    BY <1>1, RecordedReservations
  <2> HIDE DEF u
  <2>3. BoundTo(u, R)
    BY <1>1, <2>2, BoundKept
  <2> QED
    BY <1>1, <2>1, <2>3, UpdateBinds, StillTruthful
<1>6. ASSUME NEW promoted \in BOOLEAN, NEW saved \in SaveOutcomes,
             WalletPromoted(promoted, saved)
      PROVE  Binds(R)'
  <2> DEFINE p == WalletProof(walletPay.tx, OfficialPayer, walletPay.price,
                              walletPay.resource, walletPay.day)
  <2>1. /\ Update(mem, saved) /\ UNCHANGED requests
        /\ proofFile' = proofFile \/ proofFile' = p
    BY <1>6 DEF WalletPromoted
  <2>2. p.auth = NoAuth
    BY DEF WalletProof
  <2> HIDE DEF p
  <2>3. Truthful(R)'
    BY <1>1, <2>1, <2>2 DEF Binds, Truthful
  <2> QED
    BY <1>1, <1>3, <2>1, <2>3, UpdateBinds
<1>7. ASSUME NEW p \in RecoveryProofs, BeginRecovery(p)
      PROVE  Binds(R)'
  <2>1. p.auth = NoAuth
    BY DEF RecoveryProofs, WalletProof
  <2> DEFINE q == [mode |-> "verify", auth |-> NoAuth, bootstrap |-> FALSE, proof |-> p]
  <2>2. requests' = requests \cup {q} /\ UNCHANGED <<mem, disk, proofFile>>
    BY <1>7 DEF BeginRecovery
  <2>3. q.mode \notin {"record", "reconcile"} /\ q.proof.auth = NoAuth
    BY <2>1
  <2> HIDE DEF q
  <2>4. Truthful(R)'
    BY <1>1, <2>2, <2>3 DEF Binds, Truthful
  <2> QED
    BY <1>2, <1>3, <2>2, <2>4
<1>8. ASSUME NEW q \in requests, PromoteRecovery(q)
      PROVE  Binds(R)'
  <2> DEFINE o == [q EXCEPT !.mode = "recover"]
  <2>1. /\ q.mode = "verify" /\ proofFile' = q.proof
        /\ requests' = (requests \ {q}) \cup {o} /\ UNCHANGED <<mem, disk>>
    BY <1>8 DEF PromoteRecovery
  <2>2. q.proof.auth = NoAuth
    BY <2>1 DEF Binds, Truthful
  <2>3. o.mode \notin {"record", "reconcile"} /\ o.proof.auth = NoAuth
    BY <1>1, <2>2 DEF Request
  <2> HIDE DEF o
  <2>4. Truthful(R)'
    BY <1>1, <2>1, <2>2, <2>3 DEF Binds, Truthful
  <2> QED
    BY <1>2, <1>3, <2>1, <2>4
<1>9. ASSUME (\E svc \in Services : BeginWalletPay(svc)) \/ WalletAbandoned
      PROVE  Binds(R)'
  <2>1. UNCHANGED <<mem, disk, proofFile, requests>>
    BY <1>9 DEF BeginWalletPay, WalletAbandoned
  <2> QED
    BY <1>1, <1>2, <2>1, StillTruthful
<1> QED
  BY <1>4, <1>5, <1>6, <1>7, <1>8, <1>9 DEF WalletNext

(* The requests of runs and operators inside the gateway, time and crashes.*)
LEMMA GatewayBinds ==
  ASSUME IInv, NEW R, Binds(R), GatewayStep
  PROVE  Binds(R)'
<1>1. /\ StoreInv(mem) /\ StoreInv(disk)
      /\ BoundTo(mem, R) /\ BoundTo(disk, R)
      /\ DOMAIN mem.reservations \subseteq AuthIds
  BY DEF IInv, TypeOK, Binds, StoreTypeOK
<1>2. ASSUME NEW saved \in SaveOutcomes, NEW s, BoundTo(s, R), Update(s, saved),
             requests' \subseteq requests, UNCHANGED proofFile
      PROVE  Binds(R)'
  BY <1>1, <1>2, UpdateBinds, StillTruthful
<1>3. ASSUME NEW saved \in SaveOutcomes, NEW r, NEW x, ReserveDenied(CliWallet, r, x, saved)
      PROVE  Binds(R)'
  <2>1. BoundTo(Expired(mem, clock), R)
    BY <1>1, BoundKept
  <2> QED
    BY <1>2, <1>3, <2>1 DEF ReserveDenied
<1>4. ASSUME NEW saved \in SaveOutcomes, NEW q \in requests, RecordNothing(q, saved)
      PROVE  Binds(R)'
  BY <1>1, <1>2, <1>4 DEF RecordNothing
<1>5. ASSUME NEW saved \in SaveOutcomes, NEW q \in requests, RecordCommit(q, saved)
      PROVE  Binds(R)'
  <2>1. q.mode \in {"record", "reconcile"} /\ q.auth \in AuthIds
    BY <1>1, <1>5 DEF RecordCommit, Recording, Committable, Reservable
  <2>2. <<q.auth, q.proof.tx>> \in R
    BY <2>1 DEF Binds, Truthful
  <2>3. BoundTo(Committed(mem, q.auth, q.proof, clock), R)
    BY <1>1, <2>2, BoundKept
  <2>4. /\ Update(Committed(mem, q.auth, q.proof, clock), saved)
        /\ requests' \subseteq requests /\ UNCHANGED proofFile
    BY <1>5 DEF RecordCommit
  <2> QED
    BY <1>2, <2>3, <2>4
<1>6. ASSUME NEW q \in requests, RecordLapsed(q)
      PROVE  Binds(R)'
  <2> DEFINE u == WithStatus(mem, q.auth, "expired")
  <2>1. /\ mem' = u /\ UNCHANGED <<disk, proofFile>> /\ requests' \subseteq requests
    BY <1>6 DEF RecordLapsed
  <2>2. BoundTo(u, R)
    BY <1>1, BoundKept
  <2> HIDE DEF u
  <2>3. BoundTo(mem', R) /\ BoundTo(disk', R)
    BY <1>1, <2>1, <2>2 DEF BoundTo
  <2> QED
    BY <1>1, <2>1, <2>3, StillTruthful
<1>7. ASSUME (\E q \in requests : DropRequest(q)) \/ Tick
      PROVE  Binds(R)'
  <2>1. UNCHANGED <<mem, disk, proofFile>> /\ requests' \subseteq requests
    BY <1>7 DEF DropRequest, Tick
  <2>2. BoundTo(mem', R) /\ BoundTo(disk', R)
    BY <1>1, <2>1 DEF BoundTo
  <2> QED
    BY <1>1, <2>1, <2>2, StillTruthful
<1>8. ASSUME Crash
      PROVE  Binds(R)'
  <2> DEFINE u == Normalized(disk)
  <2>1. mem' = u /\ requests' = {} /\ UNCHANGED <<disk, proofFile>>
    BY <1>8 DEF Crash
  <2>2. BoundTo(u, R)
    BY <1>1, BoundKept
  <2> HIDE DEF u
  <2>3. BoundTo(mem', R) /\ BoundTo(disk', R)
    BY <1>1, <2>1, <2>2 DEF BoundTo
  <2> QED
    BY <1>1, <2>1, <2>3, StillTruthful
<1> QED
  BY <1>1, <1>3, <1>4, <1>5, <1>6, <1>7, <1>8, SandboxBinds, BrowserBinds DEF GatewayStep

(* A request that starts is for the authorization that the proof it read   *)
(* names, when it reconciles, or for the caller's, when it records.        *)
LEMMA BeginBinds ==
  ASSUME IInv, NEW R, Binds(R), NEW body, BeginRecord(body),
         \/ body.mode = "reconcile" /\ body.auth = NoAuth
         \/ body.mode = "record" /\ <<body.auth, ProofRead.tx>> \in R
  PROVE  Binds(R)'
<1> DEFINE p == ProofRead
<1> DEFINE carried == body.mode = "reconcile" /\ p.auth # NoAuth
<1> DEFINE q == [mode |-> body.mode, auth |-> IF carried THEN p.auth ELSE body.auth,
                 bootstrap |-> body.bootstrap, proof |-> p]
<1>1. requests' = requests \cup {q} /\ UNCHANGED <<mem, disk, proofFile>>
  BY DEF BeginRecord
<1>2. NoAuth \notin AuthIds
  BY ChainAssumption
<1>3. IF proofFile = Unreadable THEN p.auth = NoAuth ELSE p = proofFile
  BY DEF ProofRead
<1>4. /\ q.mode \in {"record", "reconcile"} /\ q.mode = body.mode /\ q.proof = p
      /\ q.auth = IF carried THEN p.auth ELSE body.auth
  OBVIOUS
<1> HIDE DEF p, q
<1>5. q.auth \in AuthIds => <<q.auth, q.proof.tx>> \in R
  <2>1. CASE body.mode = "reconcile" /\ q.auth \in AuthIds
    <3>1. q.auth = p.auth /\ p.auth \in AuthIds
      BY <1>2, <1>4, <2>1
    <3>2. p = proofFile /\ proofFile # Unreadable
      BY <1>2, <1>3, <3>1
    <3> QED
      BY <1>4, <3>1, <3>2 DEF Binds, Truthful
  <2>2. CASE body.mode = "record"
    BY <1>4, <2>2 DEF p
  <2> QED
    BY <1>4, <2>1, <2>2
<1>6. Truthful(R)'
  BY <1>1, <1>4, <1>5 DEF Binds, Truthful
<1> QED
  BY <1>1, <1>6 DEF Binds, BoundTo

(* A run that writes its proof, or asks for recording, brings a pair of the *)
(* relation with it; a settlement may only add pairs.                      *)
LEMMA RunBinds ==
  ASSUME IInv, NEW R, Binds(R), NEW a \in AuthIds, RunNext(a),
         SaveProof(a) => <<a, settlement[a]>> \in R,
         RecordSpend(a) => <<a, ProofRead.tx>> \in R
  PROVE  Binds(R)'
<1>1. /\ StoreInv(mem) /\ BoundTo(mem, R) /\ BoundTo(disk, R)
  BY DEF IInv, Binds
<1>2. ASSUME UNCHANGED <<mem, disk>>
      PROVE  BoundTo(mem', R) /\ BoundTo(disk', R)
  BY <1>1, <1>2 DEF BoundTo
<1>3. ASSUME NEW svc \in CliServices, NEW saved \in SaveOutcomes, NEW heard \in BOOLEAN,
             StartRun(a, svc, saved, heard)
      PROVE  Binds(R)'
  <2> DEFINE s == Expired(mem, clock)
  <2> DEFINE u == Reserved(s, a, CliWallet, svc.resource, svc.price, clock)
  <2>1. Update(u, saved) /\ UNCHANGED <<proofFile, requests>>
    BY <1>3 DEF StartRun, Reserve
  <2>2. StoreInv(s) /\ BoundTo(s, R)
    BY <1>1, BoundKept, ExpiredGood DEF IInv, TypeOK, Good
  <2> HIDE DEF s
  <2>3. BoundTo(u, R)
    BY <2>2, BoundKept
  <2> HIDE DEF u
  <2> QED
    BY <2>1, <2>3, UpdateBinds, StillTruthful
<1>4. ASSUME NEW saved \in SaveOutcomes, GiveBack(a, saved)
      PROVE  Binds(R)'
  <2>1. Update(Released(mem, a), saved) /\ UNCHANGED <<proofFile, requests>>
    BY <1>4 DEF GiveBack, Release
  <2>2. BoundTo(Released(mem, a), R)
    BY <1>1, BoundKept
  <2> QED
    BY <2>1, <2>2, UpdateBinds, StillTruthful
<1>5. ASSUME \/ SendPayment(a) \/ HearSettlement(a) \/ StopRun(a) \/ RejectPayment(a)
             \/ \E t \in TxIds : SettleOnChain(a, t)
      PROVE  Binds(R)'
  <2>1. UNCHANGED <<mem, disk, proofFile, requests>>
    BY <1>5 DEF SendPayment, HearSettlement, StopRun, RejectPayment, SettleOnChain, vars
  <2> QED
    BY <1>2, <2>1, StillTruthful
<1>6. ASSUME TruncateProof(a)
      PROVE  Binds(R)'
  <2>1. proofFile' = Unreadable /\ UNCHANGED <<mem, disk, requests>>
    BY <1>6 DEF TruncateProof, TearProof
  <2>2. Truthful(R)'
    BY <2>1 DEF Binds, Truthful
  <2> QED
    BY <1>2, <2>1, <2>2 DEF Binds
<1>7. ASSUME SaveProof(a)
      PROVE  Binds(R)'
  <2>1. /\ proofFile'.auth = a /\ proofFile'.tx = settlement[a]
        /\ UNCHANGED <<mem, disk, requests>>
    BY <1>7 DEF SaveProof, WriteProof, Claim
  <2>2. Truthful(R)'
    BY <1>7, <2>1 DEF Binds, Truthful
  <2> QED
    BY <1>2, <2>1, <2>2 DEF Binds
<1>8. ASSUME RecordSpend(a)
      PROVE  Binds(R)'
  <2> DEFINE body == [mode |-> "record", auth |-> a, bootstrap |-> FALSE]
  <2>1. BeginRecord(body)
    BY <1>8 DEF RecordSpend
  <2>2. body.mode = "record" /\ <<body.auth, ProofRead.tx>> \in R
    BY <1>8
  <2> HIDE DEF body
  <2> QED
    BY <2>1, <2>2, BeginBinds
<1> QED
  BY <1>3, <1>4, <1>5, <1>6, <1>7, <1>8 DEF RunNext

(* A step of the lane, then, binds authorizations within the relation.     *)
LEMMA LaneBinds ==
  ASSUME IInv, NEW R, Binds(R), [LaneNext]_allVars,
         \A a \in AuthIds : /\ SaveProof(a) => <<a, settlement[a]>> \in R
                            /\ RecordSpend(a) => <<a, ProofRead.tx>> \in R
  PROVE  Binds(R)'
<1>1. CASE UNCHANGED allVars
  BY <1>1 DEF allVars, vars, Binds, BoundTo, Truthful
<1>2. ASSUME NEW a \in AuthIds, RunNext(a)
      PROVE  Binds(R)'
  BY <1>2, RunBinds
<1>3. CASE Reconcile
  <2> DEFINE body == [mode |-> "reconcile", auth |-> NoAuth, bootstrap |-> FALSE]
  <2>1. BeginRecord(body)
    BY <1>3 DEF Reconcile
  <2>2. body.mode = "reconcile" /\ body.auth = NoAuth
    OBVIOUS
  <2> HIDE DEF body
  <2> QED
    BY <2>1, <2>2, BeginBinds
<1>4. CASE GatewayStep
  BY <1>4, GatewayBinds
<1> QED
  BY <1>1, <1>2, <1>3, <1>4 DEF LaneNext

(* A payment that is in flight has not settled.                            *)
NotYetSettled == \A a \in inFlight : settlement[a] = NoTx

(* So a settlement is final.                                               *)
SettledOnce == \A a \in AuthIds : settlement[a] # NoTx => settlement'[a] = settlement[a]

LEMMA SettlementsFinal ==
  LaneInv /\ NotYetSettled /\ [LaneNext]_allVars => NotYetSettled' /\ SettledOnce
<1> SUFFICES ASSUME LaneInv, NotYetSettled, [LaneNext]_allVars
             PROVE  NotYetSettled' /\ SettledOnce
  OBVIOUS
<1>1. /\ settlement \in [AuthIds -> TxIds \cup {NoTx}]
      /\ inFlight \subseteq AuthIds
  BY DEF LaneInv, LaneTypeOK
<1>2. ASSUME inFlight' \subseteq inFlight, UNCHANGED settlement
      PROVE  NotYetSettled' /\ SettledOnce
  BY <1>2 DEF NotYetSettled, SettledOnce
<1>3. ASSUME NEW a \in AuthIds, SendPayment(a)
      PROVE  NotYetSettled' /\ SettledOnce
  <2>1. settlement[a] = NoTx
    BY <1>3 DEF LaneInv, SendPayment, Spending
  <2> QED
    BY <1>3, <2>1 DEF SendPayment, NotYetSettled, SettledOnce
<1>4. ASSUME NEW a \in AuthIds, NEW t \in TxIds, SettleOnChain(a, t)
      PROVE  NotYetSettled' /\ SettledOnce
  <2>1. /\ a \in inFlight /\ inFlight' = inFlight \ {a}
        /\ settlement' = [settlement EXCEPT ![a] = t]
    BY <1>4 DEF SettleOnChain
  <2> QED
    BY <1>1, <2>1 DEF NotYetSettled, SettledOnce
<1>5. ASSUME NEW a \in AuthIds, RunNext(a)
      PROVE  NotYetSettled' /\ SettledOnce
  BY <1>2, <1>3, <1>4, <1>5
     DEF RunNext, StartRun, GiveBack, HearSettlement, TruncateProof,
         SaveProof, RecordSpend, StopRun, RejectPayment
<1> QED
  BY <1>2, <1>5 DEF LaneNext, Reconcile, GatewayStep, laneVars, allVars

(***************************************************************************)
(* What was given back is never spent.                                     *)
(***************************************************************************)

(* Every settlement with every run whose payment has settled.              *)
OfSettledRuns == {p \in AuthIds \X TxIds : settlement[p[1]] # NoTx}

(* Whatever the overlapping runs make of the one proof file, only a run    *)
(* whose payment has settled has its authorization spent.                  *)
SpentIfSettled == NotYetSettled /\ Binds(OfSettledRuns)

LEMMA NextSpentIfSettled ==
  IInv /\ LaneInv /\ SpentIfSettled /\ [LaneNext]_allVars => SpentIfSettled'
<1> SUFFICES ASSUME IInv, LaneInv, SpentIfSettled, [LaneNext]_allVars
             PROVE  SpentIfSettled'
  OBVIOUS
<1>1. NotYetSettled' /\ SettledOnce
  BY SettlementsFinal DEF SpentIfSettled
<1> PICK R : R = OfSettledRuns
  OBVIOUS
<1>2. Binds(R)
  BY DEF SpentIfSettled
<1>3. ProofRead.tx \in TxIds
  BY GatewayAssumption DEF IInv, TypeOK, ProofRead, Proof
<1>4. ASSUME NEW a \in AuthIds, SaveProof(a) \/ RecordSpend(a)
      PROVE  settlement[a] \in TxIds /\ settlement[a] # NoTx
  BY <1>4 DEF LaneInv, LaneTypeOK, SaveProof, RecordSpend
<1>5. Binds(R)'
  BY <1>2, <1>3, <1>4, LaneBinds DEF OfSettledRuns
<1>6. R \subseteq OfSettledRuns'
  BY <1>1 DEF OfSettledRuns, SettledOnce
<1>7. Binds(OfSettledRuns)'
  BY <1>5, <1>6 DEF Binds, BoundTo, Truthful
<1> QED
  BY <1>1, <1>7 DEF SpentIfSettled

(* An authorization that the disk shows as given back is never spent after *)
(* that, for any number of runs and requests, whoever else's proof is in   *)
(* the one file, and across failed saves and crashes: a run frees only     *)
(* what it has not sent, and only a sent payment settles.                  *)
THEOREM ReleasedForGood == LaneSpec => FreedForGood
<1>1. LaneInit => SpentIfSettled
  BY DEF LaneInit, Init, EmptyState, SpentIfSettled, NotYetSettled, Binds, BoundTo,
         Truthful
<1>2. ASSUME IInv, LaneInv, SpentIfSettled, [LaneNext]_allVars, StepsForward,
             SpentIfSettled',
             NEW a \in DOMAIN disk.reservations,
             disk.reservations[a].status = "released"
      PROVE  disk'.reservations[a].status = "released"
  <2>1. a \in AuthIds
    BY <1>2 DEF IInv, TypeOK, StoreTypeOK
  <2>2. settlement[a] = NoTx
    BY <1>2, <2>1 DEF LaneInv, Counting, Spending, Gone, Freed
  <2>3. /\ a \in DOMAIN disk'.reservations
        /\ disk'.reservations[a].status \in {"released", "committed"}
    BY <1>2 DEF StepsForward, AuthorizationsExtend, Forward, After
  <2>4. CASE settlement'[a] = NoTx
    <3>1. disk'.reservations[a].status # "committed"
      BY <1>2, <2>3, <2>4 DEF SpentIfSettled, Binds, BoundTo, OfSettledRuns
    <3> QED
      BY <2>3, <3>1
  <2>5. CASE settlement'[a] # NoTx
    <3>1. UNCHANGED disk
      BY <1>2, <2>1, <2>2, <2>5
         DEF LaneNext, RunNext, StartRun, GiveBack, SendPayment, HearSettlement,
             TruncateProof, SaveProof, RecordSpend, StopRun, SettleOnChain,
             RejectPayment, Reconcile, GatewayStep, laneVars, vars, allVars
    <3> QED
      BY <1>2, <3>1
  <2> QED
    BY <2>4, <2>5
<1>3. IInv /\ LaneInv /\ SpentIfSettled /\ [LaneNext]_allVars =>
        [\A a \in DOMAIN disk.reservations :
           disk.reservations[a].status = "released" =>
             disk'.reservations[a].status = "released"]_allVars
  <2> SUFFICES ASSUME IInv, LaneInv, SpentIfSettled, [LaneNext]_allVars
               PROVE  \A a \in DOMAIN disk.reservations :
                        disk.reservations[a].status = "released" =>
                          disk'.reservations[a].status = "released"
    OBVIOUS
  <2>1. [Next]_vars
    BY LaneStepIsStoreStep
  <2>2. StepsForward
    BY <2>1, NextIInv DEF DiskExtends, Extends, StepsForward
  <2>3. SpentIfSettled'
    BY NextSpentIfSettled
  <2> QED
    BY <1>2, <2>2, <2>3
<1> QED
  BY <1>1, <1>3, NextSpentIfSettled, LaneInvariance, PTL DEF LaneSpec, FreedForGood

(***************************************************************************)
(* Whose settlement an authorization is bound to.                          *)
(***************************************************************************)

(* A run that asks for recording finds the proof it wrote itself: nobody   *)
(* wrote the one proof file since.  Two overlapping runs may break this,   *)
(* and so may a browser payment; nothing else is asked of either.          *)
ProofIsOwn ==
  \A a \in AuthIds : RecordSpend(a) => proofFile # Unreadable /\ proofFile.auth = a
ProofsUndisturbed == [][ProofIsOwn]_allVars

(* Every run with its own settlement.                                      *)
OwnPairs == {p \in AuthIds \X TxIds : p[2] = settlement[p[1]]}
OwnInv == NotYetSettled /\ Binds(OwnPairs)

(* As long as every run finds its own proof when it asks for recording, a  *)
(* committed authorization is bound to the settlement of its own run, for  *)
(* any number of overlapping runs, reconciliations, browser payments and   *)
(* crashes: the shared proof file is the only way one run's payment can be *)
(* booked on another's authorization.                                      *)
THEOREM BoundToItsOwn == LaneSpec /\ ProofsUndisturbed => []OwnSettlement
<1>1. LaneInit => OwnInv
  BY DEF LaneInit, Init, EmptyState, OwnInv, NotYetSettled, Binds, BoundTo, Truthful
<1>2. IInv /\ LaneInv /\ OwnInv /\ [LaneNext]_allVars /\ [ProofIsOwn]_allVars => OwnInv'
  <2> SUFFICES ASSUME IInv, LaneInv, OwnInv, [LaneNext]_allVars, [ProofIsOwn]_allVars
               PROVE  OwnInv'
    OBVIOUS
  <2>1. NotYetSettled' /\ SettledOnce
    BY SettlementsFinal DEF OwnInv
  <2> PICK R : R = OwnPairs
    OBVIOUS
  <2>2. Binds(R)
    BY DEF OwnInv
  <2>3. ASSUME NEW a \in AuthIds, SaveProof(a)
        PROVE  <<a, settlement[a]>> \in R
    <3>1. settlement[a] \in TxIds
      BY <2>3 DEF LaneInv, LaneTypeOK, SaveProof
    <3> QED
      BY <3>1 DEF OwnPairs
  <2>4. ASSUME NEW a \in AuthIds, RecordSpend(a)
        PROVE  <<a, ProofRead.tx>> \in R
    <3>1. ~UNCHANGED allVars
      BY <2>4 DEF RecordSpend, Goto, allVars, laneVars, LaneInv, LaneTypeOK
    <3>2. proofFile # Unreadable /\ proofFile.auth = a /\ ProofRead = proofFile
      BY <2>4, <3>1 DEF ProofIsOwn, ProofRead
    <3> QED
      BY <2>2, <3>2 DEF Binds, Truthful
  <2>5. Binds(R)'
    BY <2>2, <2>3, <2>4, LaneBinds
  <2>6. R \subseteq OwnPairs'
    BY <2>1, ChainAssumption DEF OwnPairs, SettledOnce
  <2>7. Binds(OwnPairs)'
    BY <2>5, <2>6 DEF Binds, BoundTo, Truthful
  <2> QED
    BY <2>1, <2>7 DEF OwnInv
<1>3. OwnInv => OwnSettlement
  BY DEF OwnInv, Binds, BoundTo, OwnPairs, OwnSettlement
<1> QED
  BY <1>1, <1>2, <1>3, LaneInvariance, PTL DEF LaneSpec, ProofsUndisturbed

(* A settlement is of one run.                                             *)
OfOneRun ==
  \A a, b \in AuthIds : settlement[a] # NoTx /\ settlement[a] = settlement[b] => a = b

(* No settlement accounts for two authorizations.                          *)
SpentOnce ==
  \A a, b \in DOMAIN disk.reservations :
    /\ disk.reservations[a].status = "committed"
    /\ disk.reservations[b].status = "committed"
    /\ disk.reservations[a].tx = disk.reservations[b].tx
    => a = b

(* A payment settles in a transaction that is no other payment's.          *)
THEOREM OneRunEach == LaneSpec => []OfOneRun
<1>1. LaneInit => OfOneRun
  BY DEF LaneInit, OfOneRun
<1>2. LaneInv /\ OfOneRun /\ [LaneNext]_allVars => OfOneRun'
  <2> SUFFICES ASSUME LaneInv, OfOneRun, [LaneNext]_allVars
               PROVE  OfOneRun'
    OBVIOUS
  <2>1. settlement \in [AuthIds -> TxIds \cup {NoTx}]
    BY DEF LaneInv, LaneTypeOK
  <2>2. ASSUME UNCHANGED settlement
        PROVE  OfOneRun'
    BY <2>2 DEF OfOneRun
  <2>3. ASSUME NEW a \in AuthIds, NEW t \in TxIds, SettleOnChain(a, t)
        PROVE  OfOneRun'
    <3>1. /\ settlement' = [settlement EXCEPT ![a] = t]
          /\ \A b \in AuthIds : settlement[b] # t
      BY <2>3 DEF SettleOnChain
    <3> QED
      BY <2>1, <3>1 DEF OfOneRun
  <2>4. ASSUME NEW a \in AuthIds, RunNext(a)
        PROVE  OfOneRun'
    BY <2>2, <2>3, <2>4
       DEF RunNext, StartRun, GiveBack, SendPayment, HearSettlement, TruncateProof,
           SaveProof, RecordSpend, StopRun, RejectPayment
  <2> QED
    BY <2>2, <2>4 DEF LaneNext, Reconcile, GatewayStep, laneVars, allVars
<1> QED
  BY <1>1, <1>2, LaneInvariance, PTL DEF LaneSpec

(* Nobody gets two authorizations off with one payment, as long as each run*)
(* finds its own proof: the budget of each is spent by a payment of its own*)
(* or not at all.                                                          *)
THEOREM NoneSpentTwice == LaneSpec /\ ProofsUndisturbed => []SpentOnce
<1>1. IInv /\ OwnSettlement /\ OfOneRun => SpentOnce
  <2> SUFFICES ASSUME IInv, OwnSettlement, OfOneRun,
                      NEW a \in DOMAIN disk.reservations,
                      NEW b \in DOMAIN disk.reservations,
                      disk.reservations[a].status = "committed",
                      disk.reservations[b].status = "committed",
                      disk.reservations[a].tx = disk.reservations[b].tx
               PROVE  a = b
    BY DEF SpentOnce
  <2>1. a \in AuthIds /\ b \in AuthIds
    BY DEF IInv, TypeOK, StoreTypeOK
  <2>2. disk.reservations[a].tx # NoTx
    BY ChainAssumption DEF IInv, StoreInv, Bound
  <2> QED
    BY <2>1, <2>2 DEF OwnSettlement, OfOneRun
<1> QED
  BY <1>1, BoundToItsOwn, OneRunEach, LaneInvariance, PTL
=============================================================================
