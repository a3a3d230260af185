---------------------------- MODULE OfficialLane ----------------------------
(***************************************************************************)
(* The command-line lane: runs of official-client's `agent-pay' against the*)
(* gateway's store, the chain, and an operator who reconciles.             *)
(*                                                                         *)
(* A run reserves budget, signs, waits for the settlement, overwrites the  *)
(* one latest-proof file and asks the gateway to record it.  It can stop   *)
(* anywhere: killed, timed out, or unhappy with an answer; a payment it    *)
(* has sent may settle all the same.  Every step is a step of GatewayStore *)
(* or leaves the store alone.  A run is named by the id of the             *)
(* authorization it asks for.                                              *)
(***************************************************************************)
EXTENDS GatewayStore

CONSTANTS
  CliWallet,    \* address of EVM_PRIVATE_KEY
  CliServices   \* the routes a run may select: records [resource, price]

VARIABLES
  run,         \* how far each run is and the service it selected
  inFlight,    \* runs whose signed payment may still settle
  settlement   \* the settlement of each run's payment, NoTx when none

laneVars == <<run, inFlight, settlement>>
allVars == <<vars, laneVars>>

NotChosen == [resource |-> DefaultResource, price |-> 0]
Place == {"new", "reserved", "sent", "paid", "torn", "saved", "recording",
          "exited"}

Claim(a, t) ==
  [tx |-> t, payer |-> CliWallet, amount |-> run[a].svc.price,
   resource |-> run[a].svc.resource, auth |-> a]

ASSUME LaneAssumption ==
  /\ CliWallet \in Wallets
  /\ CliServices \subseteq [resource: Resources, price: Amounts]
  /\ \A t \in TxIds, svc \in CliServices, a \in AuthIds :
       [tx |-> t, payer |-> CliWallet, amount |-> svc.price,
        resource |-> svc.resource, auth |-> a] \in ProofChoices
  /\ \A a \in AuthIds :
       [mode |-> "record", auth |-> a, bootstrap |-> FALSE] \in Submissions
  /\ [mode |-> "reconcile", auth |-> NoAuth, bootstrap |-> FALSE] \in Submissions

LaneInit ==
  /\ Init
  /\ run = [a \in AuthIds |-> [at |-> "new", svc |-> NotChosen]]
  /\ inFlight = {}
  /\ settlement = [a \in AuthIds |-> NoTx]

Goto(a, place) == run' = [run EXCEPT ![a].at = place]

-----------------------------------------------------------------------------
(* A run of agent-pay.                                                     *)

(* The gateway grants the reservation; the run goes on only when it hears a*)
(* 201 within its 5 seconds.                                               *)
StartRun(a, svc, saved, heard) ==
  /\ run[a].at = "new"
  /\ Reserve(a, CliWallet, svc.resource, svc.price, saved)
  /\ run' = [run EXCEPT ![a] =
       [at |-> IF saved /\ heard THEN "reserved" ELSE "exited", svc |-> svc]]
  /\ UNCHANGED <<inFlight, settlement>>

(* Mutant: whatever the run has done, it frees its reservation on exit.    *)
GiveBackAlways(a, saved) ==
  /\ run[a].at \in {"reserved", "sent"}
  /\ Release(a, saved)
  /\ Goto(a, "exited")
  /\ UNCHANGED <<inFlight, settlement>>

(* Mutant: the reservation is freed at the end of a run that stops before  *)
(* it is recorded.                                                         *)
GiveBackLate(a, saved) ==
  /\ run[a].at \in {"reserved", "saved"}
  /\ Release(a, saved)
  /\ Goto(a, "exited")
  /\ UNCHANGED <<inFlight, settlement>>

(* Nothing was sent: the run frees its reservation and exits.              *)
GiveBack(a, saved) ==
  /\ run[a].at = "reserved"
  /\ Release(a, saved)
  /\ Goto(a, "exited")
  /\ UNCHANGED <<inFlight, settlement>>

SendPayment(a) ==
  /\ run[a].at = "reserved"
  /\ Goto(a, "sent")
  /\ inFlight' = inFlight \cup {a}
  /\ UNCHANGED <<vars, settlement>>

HearSettlement(a) ==
  /\ run[a].at = "sent" /\ settlement[a] # NoTx
  /\ Goto(a, "paid")
  /\ UNCHANGED <<vars, inFlight, settlement>>

(* os.WriteFile truncates the latest-proof file, then fills it.            *)
TruncateProof(a) ==
  /\ run[a].at = "paid"
  /\ TearProof
  /\ Goto(a, "torn")
  /\ UNCHANGED <<inFlight, settlement>>

SaveProof(a) ==
  /\ run[a].at = "torn"
  /\ WriteProof(Claim(a, settlement[a]))
  /\ Goto(a, "saved")
  /\ UNCHANGED <<inFlight, settlement>>

(* Mutant: recording does not wait for the proof to be written.            *)
RecordSpendEarly(a) ==
  /\ run[a].at \in {"torn", "saved"}
  /\ BeginRecord([mode |-> "record", auth |-> a, bootstrap |-> FALSE])
  /\ Goto(a, "recording")
  /\ UNCHANGED <<inFlight, settlement>>

RecordSpend(a) ==
  /\ run[a].at = "saved"
  /\ BeginRecord([mode |-> "record", auth |-> a, bootstrap |-> FALSE])
  /\ Goto(a, "recording")
  /\ UNCHANGED <<inFlight, settlement>>

(* A timeout, an error answer or the end of the process.  Once something   *)
(* may have been paid the reservation is left alone.                       *)
StopRun(a) ==
  /\ run[a].at \in {"reserved", "sent", "paid", "torn", "saved"}
  /\ Goto(a, "exited")
  /\ UNCHANGED <<vars, inFlight, settlement>>

-----------------------------------------------------------------------------
(* The chain, the operator and the gateway.                                *)

SettleOnChain(a, t) ==
  /\ a \in inFlight
  /\ t \in TxIds \ ({settlement[b] : b \in AuthIds} \cup {BaselineTx})
  /\ SameWallet(Payer[t], CliWallet) /\ Paid[t] = run[a].svc.price
  /\ settlement' = [settlement EXCEPT ![a] = t]
  /\ inFlight' = inFlight \ {a}
  /\ UNCHANGED <<vars, run>>

(* Mutant: the refusal's empty receipt is taken for a settlement.          *)
RejectPaymentSettled(a) ==
  /\ a \in inFlight
  /\ inFlight' = inFlight \ {a}
  /\ settlement' = [settlement EXCEPT ![a] = NoAuth]
  /\ UNCHANGED <<vars, run>>

RejectPayment(a) ==
  /\ a \in inFlight
  /\ inFlight' = inFlight \ {a}
  /\ UNCHANGED <<vars, run, settlement>>

Reconcile ==
  /\ BeginRecord([mode |-> "reconcile", auth |-> NoAuth, bootstrap |-> FALSE])
  /\ UNCHANGED laneVars

(* Finding the settlement of a reconcile request unrecorded, or recorded.  *)
ReconcileDone(q) ==
  /\ q.mode = "reconcile"
  /\ RecordCommit(q, TRUE) \/ RecordNothing(q, TRUE)
  /\ UNCHANGED laneVars

GatewayStep ==
  /\ \/ \E saved \in SaveOutcomes :
          \/ SandboxNext(saved)
          \/ \E r \in Resources, x \in Amounts :
               ReserveDenied(CliWallet, r, x, saved)
          \/ \E q \in requests : \/ RecordNothing(q, saved)
                                 \/ RecordCommit(q, saved)
     \/ \E q \in requests : RecordLapsed(q) \/ DropRequest(q)
     \/ WalletNext
     \/ Tick
     \/ Crash
  /\ UNCHANGED laneVars

-----------------------------------------------------------------------------

RunNext(a) ==
  \/ \E svc \in CliServices, saved \in SaveOutcomes, heard \in BOOLEAN :
       StartRun(a, svc, saved, heard)
  \/ \E saved \in SaveOutcomes : GiveBack(a, saved)
  \/ SendPayment(a) \/ HearSettlement(a) \/ TruncateProof(a) \/ SaveProof(a)
  \/ RecordSpend(a) \/ StopRun(a)
  \/ \E t \in TxIds : SettleOnChain(a, t)
  \/ RejectPayment(a)

LaneNext == (\E a \in AuthIds : RunNext(a)) \/ Reconcile \/ GatewayStep

LaneSpec == LaneInit /\ [][LaneNext]_allVars

(* The operator keeps running reconcile-official-settlement.sh, and neither*)
(* the chain's RPC endpoint nor the disk fails for ever.                   *)
Fairness ==
  /\ WF_allVars(Reconcile)
  /\ SF_allVars(\E q \in requests : ReconcileDone(q))
  /\ WF_allVars(\E q \in requests : DropRequest(q) /\ UNCHANGED laneVars)

FairSpec == LaneSpec /\ Fairness

-----------------------------------------------------------------------------
(* Properties.                                                             *)

LaneTypeOK ==
  /\ run \in [AuthIds -> [at: Place,
                          svc: [resource: Resources, price: Amounts \cup {0}]]]
  /\ inFlight \subseteq AuthIds
  /\ settlement \in [AuthIds -> TxIds \cup {NoTx}]

(* Money leaves only under an authorization that is on the disk, for the   *)
(* run's wallet, route and price, and that nobody has released: neither a  *)
(* failed save, a crash of either side, an unheard answer nor a late       *)
(* settlement breaks this.                                                 *)
Spending(a) == a \in inFlight \/ settlement[a] # NoTx
PaidUnderAuthorization ==
  \A a \in AuthIds : Spending(a) =>
    /\ a \in DOMAIN disk.reservations
    /\ disk.reservations[a].status # "released"
    /\ SameWallet(disk.reservations[a].wallet, CliWallet)
    /\ disk.reservations[a].resource = run[a].svc.resource
    /\ disk.reservations[a].amount = run[a].svc.price

(* A committed authorization is bound to the settlement of its own run.    *)
OwnSettlement ==
  \A a \in DOMAIN disk.reservations :
    disk.reservations[a].status = "committed" =>
      disk.reservations[a].tx = settlement[a]

(* An authorization that the disk shows as given back is never spent after *)
(* that, not by the save of an older request, a reconciliation of a proof  *)
(* that another run left in the one proof file, or a restart.  The store   *)
(* alone would let it be: reconciling commits released authorizations.     *)
FreedForGood == [][
  \A a \in DOMAIN disk.reservations :
    disk.reservations[a].status = "released" =>
      disk'.reservations[a].status = "released"]_allVars

(* While a payment may still settle, or has settled and is not accounted   *)
(* for, its authorization holds the budget.                                *)
HeldUntilResolved ==
  \A a \in AuthIds : Spending(a) =>
    \/ HoldsBudget(mem.reservations[a], clock)
    \/ mem.reservations[a].status = "committed"

(* Until its time to live is over nothing takes that budget away: not a    *)
(* release, the expiry that another reservation runs, a failed save or a   *)
(* crash.                                                                  *)
HeldForItsTime ==
  \A a \in AuthIds : Spending(a) =>
    \/ HoldsBudget(mem.reservations[a], clock)
    \/ mem.reservations[a].status = "committed"
    \/ mem.reservations[a].expires <= clock

(* A settlement whose proof was saved is committed in the end, even when   *)
(* the run died, its reservation expired or the gateway crashed.           *)
AccountedFor(a) ==
  /\ a \in DOMAIN disk.reservations
  /\ disk.reservations[a].status = "committed"
  /\ settlement[a] \in Known(disk)
Reconciled == \A a \in AuthIds : run[a].at = "saved" ~> AccountedFor(a)
=============================================================================
