--------------------------- MODULE MCGatewayStore ---------------------------
(* Small instances of GatewayStore for TLC.                                *)
EXTENDS GatewayStore, TLC

CONSTANTS w1, w2, r1, r2, t0, t1, t2, a1, a2

(* One spelling per wallet.                                                *)
OneSpelling == [w \in Wallets |-> w]
(* The second wallet is the first one in another spelling.                 *)
TwoSpellings == [w \in Wallets |-> IF w = w2 THEN w1 ELSE w]

PaidByOne == [t \in TxIds |-> w1]
OneCent == [t \in TxIds |-> 1]
OneOrTwo == [t \in TxIds |-> IF t = t2 THEN 2 ELSE 1]

Limit(max, daily) ==
  [enabled |-> TRUE, maxPerCall |-> max, dailyLimit |-> daily, resources |-> {r1}]
LimitOne == Limit(1, 1)
LimitTwo == Limit(1, 2)
LimitMixed == Limit(2, 2)
Raise == {Limit(1, 2)}
NoPolicies == {}

SandboxKey(n) == [req |-> n, wallet |-> w1, resource |-> r1, price |-> 1]
ThreeKeys == {SandboxKey(n) : n \in 1 .. 2} \cup
             {[req |-> 1, wallet |-> w2, resource |-> r1, price |-> 2]}
NoKeys == {}

Faucet == {[eth |-> 2, usdc |-> 2]}
NoFaucet == {}
OneService == {[resource |-> r1, price |-> 1]}
NoServices == {}

Body(mode, a, bootstrap) == [mode |-> mode, auth |-> a, bootstrap |-> bootstrap]
(* What the CLI sends: record with its authorization, an empty reconcile.  *)
CliBodies == {Body("record", a, FALSE) : a \in AuthIds} \cup
             {Body("reconcile", NoAuth, FALSE)}
AllBodies == CliBodies \cup {Body("record", NoAuth, TRUE)}
NoBodies == {}

Written(t, x, a) ==
  [tx |-> t, payer |-> w1, amount |-> x, resource |-> r1, auth |-> a]
(* What clients write: any authorization, or a proof that                  *)
(* claims more than was paid.                                              *)
AuthProofs == {Written(t1, 1, a) : a \in AuthIds}
FalseProofs == AuthProofs \cup {Written(t1, 2, NoAuth)}
NoProofs == {}

AuthSymmetry == Permutations(AuthIds)
=============================================================================
