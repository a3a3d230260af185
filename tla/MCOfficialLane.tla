--------------------------- MODULE MCOfficialLane ---------------------------
(* Small instances of OfficialLane for TLC.                                *)
EXTENDS OfficialLane, TLC

CONSTANTS w1, r1, t0, t1, t2, a1, a2

OneSpelling == [w \in Wallets |-> w]
PaidByOne == [t \in TxIds |-> w1]
OneCent == [t \in TxIds |-> 1]
LimitTwo == [enabled |-> TRUE, maxPerCall |-> 1, dailyLimit |-> 2,
             resources |-> {r1}]
OneService == {[resource |-> r1, price |-> 1]}
Nothing == {}

LaneBodies ==
  {[mode |-> "record", auth |-> a, bootstrap |-> FALSE] : a \in AuthIds} \cup
  {[mode |-> "reconcile", auth |-> NoAuth, bootstrap |-> FALSE]}
LaneProofs ==
  {[tx |-> t, payer |-> w1, amount |-> 1, resource |-> r1, auth |-> a] :
     t \in TxIds, a \in AuthIds}
=============================================================================
