--------------------------- MODULE Authorizations ---------------------------
(***************************************************************************)
(* What the gateway promises about payment authorizations, without its     *)
(* handlers, files or clock: an authorization is granted for one payer and *)
(* amount; it is held, then freed or spent, never held again once freed;   *)
(* it is spent by one settlement of just that payer and amount, which is   *)
(* accounted for, and it stays spent by that settlement for ever.          *)
(*                                                                         *)
(* A step may move several authorizations, each by several stages: what    *)
(* failed to be saved is saved together with a later change.               *)
(***************************************************************************)
CONSTANTS
  AuthIds,
  Terms,    \* what may be granted: the payer and the amount
  NoTerms,
  TxIds,    \* settlements on the chain
  NoTx,
  Pays      \* the terms each settlement fulfils

VARIABLES
  stage,       \* where each authorization is
  terms,       \* what it was granted for
  settlement,  \* the settlement that spent it
  accounted    \* settlements that were ever recorded

authVars == <<stage, terms, settlement, accounted>>

Stages == {"none", "held", "freed", "spent"}

Later(s) ==
  CASE s = "none"  -> Stages
    [] s = "held"  -> {"held", "freed", "spent"}
    [] s = "freed" -> {"freed", "spent"}
    [] s = "spent" -> {"spent"}

AuthInit ==
  /\ stage = [a \in AuthIds |-> "none"]
  /\ terms = [a \in AuthIds |-> NoTerms]
  /\ settlement = [a \in AuthIds |-> NoTx]
  /\ accounted = {}

(* An authorization keeps the terms it was granted under.                  *)
KeepsTerms(a) ==
  IF stage[a] = "none" THEN terms'[a] \in IF stage'[a] = "none" THEN {NoTerms}
                                                                ELSE Terms
                       ELSE terms'[a] = terms[a]

(* It names a settlement exactly when it is spent, and always the same one.*)
KeepsSettlement(a) ==
  CASE stage[a] = "spent"  -> settlement'[a] = settlement[a]
    [] stage'[a] # "spent" -> settlement'[a] = NoTx
    [] OTHER -> /\ settlement'[a] \in accounted' \cap TxIds
                /\ Pays[settlement'[a]] = terms'[a]

Advance ==
  /\ DOMAIN stage' = AuthIds
  /\ DOMAIN terms' = AuthIds
  /\ DOMAIN settlement' = AuthIds
  /\ accounted \subseteq accounted'
  /\ \A a \in AuthIds : /\ stage'[a] \in Later(stage[a])
                        /\ KeepsTerms(a)
                        /\ KeepsSettlement(a)

AuthSpec == AuthInit /\ [][Advance]_authVars
=============================================================================
