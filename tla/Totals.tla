------------------------------- MODULE Totals -------------------------------
(***************************************************************************)
(* Sums of amounts.  The gateway adds up the receipts, the ledger entries  *)
(* and the reservations of a wallet in loops; amounts are whole cents, so  *)
(* the sum of the amounts f[x] of the members x of S is the number of their*)
(* cents.  A cardinality, and no fold, so that proofs can use the theorems *)
(* about finite sets.                                                      *)
(***************************************************************************)
EXTENDS Integers, FiniteSets

(* Every cent of every amount.                                             *)
Cents(f, S) == UNION {{x} \X (1 .. f[x]) : x \in S}

Total(f, S) == Cardinality(Cents(f, S))
=============================================================================
