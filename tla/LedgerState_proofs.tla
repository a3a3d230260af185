------------------------- MODULE LedgerState_proofs -------------------------
(***************************************************************************)
(* Every function on the store's state that a handler runs keeps the facts *)
(* of one state and only moves forward.                                    *)
(***************************************************************************)
EXTENDS LedgerState, SequenceTheorems, Totals_proofs

LedgerInv(s) == StoreTypeOK(s) /\ Unique(s) /\ EntriesTrue(s)
StoreInv(s) == LedgerInv(s) /\ Bound(s)

(* u is a state the store may go to from s.                                *)
Good(s, u) == StoreInv(u) /\ Extends(s, u)

(* Putting an item in front of a list within its cap gives such a list.    *)
LEMMA PrependType ==
  ASSUME NEW S, NEW items \in Seq(S), NEW item \in S, NEW cap \in Nat \ {0},
         Len(items) <= cap
  PROVE  /\ Prepend(items, item, cap) \in Seq(S)
         /\ Len(Prepend(items, item, cap)) <= cap
         /\ DOMAIN Prepend(items, item, cap) =
              1 .. (IF Len(items) < cap THEN Len(items) + 1 ELSE cap)
         /\ \A i \in DOMAIN Prepend(items, item, cap) :
              Prepend(items, item, cap)[i] = IF i = 1 THEN item ELSE items[i - 1]
<1> DEFINE n == IF Len(items) < cap THEN Len(items) + 1 ELSE cap
<1> DEFINE f == [i \in 1 .. n |-> IF i = 1 THEN item ELSE items[i - 1]]
<1>1. n \in Nat /\ n <= cap /\ n - 1 <= Len(items)
  OBVIOUS
<1>2. f \in [1 .. n -> S]
  BY <1>1, ElementOfSeq
<1>3. f \in Seq(S) /\ Len(f) = n
  <2> HIDE DEF n, f
  <2>1. f \in Seq(S)
    BY <1>1, <1>2, SeqDef
  <2>2. Len(f) \in Nat /\ 1 .. Len(f) = 1 .. n
    BY <1>2, <2>1, LenProperties
  <2> QED
    BY <1>1, <2>1, <2>2
<1>4. Prepend(items, item, cap) = f
  BY DEF Prepend
<1> QED
  BY <1>1, <1>3, <1>4

(* Membership in the set of recorded settlements, spelled out.             *)
LEMMA OfficialTxsElement ==
  ASSUME NEW s, NEW t
  PROVE  t \in OfficialTxs(s) <=>
           \E i \in DOMAIN s.transactions :
             Official(s.transactions[i]) /\ s.transactions[i].tx = t
BY DEF OfficialTxs

(* A truthful entry whose settlement the ledger lacks keeps the ledger     *)
(* truthful and unique; an official entry that the cap pushes out is still *)
(* known.                                                                  *)
LEMMA AppendLedger ==
  ASSUME NEW s, LedgerInv(s), NEW e \in Entry,
         Official(e) => /\ e.tx \in TxIds \ OfficialTxs(s)
                        /\ SameWallet(e.wallet, Payer[e.tx])
                        /\ e.amount = Paid[e.tx],
         NEW u, u = AppendTransaction(s, e)
  PROVE  /\ LedgerInv(u)
         /\ Known(s) \subseteq Known(u)
         /\ Official(e) => e.tx \in Known(u)
         /\ u.reservations = s.reservations
         /\ u.settledKeys = s.settledKeys
<1> DEFINE old == s.transactions
<1> DEFINE new == Prepend(old, e, TransactionCap)
<1> DEFINE last == Len(old)
<1>1. /\ old \in Seq(Entry) /\ last <= TransactionCap /\ last \in Nat
      /\ DOMAIN old = 1 .. last
      /\ s.forgotten \subseteq TxIds
  BY LenProperties DEF LedgerInv, StoreTypeOK
<1>2. /\ new \in Seq(Entry) /\ Len(new) <= TransactionCap
      /\ DOMAIN new = 1 .. (IF last < TransactionCap THEN last + 1 ELSE TransactionCap)
      /\ \A i \in DOMAIN new : new[i] = IF i = 1 THEN e ELSE old[i - 1]
  <2>1. TransactionCap \in Nat \ {0}
    BY BoundAssumption
  <2>2. Len(old) <= TransactionCap
    BY <1>1
  <2> HIDE DEF old
  <2>3. /\ Prepend(old, e, TransactionCap) \in Seq(Entry)
        /\ Len(Prepend(old, e, TransactionCap)) <= TransactionCap
        /\ DOMAIN Prepend(old, e, TransactionCap) =
             1 .. (IF Len(old) < TransactionCap THEN Len(old) + 1 ELSE TransactionCap)
        /\ \A i \in DOMAIN Prepend(old, e, TransactionCap) :
             Prepend(old, e, TransactionCap)[i] = IF i = 1 THEN e ELSE old[i - 1]
    BY <1>1, <2>1, <2>2, PrependType
  <2> QED
    BY <2>3
<1>3. /\ u.transactions = new
      /\ u.forgotten = IF last >= TransactionCap /\ Official(old[last])
                         THEN s.forgotten \cup {old[last].tx} ELSE s.forgotten
      /\ u.reservations = s.reservations
      /\ u.settledKeys = s.settledKeys
      /\ u.policies = s.policies /\ u.receipts = s.receipts
      /\ u.minted = s.minted /\ u.balances = s.balances
      /\ u = [policies |-> u.policies, balances |-> u.balances,
              receipts |-> u.receipts, transactions |-> u.transactions,
              settledKeys |-> u.settledKeys, reservations |-> u.reservations,
              minted |-> u.minted, forgotten |-> u.forgotten]
  BY DEF AppendTransaction, LedgerInv, StoreTypeOK
<1> HIDE DEF new
<1>4. StoreTypeOK(u)
  <2>1. last \in DOMAIN old /\ Official(old[last]) => old[last].tx \in TxIds
    BY DEF LedgerInv, EntriesTrue
  <2>2. last >= TransactionCap => last \in DOMAIN old
    BY <1>1, BoundAssumption
  <2>3. u.forgotten \subseteq TxIds
    BY <1>1, <1>3, <2>1, <2>2
  <2> QED
    BY <1>2, <1>3, <2>3 DEF LedgerInv, StoreTypeOK
<1>5. EntriesTrue(u)
  <2> SUFFICES ASSUME NEW i \in DOMAIN new, Official(new[i])
               PROVE  /\ new[i].tx \in TxIds
                      /\ SameWallet(new[i].wallet, Payer[new[i].tx])
                      /\ new[i].amount = Paid[new[i].tx]
    BY <1>3 DEF EntriesTrue
  <2>1. CASE i = 1
    BY <2>1, <1>2
  <2>2. CASE i # 1
    <3>1. new[i] = old[i - 1] /\ i - 1 \in DOMAIN old
      BY <2>2, <1>1, <1>2, BoundAssumption
    <3> QED
      BY <3>1 DEF LedgerInv, EntriesTrue
  <2> QED
    BY <2>1, <2>2
<1>6. Unique(u)
  <2> SUFFICES ASSUME NEW i \in DOMAIN new, NEW j \in DOMAIN new, i # j,
                      Official(new[i]), Official(new[j])
               PROVE  new[i].tx # new[j].tx
    BY <1>3 DEF Unique
  <2>1. \A k \in DOMAIN new \ {1} : new[k] = old[k - 1] /\ k - 1 \in DOMAIN old
    BY <1>1, <1>2, BoundAssumption
  <2>2. \A k \in DOMAIN new \ {1} :
           Official(e) /\ Official(new[k]) => new[k].tx # e.tx
    BY <2>1, OfficialTxsElement
  <2>3. CASE i = 1 \/ j = 1
    BY <2>2, <2>3, <1>2
  <2>4. CASE i # 1 /\ j # 1
    <3>1. i - 1 # j - 1 /\ i - 1 \in DOMAIN old /\ j - 1 \in DOMAIN old
      BY <2>1, <2>4, <1>1, <1>2, BoundAssumption
    <3> QED
      BY <2>1, <2>4, <3>1 DEF LedgerInv, Unique
  <2> QED
    BY <2>3, <2>4
<1>7. \A i \in DOMAIN old : Official(old[i]) => old[i].tx \in Known(u)
  <2> SUFFICES ASSUME NEW i \in DOMAIN old, Official(old[i])
               PROVE  old[i].tx \in Known(u)
    OBVIOUS
  <2>1. CASE i + 1 \in DOMAIN new
    <3>1. i \in Nat /\ i + 1 # 1 /\ (i + 1) - 1 = i
      <4> HIDE DEF old
      <4> QED
        BY <1>1
    <3>2. new[i + 1] = old[(i + 1) - 1]
      <4> HIDE DEF old
      <4> QED
        BY <1>2, <2>1, <3>1
    <3>3. new[i + 1] = old[i]
      BY <3>1, <3>2
    <3> QED
      BY <2>1, <3>3, <1>3, OfficialTxsElement DEF Known
  <2>2. CASE i + 1 \notin DOMAIN new
    <3>1. i = last /\ last >= TransactionCap
      BY <2>2, <1>1, <1>2, BoundAssumption
    <3> QED
      BY <3>1, <1>3 DEF Known
  <2> QED
    BY <2>1, <2>2
<1>8. Known(s) \subseteq Known(u)
  BY <1>3, <1>7, OfficialTxsElement DEF Known
<1>9. Official(e) => e.tx \in Known(u)
  <2>1. 1 \in DOMAIN new /\ new[1] = e
    BY <1>1, <1>2, BoundAssumption
  <2> QED
    BY <2>1, <1>3, OfficialTxsElement DEF Known
<1> QED
  BY <1>3, <1>4, <1>5, <1>6, <1>8, <1>9 DEF LedgerInv

(***************************************************************************)
(* Moving forward.                                                         *)
(***************************************************************************)

(* An authorization that does not move has moved forward.                  *)
LEMMA ForwardReflexive ==
  ASSUME NEW r \in Reservation
  PROVE  Forward(r, r)
BY DEF Forward, After, SameWallet, Reservation, Status

(* Two moves forward are one.                                              *)
LEMMA ForwardTransitive ==
  ASSUME NEW r \in Reservation, NEW n \in Reservation, NEW m \in Reservation,
         Forward(r, n), Forward(n, m)
  PROVE  Forward(r, m)
<1>1. m.status \in After(r.status)
  BY DEF Forward, After, Reservation, Status
<1>2. r.status = "committed" => n.status = "committed"
  BY DEF Forward, After
<1> QED
  BY <1>1, <1>2 DEF Forward, SameWallet

(* Every stored authorization has its type.                                *)
LEMMA ReservationType ==
  ASSUME NEW s, StoreTypeOK(s), NEW a \in DOMAIN s.reservations
  PROVE  s.reservations[a] \in Reservation
BY DEF StoreTypeOK

(* A state extends itself: an update may change nothing.                   *)
LEMMA ExtendsReflexive ==
  ASSUME NEW s, StoreTypeOK(s)
  PROVE  Extends(s, s)
BY ReservationType, ForwardReflexive DEF Extends, AuthorizationsExtend

(* Updates compose, so the memory may run several of them ahead of the disk.*)
LEMMA ExtendsTransitive ==
  ASSUME NEW s, NEW u, NEW v, StoreTypeOK(s), StoreTypeOK(u), StoreTypeOK(v),
         Extends(s, u), Extends(u, v)
  PROVE  Extends(s, v)
<1>1. ASSUME NEW a \in DOMAIN s.reservations
      PROVE  a \in DOMAIN v.reservations /\ Forward(s.reservations[a], v.reservations[a])
  <2>1. /\ a \in DOMAIN u.reservations /\ a \in DOMAIN v.reservations
        /\ Forward(s.reservations[a], u.reservations[a])
        /\ Forward(u.reservations[a], v.reservations[a])
    BY DEF Extends, AuthorizationsExtend
  <2> QED
    BY <2>1, ReservationType, ForwardTransitive
<1> QED
  BY <1>1 DEF Extends, AuthorizationsExtend

(* An update that leaves the ledger alone and moves the authorizations     *)
(* forward, binding none, is good.                                         *)
LEMMA ReservationsOnly ==
  ASSUME NEW s, StoreInv(s),
         NEW f, f \in [DOMAIN f -> Reservation], DOMAIN f \subseteq AuthIds,
         AuthorizationsExtend(s.reservations, f),
         \A a \in DOMAIN f :
           IF f[a].status = "committed"
             THEN a \in DOMAIN s.reservations /\ s.reservations[a].status = "committed"
             ELSE f[a].tx = NoTx,
         NEW u, u = [s EXCEPT !.reservations = f]
  PROVE  Good(s, u)
<1>1. /\ u.reservations = f
      /\ u.transactions = s.transactions /\ u.forgotten = s.forgotten
      /\ u.settledKeys = s.settledKeys /\ u.policies = s.policies
      /\ u.receipts = s.receipts /\ u.minted = s.minted
      /\ u.balances = s.balances
      /\ u = [policies |-> u.policies, balances |-> u.balances,
              receipts |-> u.receipts, transactions |-> u.transactions,
              settledKeys |-> u.settledKeys, reservations |-> u.reservations,
              minted |-> u.minted, forgotten |-> u.forgotten]
  BY DEF StoreInv, LedgerInv, StoreTypeOK
<1>2. LedgerInv(u)
  BY <1>1 DEF StoreInv, LedgerInv, StoreTypeOK, Unique, EntriesTrue
<1>3. Known(u) = Known(s)
  BY <1>1 DEF Known, OfficialTxs
<1>4. Bound(u)
  <2> SUFFICES ASSUME NEW a \in DOMAIN f
               PROVE  IF f[a].status = "committed"
                        THEN /\ f[a].tx \in Known(s) \cap TxIds
                             /\ SameWallet(f[a].wallet, Payer[f[a].tx])
                             /\ f[a].amount = Paid[f[a].tx]
                        ELSE f[a].tx = NoTx
    BY <1>1, <1>3 DEF Bound
  <2>1. CASE f[a].status = "committed"
    <3>1. /\ a \in DOMAIN s.reservations
          /\ s.reservations[a].status = "committed"
          /\ Forward(s.reservations[a], f[a])
      BY <2>1 DEF AuthorizationsExtend
    <3> QED
      BY <2>1, <3>1 DEF StoreInv, Bound, Forward, SameWallet
  <2>2. CASE f[a].status # "committed"
    BY <2>2
  <2> QED
    BY <2>1, <2>2
<1>5. Extends(s, u)
  BY <1>1, <1>3 DEF Extends
<1> QED
  BY <1>2, <1>4, <1>5 DEF Good, StoreInv

(***************************************************************************)
(* Recording settlements.                                                  *)
(***************************************************************************)

(* An update that only lets the ledger grow, authorizations untouched, is  *)
(* good.                                                                   *)
LEMMA LedgerOnly ==
  ASSUME NEW s, StoreInv(s), NEW u, LedgerInv(u),
         u.reservations = s.reservations, Known(s) \subseteq Known(u),
         s.settledKeys \subseteq u.settledKeys
  PROVE  Good(s, u)
<1>1. Bound(u)
  BY DEF StoreInv, Bound
<1>2. AuthorizationsExtend(s.reservations, u.reservations)
  BY ExtendsReflexive DEF StoreInv, LedgerInv, Extends
<1> QED
  BY <1>1, <1>2 DEF Good, StoreInv, Extends

(* After recording a settlement once the ledger knows it, is still unique  *)
(* and truthful, and has forgotten nothing.                                *)
LEMMA RecordedOnceLedger ==
  ASSUME NEW s, LedgerInv(s), NEW kind \in {"official", "browser"},
         NEW p \in Proof, Verified(p), NEW covered \in BOOLEAN,
         NEW u, u = RecordedOnce(s, kind, p, covered)
  PROVE  /\ LedgerInv(u)
         /\ Known(s) \subseteq Known(u)
         /\ p.tx \in Known(u)
         /\ u.reservations = s.reservations
         /\ u.settledKeys = s.settledKeys
<1> DEFINE e == OfficialEntry(kind, p, covered)
<1>1. CASE p.tx \in OfficialTxs(s)
  BY <1>1 DEF RecordedOnce, Known
<1>2. CASE p.tx \notin OfficialTxs(s)
  <2>1. /\ p.tx \in TxIds /\ p.resource \in Resources /\ p.day \in Nat
        /\ p.payer \in Wallets /\ p.amount \in Nat
    BY DEF Proof
  <2>2. e \in Entry
    BY <2>1 DEF OfficialEntry, Entry, Kind
  <2>3. /\ Official(e) /\ e.tx = p.tx /\ e.wallet = p.payer
        /\ e.amount = p.amount
    BY DEF OfficialEntry, Official
  <2>4. u = AppendTransaction(s, e)
    BY <1>2 DEF RecordedOnce
  <2>5. /\ e.tx \in TxIds \ OfficialTxs(s)
        /\ SameWallet(e.wallet, Payer[e.tx]) /\ e.amount = Paid[e.tx]
    BY <1>2, <2>1, <2>3 DEF Verified
  <2> HIDE DEF e
  <2> QED
    BY <2>2, <2>3, <2>4, <2>5, AppendLedger
<1> QED
  BY <1>1, <1>2

(* Recording a settlement once is good.                                    *)
LEMMA RecordedOnceGood ==
  ASSUME NEW s, StoreInv(s), NEW kind \in {"official", "browser"},
         NEW p \in Proof, Verified(p), NEW covered \in BOOLEAN,
         NEW u, u = RecordedOnce(s, kind, p, covered)
  PROVE  Good(s, u) /\ p.tx \in Known(u)
<1>1. LedgerInv(s)
  BY DEF StoreInv
<1>2. /\ LedgerInv(u) /\ Known(s) \subseteq Known(u) /\ p.tx \in Known(u)
      /\ u.reservations = s.reservations /\ u.settledKeys = s.settledKeys
  BY <1>1, RecordedOnceLedger
<1> QED
  BY <1>2, LedgerOnly

(* Committing an authorization that no settlement was bound to yet, with a *)
(* proof that matches it, binds it to a settlement the ledger knows.       *)
LEMMA CommittedGood ==
  ASSUME NEW s, StoreInv(s), NEW a \in DOMAIN s.reservations,
         s.reservations[a].status # "committed",
         NEW p \in Proof, Verified(p), Matches(s.reservations[a], p),
         NEW now \in Nat, NEW u, u = Committed(s, a, p, now)
  PROVE  Good(s, u) /\ p.tx \in Known(u)
<1> DEFINE f == s.reservations
<1> DEFINE r == f[a]
<1> DEFINE g == [f EXCEPT ![a] = [r EXCEPT !.status = "committed", !.tx = p.tx]]
<1> DEFINE bound == [s EXCEPT !.reservations = g]
<1>0. bound = [s EXCEPT !.reservations = g]
  OBVIOUS
<1>1. u = RecordedOnce(bound, "official", p, HoldsBudget(r, now))
  BY DEF Committed, StoreInv, LedgerInv, StoreTypeOK
<1>2. /\ f \in [DOMAIN f -> Reservation] /\ DOMAIN f \subseteq AuthIds
      /\ r \in Reservation /\ p.tx \in TxIds
  BY DEF StoreInv, LedgerInv, StoreTypeOK, Proof
<1>3. /\ g \in [DOMAIN f -> Reservation] /\ DOMAIN g = DOMAIN f
      /\ g[a].status = "committed" /\ g[a].tx = p.tx
      /\ g[a].wallet = r.wallet /\ g[a].amount = r.amount
      /\ g[a].resource = r.resource /\ g[a].expires = r.expires
      /\ \A b \in DOMAIN f \ {a} : g[b] = f[b]
  BY <1>2 DEF Reservation, Status
<1> HIDE DEF g, bound
<1>4. /\ bound.reservations = g
      /\ bound.transactions = s.transactions
      /\ bound.forgotten = s.forgotten
      /\ bound.settledKeys = s.settledKeys
      /\ LedgerInv(bound)
  <2>1. /\ bound.reservations = g
        /\ bound.transactions = s.transactions /\ bound.forgotten = s.forgotten
        /\ bound.settledKeys = s.settledKeys /\ bound.policies = s.policies
        /\ bound.receipts = s.receipts /\ bound.minted = s.minted
        /\ bound.balances = s.balances
        /\ bound = [policies |-> bound.policies, balances |-> bound.balances,
              receipts |-> bound.receipts, transactions |-> bound.transactions,
              settledKeys |-> bound.settledKeys,
              reservations |-> bound.reservations,
              minted |-> bound.minted, forgotten |-> bound.forgotten]
    BY <1>0 DEF StoreInv, LedgerInv, StoreTypeOK
  <2> QED
    BY <1>2, <1>3, <2>1
       DEF StoreInv, LedgerInv, StoreTypeOK, Unique, EntriesTrue
<1>5. Known(bound) = Known(s)
  BY <1>4 DEF Known, OfficialTxs
<1>6. HoldsBudget(r, now) \in BOOLEAN
  BY DEF HoldsBudget
<1>7. /\ LedgerInv(u) /\ Known(s) \subseteq Known(u) /\ p.tx \in Known(u)
      /\ u.reservations = g /\ u.settledKeys = s.settledKeys
  BY <1>1, <1>4, <1>5, <1>6, RecordedOnceLedger
<1>8. Bound(u)
  <2> SUFFICES ASSUME NEW b \in DOMAIN g
               PROVE  IF g[b].status = "committed"
                        THEN /\ g[b].tx \in Known(u) \cap TxIds
                             /\ SameWallet(g[b].wallet, Payer[g[b].tx])
                             /\ g[b].amount = Paid[g[b].tx]
                        ELSE g[b].tx = NoTx
    BY <1>7 DEF Bound
  <2>1. CASE b = a
    BY <2>1, <1>2, <1>3, <1>7 DEF Matches, Verified, SameWallet
  <2>2. CASE b # a
    BY <2>2, <1>3, <1>7 DEF StoreInv, Bound
  <2> QED
    BY <2>1, <2>2
<1>9. AuthorizationsExtend(f, g)
  <2> SUFFICES ASSUME NEW b \in DOMAIN f
               PROVE  b \in DOMAIN g /\ Forward(f[b], g[b])
    BY DEF AuthorizationsExtend
  <2>1. CASE b = a
    BY <2>1, <1>2, <1>3 DEF Forward, After, SameWallet, Reservation, Status
  <2>2. CASE b # a
    BY <2>2, <1>2, <1>3, ForwardReflexive
  <2> QED
    BY <2>1, <2>2
<1> QED
  BY <1>7, <1>8, <1>9 DEF Good, StoreInv, Extends

(***************************************************************************)
(* Granting and freeing authorizations.                                    *)
(***************************************************************************)

(* Granting an authorization under an unused id is good.                   *)
LEMMA ReservedGood ==
  ASSUME NEW s, StoreInv(s), NEW a \in AuthIds \ DOMAIN s.reservations,
         NEW w \in Wallets, NEW r \in Resources, NEW x \in Nat, NEW now \in Nat,
         NEW u, u = Reserved(s, a, w, r, x, now)
  PROVE  Good(s, u) /\ a \in DOMAIN u.reservations
<1> DEFINE new == [wallet |-> w, resource |-> r, amount |-> x,
                   status |-> "active", expires |-> now + TTL, tx |-> NoTx]
<1> DEFINE f == s.reservations
<1> DEFINE g == Put(f, a, new)
<1>1. f \in [DOMAIN f -> Reservation] /\ DOMAIN f \subseteq AuthIds
  BY DEF StoreInv, LedgerInv, StoreTypeOK
<1>2. new \in Reservation
  BY BoundAssumption DEF Reservation, Status
<1>3. /\ DOMAIN g = DOMAIN f \cup {a} /\ g[a] = new
      /\ \A b \in DOMAIN f : g[b] = f[b]
      /\ new.status = "active" /\ new.tx = NoTx
  BY DEF Put
<1> HIDE DEF new
<1>4. g \in [DOMAIN g -> Reservation]
  <2>1. g = [b \in DOMAIN f \cup {a} |-> IF b = a THEN new ELSE f[b]]
    BY DEF Put
  <2> QED
    BY <1>1, <1>2, <1>3, <2>1
<1>5. u = [s EXCEPT !.reservations = g]
  BY DEF Reserved, new, StoreInv, LedgerInv, StoreTypeOK
<1> HIDE DEF g
<1>6. AuthorizationsExtend(f, g)
  BY <1>1, <1>3, ForwardReflexive DEF AuthorizationsExtend
<1>7. \A b \in DOMAIN g :
        IF g[b].status = "committed"
          THEN b \in DOMAIN f /\ f[b].status = "committed"
          ELSE g[b].tx = NoTx
  BY <1>3 DEF StoreInv, Bound
<1>8. DOMAIN g \subseteq AuthIds
  BY <1>1, <1>3
<1>9. Good(s, u)
  BY <1>4, <1>5, <1>6, <1>7, <1>8, ReservationsOnly
<1>10. u.reservations = g
  BY <1>5 DEF StoreInv, LedgerInv, StoreTypeOK
<1> QED
  BY <1>3, <1>9, <1>10

(* Moving one active authorization to released or expired is good.         *)
LEMMA WithStatusGood ==
  ASSUME NEW s, StoreInv(s), NEW a \in DOMAIN s.reservations,
         s.reservations[a].status = "active",
         NEW status \in {"released", "expired"},
         NEW u, u = WithStatus(s, a, status)
  PROVE  Good(s, u) /\ u.reservations[a].status = status
<1> DEFINE f == s.reservations
<1> DEFINE g == [f EXCEPT ![a].status = status]
<1>1. f \in [DOMAIN f -> Reservation] /\ DOMAIN f \subseteq AuthIds
  BY DEF StoreInv, LedgerInv, StoreTypeOK
<1>2. /\ DOMAIN g = DOMAIN f /\ g[a] \in Reservation
      /\ g[a].status = status /\ g[a].tx = f[a].tx
      /\ g[a].wallet = f[a].wallet /\ g[a].amount = f[a].amount
      /\ g[a].resource = f[a].resource /\ g[a].expires = f[a].expires
      /\ \A b \in DOMAIN f \ {a} : g[b] = f[b]
  BY <1>1 DEF Reservation, Status
<1>3. u = [s EXCEPT !.reservations = g]
  BY DEF WithStatus, StoreInv, LedgerInv, StoreTypeOK
<1> HIDE DEF g
<1>4. g \in [DOMAIN g -> Reservation]
  BY <1>1, <1>2, <1>3 DEF g
<1>5. AuthorizationsExtend(f, g)
  <2> SUFFICES ASSUME NEW b \in DOMAIN f
               PROVE  b \in DOMAIN g /\ Forward(f[b], g[b])
    BY DEF AuthorizationsExtend
  <2>1. CASE b = a
    BY <2>1, <1>2 DEF Forward, After, SameWallet, Status
  <2>2. CASE b # a
    BY <2>2, <1>1, <1>2, ForwardReflexive
  <2> QED
    BY <2>1, <2>2
<1>6. \A b \in DOMAIN g :
        IF g[b].status = "committed"
          THEN b \in DOMAIN f /\ f[b].status = "committed"
          ELSE g[b].tx = NoTx
  BY <1>2 DEF StoreInv, Bound
<1>7. Good(s, u)
  BY <1>1, <1>2, <1>3, <1>4, <1>5, <1>6, ReservationsOnly
<1>8. u.reservations = g
  BY <1>3 DEF StoreInv, LedgerInv, StoreTypeOK
<1> QED
  BY <1>2, <1>7, <1>8

(* Releasing an authorization is good; one that is not active stays.       *)
LEMMA ReleasedGood ==
  ASSUME NEW s, StoreInv(s), NEW a \in DOMAIN s.reservations,
         NEW u, u = Released(s, a)
  PROVE  Good(s, u)
BY WithStatusGood, ExtendsReflexive DEF Released, Good, StoreInv, LedgerInv

(* Expiring every authorization whose time is over is good.                *)
LEMMA ExpiredGood ==
  ASSUME NEW s, StoreInv(s), NEW now \in Nat, NEW u, u = Expired(s, now)
  PROVE  Good(s, u) /\ DOMAIN u.reservations = DOMAIN s.reservations
<1> DEFINE f == s.reservations
<1> DEFINE Lapsed(r) == r.status = "active" /\ ~HoldsBudget(r, now)
<1> DEFINE g == [a \in DOMAIN f |->
                   IF Lapsed(f[a]) THEN [f[a] EXCEPT !.status = "expired"] ELSE f[a]]
<1>1. f \in [DOMAIN f -> Reservation] /\ DOMAIN f \subseteq AuthIds
  BY DEF StoreInv, LedgerInv, StoreTypeOK
<1>2. u = [s EXCEPT !.reservations = g]
  BY DEF Expired, StoreInv, LedgerInv, StoreTypeOK
<1>3. ASSUME NEW a \in DOMAIN f
      PROVE  /\ g[a] \in Reservation
             /\ Forward(f[a], g[a])
             /\ IF g[a].status = "committed"
                  THEN f[a].status = "committed"
                  ELSE g[a].tx = NoTx
  <2>1. f[a] \in Reservation
    BY <1>1
  <2>2. CASE Lapsed(f[a])
    <3>0. g[a] = [f[a] EXCEPT !.status = "expired"]
      BY <2>2
    <3> HIDE DEF g
    <3>1. /\ g[a].status = "expired" /\ f[a].status = "active"
          /\ g[a].tx = f[a].tx /\ g[a].wallet = f[a].wallet
          /\ g[a].amount = f[a].amount /\ g[a].resource = f[a].resource
          /\ g[a].expires = f[a].expires /\ g[a] \in Reservation
      BY <2>1, <2>2, <3>0 DEF Reservation, Status
    <3> QED
      BY <3>1 DEF Forward, After, SameWallet, Status, StoreInv, Bound
  <2>3. CASE ~Lapsed(f[a])
    <3>1. g[a] = f[a]
      BY <2>3
    <3> QED
      BY <2>1, <3>1, ForwardReflexive DEF StoreInv, Bound
  <2> QED
    BY <2>2, <2>3
<1>4. DOMAIN g = DOMAIN f /\ g \in [DOMAIN g -> Reservation]
  BY <1>3
<1> HIDE DEF g
<1>5. AuthorizationsExtend(f, g)
  BY <1>3, <1>4 DEF AuthorizationsExtend
<1>6. Good(s, u)
  BY <1>1, <1>2, <1>3, <1>4, <1>5, ReservationsOnly
<1>7. u.reservations = g
  BY <1>2 DEF StoreInv, LedgerInv, StoreTypeOK
<1> QED
  BY <1>4, <1>6, <1>7

(***************************************************************************)
(* The sandbox lane and the policies.                                      *)
(***************************************************************************)

(* A denied request grows the ledger only.                                 *)
LEMMA DeniedGood ==
  ASSUME NEW s, StoreInv(s), NEW w \in Wallets, NEW r \in Resources,
         NEW x \in Nat, NEW now \in Nat,
         NEW u, u = AppendTransaction(s, DeniedEntry(w, r, x, now))
  PROVE  Good(s, u)
<1> DEFINE e == DeniedEntry(w, r, x, now)
<1>1. e \in Entry /\ ~Official(e)
  BY BoundAssumption DEF DeniedEntry, Entry, Kind, Official, Day
<1>2. LedgerInv(s) /\ u = AppendTransaction(s, e)
  BY DEF StoreInv
<1> HIDE DEF e
<1>3. /\ LedgerInv(u) /\ Known(s) \subseteq Known(u)
      /\ u.reservations = s.reservations /\ u.settledKeys = s.settledKeys
  BY <1>1, <1>2, AppendLedger
<1> QED
  BY <1>3, LedgerOnly

(* A faucet grant leaves the ledger and the authorizations alone.          *)
LEMMA MintedGood ==
  ASSUME NEW s, StoreInv(s), NEW w \in Wallets, NEW eth \in Nat,
         NEW usdc \in Nat, NEW u, u = Minted(s, w, eth, usdc)
  PROVE  Good(s, u)
<1>1. /\ u.reservations = s.reservations
      /\ u.transactions = s.transactions /\ u.forgotten = s.forgotten
      /\ u.settledKeys = s.settledKeys /\ u.policies = s.policies
      /\ u.receipts = s.receipts
      /\ u.minted = [s.minted EXCEPT ![w] = @ + usdc]
      /\ u = [policies |-> u.policies, balances |-> u.balances,
              receipts |-> u.receipts, transactions |-> u.transactions,
              settledKeys |-> u.settledKeys, reservations |-> u.reservations,
              minted |-> u.minted, forgotten |-> u.forgotten]
  BY DEF Minted, StoreInv, LedgerInv, StoreTypeOK
<1>2. u.minted \in [Wallets -> Nat]
  BY <1>1 DEF StoreInv, LedgerInv, StoreTypeOK
<1>3. LedgerInv(u)
  BY <1>1, <1>2 DEF StoreInv, LedgerInv, StoreTypeOK, Unique, EntriesTrue
<1> QED
  BY <1>1, <1>3, LedgerOnly DEF Known, OfficialTxs

(* Setting a policy leaves the ledger and the authorizations alone.        *)
LEMMA WithPolicyGood ==
  ASSUME NEW s, StoreInv(s), NEW w \in Wallets, NEW policy \in Policy,
         NEW u, u = WithPolicy(s, w, policy)
  PROVE  Good(s, u)
<1>1. /\ u.reservations = s.reservations
      /\ u.transactions = s.transactions /\ u.forgotten = s.forgotten
      /\ u.settledKeys = s.settledKeys
      /\ u.policies = Put(s.policies, w, policy)
      /\ u.receipts = s.receipts /\ u.minted = s.minted
      /\ u = [policies |-> u.policies, balances |-> u.balances,
              receipts |-> u.receipts, transactions |-> u.transactions,
              settledKeys |-> u.settledKeys, reservations |-> u.reservations,
              minted |-> u.minted, forgotten |-> u.forgotten]
  BY DEF WithPolicy, StoreInv, LedgerInv, StoreTypeOK
<1>2. /\ u.policies \in [DOMAIN u.policies -> Policy]
      /\ DOMAIN u.policies \subseteq Wallets
  BY <1>1 DEF Put, StoreInv, LedgerInv, StoreTypeOK
<1>3. LedgerInv(u)
  BY <1>1, <1>2 DEF StoreInv, LedgerInv, StoreTypeOK, Unique, EntriesTrue
<1> QED
  BY <1>1, <1>3, LedgerOnly DEF Known, OfficialTxs

(* A sandbox payment adds a receipt, its key and one sandbox entry.        *)
LEMMA SettledGood ==
  ASSUME NEW s, StoreInv(s), NEW k \in Keys, NEW now \in Nat,
         NEW u, u = Settled(s, k, now)
  PROVE  Good(s, u) /\ k \in u.settledKeys
<1> DEFINE b == BalanceOf(s, k.wallet)
<1> DEFINE receipt == [key |-> k, wallet |-> k.wallet, amount |-> k.price,
                       day |-> Day(now)]
<1> DEFINE e == [kind |-> "sandbox", tx |-> NoTx, wallet |-> k.wallet,
                 resource |-> k.resource, amount |-> k.price, day |-> Day(now),
                 covered |-> FALSE]
<1> DEFINE paid == [s EXCEPT
        !.balances = Put(@, k.wallet, [eth  |-> b.eth - GasCost,
                                       usdc |-> b.usdc - k.price]),
        !.receipts = Prepend(@, receipt, ReceiptCap),
        !.settledKeys = @ \cup {k}]
<1>1. /\ k.wallet \in Wallets /\ k.resource \in Resources /\ k.price \in Nat
      /\ Day(now) \in Nat
  BY KeyAssumption, BoundAssumption DEF Day
<1>2. receipt \in Receipt /\ e \in Entry /\ ~Official(e)
  BY <1>1 DEF Receipt, Entry, Kind, Official
<1>3. u = AppendTransaction(paid, e)
  BY DEF Settled
<1>4. paid = [s EXCEPT
        !.balances = Put(@, k.wallet, [eth  |-> b.eth - GasCost,
                                       usdc |-> b.usdc - k.price]),
        !.receipts = Prepend(@, receipt, ReceiptCap),
        !.settledKeys = @ \cup {k}]
  OBVIOUS
<1> HIDE DEF paid, e, receipt, b
<1>5. /\ paid.reservations = s.reservations
      /\ paid.transactions = s.transactions /\ paid.forgotten = s.forgotten
      /\ paid.settledKeys = s.settledKeys \cup {k}
      /\ paid.policies = s.policies /\ paid.minted = s.minted
      /\ paid.receipts = Prepend(s.receipts, receipt, ReceiptCap)
      /\ paid = [policies |-> paid.policies, balances |-> paid.balances,
              receipts |-> paid.receipts, transactions |-> paid.transactions,
              settledKeys |-> paid.settledKeys,
              reservations |-> paid.reservations,
              minted |-> paid.minted, forgotten |-> paid.forgotten]
  BY <1>4 DEF StoreInv, LedgerInv, StoreTypeOK
<1>6. paid.receipts \in Seq(Receipt) /\ Len(paid.receipts) <= ReceiptCap
  BY <1>2, <1>5, PrependType, BoundAssumption DEF StoreInv, LedgerInv, StoreTypeOK
<1>7. LedgerInv(paid)
  BY <1>5, <1>6 DEF StoreInv, LedgerInv, StoreTypeOK, Unique, EntriesTrue
<1>8. Known(paid) = Known(s)
  BY <1>5 DEF Known, OfficialTxs
<1>9. /\ LedgerInv(u) /\ Known(s) \subseteq Known(u)
      /\ u.reservations = s.reservations
      /\ u.settledKeys = s.settledKeys \cup {k}
  BY <1>2, <1>3, <1>5, <1>7, <1>8, AppendLedger
<1> QED
  BY <1>9, LedgerOnly

(***************************************************************************)
(* Reopening the store.                                                    *)
(***************************************************************************)

(* Bringing the wallet names to their canonical spelling keeps the facts of*)
(* the state and every promise in it.                                      *)
LEMMA NormalizedGood ==
  ASSUME NEW s, StoreInv(s), NEW u, u = Normalized(s)
  PROVE  Good(s, u)
<1> DEFINE Canonical(x) == [x EXCEPT !.wallet = WalletKey[x.wallet]]
<1> DEFINE ts == [i \in DOMAIN s.transactions |-> Canonical(s.transactions[i])]
<1> DEFINE rs == [i \in DOMAIN s.receipts |-> Canonical(s.receipts[i])]
<1> DEFINE f == s.reservations
<1> DEFINE g == [a \in DOMAIN f |-> Canonical(f[a])]
<1>1. /\ u.transactions = ts /\ u.receipts = rs /\ u.reservations = g
      /\ u.policies = s.policies /\ u.settledKeys = s.settledKeys
      /\ u.minted = s.minted /\ u.forgotten = s.forgotten
      /\ u = [policies |-> u.policies, balances |-> u.balances,
              receipts |-> u.receipts, transactions |-> u.transactions,
              settledKeys |-> u.settledKeys, reservations |-> u.reservations,
              minted |-> u.minted, forgotten |-> u.forgotten]
  BY DEF Normalized, StoreInv, LedgerInv, StoreTypeOK
<1>2. /\ s.transactions \in Seq(Entry) /\ s.receipts \in Seq(Receipt)
      /\ Len(s.transactions) <= TransactionCap /\ Len(s.receipts) <= ReceiptCap
      /\ f \in [DOMAIN f -> Reservation] /\ DOMAIN f \subseteq AuthIds
  BY DEF StoreInv, LedgerInv, StoreTypeOK
<1>3. ASSUME NEW i \in DOMAIN s.transactions
      PROVE  /\ ts[i] \in Entry
             /\ ts[i].kind = s.transactions[i].kind
             /\ ts[i].tx = s.transactions[i].tx
             /\ ts[i].amount = s.transactions[i].amount
             /\ SameWallet(ts[i].wallet, s.transactions[i].wallet)
  <2>1. s.transactions[i] \in Entry
    BY <1>2, ElementOfSeq, LenProperties
  <2>2. ts[i] = Canonical(s.transactions[i])
    OBVIOUS
  <2> HIDE DEF ts
  <2> QED
    BY <2>1, <2>2, WalletAssumption DEF Entry, SameWallet
<1>4. ASSUME NEW i \in DOMAIN s.receipts
      PROVE  rs[i] \in Receipt
  <2>1. s.receipts[i] \in Receipt
    BY <1>2, ElementOfSeq, LenProperties
  <2>2. rs[i] = Canonical(s.receipts[i])
    OBVIOUS
  <2> HIDE DEF rs
  <2> QED
    BY <2>1, <2>2, WalletAssumption DEF Receipt
<1>5. ts \in Seq(Entry) /\ Len(ts) <= TransactionCap /\ DOMAIN ts = DOMAIN s.transactions
  <2>1. ts \in [1 .. Len(s.transactions) -> Entry] /\ Len(s.transactions) \in Nat
    BY <1>2, <1>3, LenProperties
  <2> HIDE DEF ts
  <2>2. ts \in Seq(Entry)
    BY <2>1, SeqDef
  <2> QED
    BY <1>2, <2>1, <2>2, LenProperties
<1>6. rs \in Seq(Receipt) /\ Len(rs) <= ReceiptCap
  <2>1. rs \in [1 .. Len(s.receipts) -> Receipt] /\ Len(s.receipts) \in Nat
    BY <1>2, <1>4, LenProperties
  <2> HIDE DEF rs
  <2>2. rs \in Seq(Receipt)
    BY <2>1, SeqDef
  <2> QED
    BY <1>2, <2>1, <2>2, LenProperties
<1>7. ASSUME NEW a \in DOMAIN f
      PROVE  g[a] \in Reservation /\ Forward(f[a], g[a])
             /\ g[a].status = f[a].status /\ g[a].tx = f[a].tx
  <2>1. f[a] \in Reservation /\ g[a] = Canonical(f[a])
    BY <1>2
  <2> HIDE DEF g
  <2>2. /\ g[a] \in Reservation /\ g[a].status = f[a].status
        /\ g[a].tx = f[a].tx /\ g[a].amount = f[a].amount
        /\ g[a].resource = f[a].resource /\ g[a].expires = f[a].expires
        /\ SameWallet(g[a].wallet, f[a].wallet)
    BY <2>1, WalletAssumption DEF Reservation, SameWallet
  <2> QED
    BY <2>1, <2>2 DEF Forward, After, Reservation, Status
<1>8. g \in [DOMAIN g -> Reservation] /\ DOMAIN g = DOMAIN f
  BY <1>7
<1> HIDE DEF ts, rs, g
<1>9. StoreTypeOK(u)
  BY <1>1, <1>2, <1>5, <1>6, <1>8 DEF StoreInv, LedgerInv, StoreTypeOK
<1>10. EntriesTrue(u) /\ Unique(u)
  BY <1>1, <1>3, <1>5
     DEF StoreInv, LedgerInv, EntriesTrue, Unique, Official, SameWallet
<1>11. Known(u) = Known(s)
  <2>1. ASSUME NEW t
        PROVE  t \in OfficialTxs(u) <=> t \in OfficialTxs(s)
    <3>1. \A i \in DOMAIN ts : Official(ts[i]) <=> Official(s.transactions[i])
      BY <1>3, <1>5 DEF Official
    <3> QED
      BY <1>1, <1>3, <1>5, <3>1, OfficialTxsElement
  <2>2. OfficialTxs(u) = OfficialTxs(s)
    BY <2>1
  <2> QED
    BY <1>1, <2>2 DEF Known
<1>12. Bound(u)
  BY <1>1, <1>7, <1>8, <1>11 DEF StoreInv, Bound, Forward, SameWallet
<1>13. Extends(s, u)
  BY <1>1, <1>7, <1>8, <1>11 DEF Extends, AuthorizationsExtend
<1> QED
  BY <1>9, <1>10, <1>12, <1>13 DEF Good, StoreInv, LedgerInv

(***************************************************************************)
(* The budget: how each update changes what counts against a daily limit.  *)
(***************************************************************************)

(* What the budget needs of a state: finitely many authorizations, and     *)
(* nothing dated after today.                                              *)
PastDays(s, now) ==
  /\ \A i \in DOMAIN s.receipts : s.receipts[i].day <= Day(now)
  /\ \A i \in DOMAIN s.transactions : s.transactions[i].day <= Day(now)
BudgetInv(s, now) ==
  /\ IsFiniteSet(DOMAIN s.reservations)
  /\ PastDays(s, now)
  /\ WithinBudget(s, now)

(* An item put in front of a list adds at most its amount to a total over  *)
(* a part of the list, whatever the cap drops.                             *)
LEMMA PrependTotal ==
  ASSUME NEW S, NEW items \in Seq(S), NEW item \in S, NEW cap \in Nat \ {0},
         Len(items) <= cap, \A y \in S : y.amount \in Nat,
         NEW new, new = Prepend(items, item, cap),
         NEW X \in SUBSET (DOMAIN items), NEW Y \in SUBSET (DOMAIN new),
         \A i \in Y : i # 1 => i - 1 \in X
  PROVE  /\ Total(AmountsOf(items), X) \in Nat
         /\ Total(AmountsOf(new), Y) \in Nat
         /\ Total(AmountsOf(new), Y)
              <= Total(AmountsOf(items), X)
                   + IF 1 \in Y THEN item.amount ELSE 0
<1> DEFINE f == AmountsOf(items)
<1> DEFINE g == AmountsOf(new)
<1> USE DEF AmountsOf
<1>1. /\ new \in Seq(S)
      /\ DOMAIN new = 1 .. (IF Len(items) < cap THEN Len(items) + 1 ELSE cap)
      /\ \A i \in DOMAIN new : new[i] = IF i = 1 THEN item ELSE items[i - 1]
  BY PrependType
<1>2. /\ Len(items) \in Nat /\ DOMAIN items = 1 .. Len(items)
      /\ \A i \in DOMAIN items : items[i] \in S
  BY LenProperties, ElementOfSeq
<1>3. IsFiniteSet(DOMAIN items) /\ IsFiniteSet(DOMAIN new)
  BY <1>1, <1>2, FS_Interval
<1>4. IsFiniteSet(X) /\ IsFiniteSet(Y) /\ IsFiniteSet(Y \ {1})
  BY <1>3, FS_Subset
<1>5. \A i \in DOMAIN new : new[i] \in S
  BY <1>1, <1>2
<1>6. (\A i \in X : f[i] \in Nat) /\ (\A i \in Y : g[i] \in Nat)
  BY <1>2, <1>5
<1>7. [i \in Y \ {1} |-> i - 1] \in Injection(Y \ {1}, X)
  BY <1>1, <1>2 DEF Injection, IsInjective
<1>8. \A i \in Y \ {1} : g[i] <= f[[j \in Y \ {1} |-> j - 1][i]]
  <2> SUFFICES ASSUME NEW i \in Y \ {1}
               PROVE  g[i] <= f[i - 1]
    OBVIOUS
  <2>1. g[i] = items[i - 1].amount /\ f[i - 1] = items[i - 1].amount
    BY <1>1
  <2>2. f[i - 1] \in Nat
    BY <1>6
  <2> QED
    BY <2>1, <2>2
<1> HIDE DEF f, g
<1>9. Total(g, Y \ {1}) <= Total(f, X)
  BY <1>4, <1>6, <1>7, <1>8, TotalInjection
<1>10. Total(f, X) \in Nat /\ Total(g, Y) \in Nat /\ Total(g, Y \ {1}) \in Nat
  BY <1>4, <1>6, TotalType
<1>11. 1 \in Y => Total(g, Y) = Total(g, Y \ {1}) + item.amount
  <2> SUFFICES ASSUME 1 \in Y
               PROVE  Total(g, Y) = Total(g, Y \ {1}) + item.amount
    OBVIOUS
  <2>1. Total(g, (Y \ {1}) \cup {1}) = Total(g, Y \ {1}) + g[1]
    BY <1>4, <1>6, TotalAdd
  <2>2. (Y \ {1}) \cup {1} = Y
    OBVIOUS
  <2>3. g[1] = item.amount
    BY <1>1 DEF g
  <2> QED
    BY <2>1, <2>2, <2>3
<1>12. 1 \notin Y => Total(g, Y \ {1}) = Total(g, Y)
  <2>1. 1 \notin Y => Y \ {1} = Y
    OBVIOUS
  <2> QED
    BY <2>1
<1>13. item.amount \in Nat
  OBVIOUS
<1>14. Total(g, Y) <= Total(f, X) + IF 1 \in Y THEN item.amount ELSE 0
  <2>1. CASE 1 \in Y
    BY <2>1, <1>9, <1>10, <1>11, <1>13
  <2>2. CASE 1 \notin Y
    BY <2>2, <1>9, <1>10, <1>12
  <2> QED
    BY <2>1, <2>2
<1> QED
  BY <1>10, <1>14 DEF f, g

(* The receipts and the reservations that the totals of a state are about. *)
ReceiptsOf(s, w, day) ==
  {i \in DOMAIN s.receipts : /\ SameWallet(s.receipts[i].wallet, w)
                             /\ s.receipts[i].day = day}
Holding(s, w, now) ==
  {a \in DOMAIN s.reservations : /\ HoldsBudget(s.reservations[a], now)
                                 /\ SameWallet(s.reservations[a].wallet, w)}

(* The three parts of the spending are totals over finite sets of natural  *)
(* amounts.                                                                *)
LEMMA SpendType ==
  ASSUME NEW s, StoreTypeOK(s), IsFiniteSet(DOMAIN s.reservations),
         NEW w, NEW day, NEW now
  PROVE  /\ ReceiptSpend(s, w, day) = Total(AmountsOf(s.receipts), ReceiptsOf(s, w, day))
         /\ ReceiptSpend(s, w, day) \in Nat
         /\ \A X \in SUBSET (DOMAIN s.transactions) :
              /\ EntrySpend(s, X) = Total(AmountsOf(s.transactions), X)
              /\ EntrySpend(s, X) \in Nat
              /\ IsFiniteSet(X)
         /\ CoveredEntries(s, w, day) \subseteq OfficialEntries(s, w, day)
         /\ OfficialEntries(s, w, day) \subseteq DOMAIN s.transactions
         /\ \A i \in DOMAIN s.transactions : AmountsOf(s.transactions)[i] \in Nat
         /\ PendingSpend(s, w, now) = Total(AmountsOf(s.reservations), Holding(s, w, now))
         /\ PendingSpend(s, w, now) \in Nat
         /\ IsFiniteSet(Holding(s, w, now))
         /\ \A a \in DOMAIN s.reservations : AmountsOf(s.reservations)[a] \in Nat
<1>1. /\ DOMAIN s.receipts = 1 .. Len(s.receipts) /\ Len(s.receipts) \in Nat
      /\ \A i \in DOMAIN s.receipts : s.receipts[i] \in Receipt
  BY LenProperties, ElementOfSeq DEF StoreTypeOK
<1>2. /\ DOMAIN s.transactions = 1 .. Len(s.transactions)
      /\ Len(s.transactions) \in Nat
      /\ \A i \in DOMAIN s.transactions : s.transactions[i] \in Entry
  BY LenProperties, ElementOfSeq DEF StoreTypeOK
<1>3. \A a \in DOMAIN s.reservations : s.reservations[a] \in Reservation
  BY DEF StoreTypeOK
<1>4. IsFiniteSet(DOMAIN s.receipts) /\ IsFiniteSet(DOMAIN s.transactions)
  <2>1. \A n \in Nat : IsFiniteSet(1 .. n)
    BY FS_Interval
  <2> QED
    BY <1>1, <1>2, <2>1
<1>5. \A i \in DOMAIN s.receipts : AmountsOf(s.receipts)[i] \in Nat
  BY <1>1 DEF AmountsOf, Receipt
<1>6. \A i \in DOMAIN s.transactions : AmountsOf(s.transactions)[i] \in Nat
  BY <1>2 DEF AmountsOf, Entry
<1>7. \A a \in DOMAIN s.reservations : AmountsOf(s.reservations)[a] \in Nat
  <2>1. \A a \in DOMAIN s.reservations : s.reservations[a].amount \in Nat
    BY <1>3 DEF Reservation
  <2> QED
    BY <2>1 DEF AmountsOf
<1>8. ReceiptSpend(s, w, day) = Total(AmountsOf(s.receipts), ReceiptsOf(s, w, day))
  BY DEF ReceiptSpend, ReceiptsOf
<1>9. PendingSpend(s, w, now) = Total(AmountsOf(s.reservations), Holding(s, w, now))
  BY DEF PendingSpend, Holding
<1>10. \A X : EntrySpend(s, X) = Total(AmountsOf(s.transactions), X)
  BY DEF EntrySpend
<1>11. /\ ReceiptsOf(s, w, day) \subseteq DOMAIN s.receipts
       /\ Holding(s, w, now) \subseteq DOMAIN s.reservations
       /\ CoveredEntries(s, w, day) \subseteq OfficialEntries(s, w, day)
       /\ OfficialEntries(s, w, day) \subseteq DOMAIN s.transactions
  BY DEF ReceiptsOf, Holding, CoveredEntries, OfficialEntries
<1>12. IsFiniteSet(ReceiptsOf(s, w, day)) /\ IsFiniteSet(Holding(s, w, now))
  BY <1>4, <1>11, FS_Subset
<1>13. ReceiptSpend(s, w, day) \in Nat
  BY <1>5, <1>8, <1>11, <1>12, TotalType
<1>14. PendingSpend(s, w, now) \in Nat
  BY <1>7, <1>9, <1>11, <1>12, TotalType
<1>15. ASSUME NEW X \in SUBSET (DOMAIN s.transactions)
       PROVE  IsFiniteSet(X) /\ EntrySpend(s, X) \in Nat
  <2>1. IsFiniteSet(X)
    BY <1>4, FS_Subset
  <2> QED
    BY <2>1, <1>6, <1>10, TotalType
<1> QED
  BY <1>6, <1>7, <1>8, <1>9, <1>10, <1>11, <1>12, <1>13, <1>14, <1>15

(* In u nothing counts for more than in s, under the same policies.        *)
Cheaper(s, u, now) ==
  /\ u.policies = s.policies
  /\ \A w \in Wallets : CoveredSpend(u, w, now) <= CoveredSpend(s, w, now)

(* A wallet has a policy, its own or the default one.                      *)
LEMMA PolicyType ==
  ASSUME NEW s, StoreTypeOK(s), NEW w \in Wallets
  PROVE  PolicyOf(s, w) \in Policy /\ PolicyOf(s, w).dailyLimit \in Nat
<1>1. PolicyOf(s, w) \in Policy
  BY BoundAssumption DEF PolicyOf, StoreTypeOK
<1> QED
  BY <1>1 DEF Policy

(* What counts against a limit is a natural number, and covered entries    *)
(* count for no more than all official ones.                               *)
LEMMA SpendNat ==
  ASSUME NEW s, StoreTypeOK(s), IsFiniteSet(DOMAIN s.reservations),
         NEW w, NEW now
  PROVE  /\ ReceiptSpend(s, w, Day(now)) \in Nat
         /\ EntrySpend(s, CoveredEntries(s, w, Day(now))) \in Nat
         /\ EntrySpend(s, OfficialEntries(s, w, Day(now))) \in Nat
         /\ EntrySpend(s, CoveredEntries(s, w, Day(now)))
              <= EntrySpend(s, OfficialEntries(s, w, Day(now)))
         /\ PendingSpend(s, w, now) \in Nat
         /\ CoveredSpend(s, w, now) \in Nat
<1> DEFINE day == Day(now)
<1> DEFINE C == CoveredEntries(s, w, day)
<1> DEFINE O == OfficialEntries(s, w, day)
<1>1. C \subseteq O /\ O \subseteq DOMAIN s.transactions
  BY SpendType
<1>2. C \subseteq DOMAIN s.transactions
  BY <1>1
<1>3. /\ ReceiptSpend(s, w, day) \in Nat /\ PendingSpend(s, w, now) \in Nat
      /\ EntrySpend(s, C) = Total(AmountsOf(s.transactions), C) /\ EntrySpend(s, C) \in Nat
      /\ EntrySpend(s, O) = Total(AmountsOf(s.transactions), O) /\ EntrySpend(s, O) \in Nat
      /\ IsFiniteSet(O)
      /\ \A i \in DOMAIN s.transactions : AmountsOf(s.transactions)[i] \in Nat
  BY <1>1, <1>2, SpendType
<1>4. EntrySpend(s, C) <= EntrySpend(s, O)
  BY <1>1, <1>3, TotalSubset
<1>5. CoveredSpend(s, w, now) \in Nat
  BY <1>3 DEF CoveredSpend
<1> QED
  BY <1>3, <1>4, <1>5

(* Such a state is within the limits that the other was in.                *)
LEMMA CheaperWithin ==
  ASSUME NEW s, NEW u, NEW now, StoreTypeOK(s), StoreTypeOK(u),
         IsFiniteSet(DOMAIN s.reservations), IsFiniteSet(DOMAIN u.reservations),
         WithinBudget(s, now), Cheaper(s, u, now)
  PROVE  WithinBudget(u, now)
<1> SUFFICES ASSUME NEW w \in Wallets
             PROVE  CoveredSpend(u, w, now) <= PolicyOf(u, w).dailyLimit
  BY DEF WithinBudget
<1>1. PolicyOf(u, w) = PolicyOf(s, w)
  BY DEF Cheaper, PolicyOf
<1>2. CoveredSpend(u, w, now) \in Nat /\ CoveredSpend(s, w, now) \in Nat
  BY SpendNat
<1>3. PolicyOf(s, w).dailyLimit \in Nat
  BY PolicyType
<1> QED
  BY <1>1, <1>2, <1>3 DEF Cheaper, WithinBudget

(* A new entry counts for its amount if it is covered, of the wallet and   *)
(* of the day, and for nothing otherwise.                                  *)
Counts(e, w, day) ==
  Official(e) /\ SameWallet(e.wallet, w) /\ e.day = day /\ e.covered

LEMMA AppendSpend ==
  ASSUME NEW s, StoreTypeOK(s), NEW e \in Entry,
         NEW u, u = AppendTransaction(s, e), NEW w, NEW day
  PROVE  /\ u.policies = s.policies /\ u.receipts = s.receipts
         /\ u.reservations = s.reservations
         /\ \A i \in DOMAIN u.transactions :
              \/ u.transactions[i] = e
              \/ \E j \in DOMAIN s.transactions : u.transactions[i] = s.transactions[j]
         /\ EntrySpend(s, CoveredEntries(s, w, day)) \in Nat
         /\ EntrySpend(u, CoveredEntries(u, w, day)) \in Nat
         /\ EntrySpend(u, CoveredEntries(u, w, day))
              <= EntrySpend(s, CoveredEntries(s, w, day))
                   + IF Counts(e, w, day) THEN e.amount ELSE 0
<1> DEFINE old == s.transactions
<1> DEFINE new == u.transactions
<1> DEFINE X == CoveredEntries(s, w, day)
<1> DEFINE Y == CoveredEntries(u, w, day)
<1>1. /\ new = Prepend(old, e, TransactionCap)
      /\ u.policies = s.policies /\ u.receipts = s.receipts
      /\ u.reservations = s.reservations
  BY DEF AppendTransaction, StoreTypeOK
<1>2. /\ old \in Seq(Entry) /\ Len(old) <= TransactionCap /\ Len(old) \in Nat
      /\ DOMAIN old = 1 .. Len(old) /\ TransactionCap \in Nat \ {0}
      /\ \A y \in Entry : y.amount \in Nat
  BY BoundAssumption, LenProperties DEF StoreTypeOK, Entry
<1> HIDE DEF old, new
<1>3. /\ DOMAIN new = 1 .. (IF Len(old) < TransactionCap THEN Len(old) + 1
                                                        ELSE TransactionCap)
      /\ \A i \in DOMAIN new : new[i] = IF i = 1 THEN e ELSE old[i - 1]
  <2>1. /\ DOMAIN Prepend(old, e, TransactionCap) =
             1 .. (IF Len(old) < TransactionCap THEN Len(old) + 1 ELSE TransactionCap)
        /\ \A i \in DOMAIN Prepend(old, e, TransactionCap) :
             Prepend(old, e, TransactionCap)[i] = IF i = 1 THEN e ELSE old[i - 1]
    BY <1>2, PrependType
  <2> QED
    BY <1>1, <2>1
<1>4. \A i \in DOMAIN new : i # 1 => i - 1 \in DOMAIN old
  BY <1>2, <1>3
<1>5. /\ \A i : i \in X <=> i \in DOMAIN old /\ Counts(old[i], w, day)
      /\ \A i : i \in Y <=> i \in DOMAIN new /\ Counts(new[i], w, day)
  BY DEF old, new, CoveredEntries, OfficialEntries, Counts
<1> HIDE DEF X, Y
<1>6. X \in SUBSET (DOMAIN old) /\ Y \in SUBSET (DOMAIN new)
  BY <1>5
<1>7. \A i \in Y : i # 1 => i - 1 \in X
  BY <1>3, <1>4, <1>5
<1>8. (1 \in Y) <=> Counts(e, w, day)
  <2>1. 1 \in DOMAIN new /\ new[1] = e
    BY <1>2, <1>3
  <2> QED
    BY <2>1, <1>5
<1>9. /\ Total(AmountsOf(old), X) \in Nat
      /\ Total(AmountsOf(new), Y) \in Nat
      /\ Total(AmountsOf(new), Y)
           <= Total(AmountsOf(old), X)
                + IF 1 \in Y THEN e.amount ELSE 0
  BY <1>1, <1>2, <1>6, <1>7, PrependTotal
<1>10. /\ EntrySpend(s, X) = Total(AmountsOf(old), X)
       /\ EntrySpend(u, Y) = Total(AmountsOf(new), Y)
  BY DEF EntrySpend, old, new
<1>11. \A i \in DOMAIN new :
          new[i] = e \/ \E j \in DOMAIN old : new[i] = old[j]
  BY <1>3, <1>4
<1>12. /\ EntrySpend(s, X) \in Nat /\ EntrySpend(u, Y) \in Nat
       /\ EntrySpend(u, Y)
            <= EntrySpend(s, X) + IF Counts(e, w, day) THEN e.amount ELSE 0
  BY <1>8, <1>9, <1>10
<1> QED
  BY <1>1, <1>11, <1>12 DEF X, Y, old, new

(* The parts of the spending that an update leaves alone.                  *)
LEMMA SameParts ==
  ASSUME NEW s, NEW u
  PROVE  /\ u.receipts = s.receipts =>
              \A w, day : ReceiptSpend(u, w, day) = ReceiptSpend(s, w, day)
         /\ u.transactions = s.transactions =>
              \A w, day : EntrySpend(u, CoveredEntries(u, w, day))
                            = EntrySpend(s, CoveredEntries(s, w, day))
         /\ u.reservations = s.reservations =>
              \A w, now : PendingSpend(u, w, now) = PendingSpend(s, w, now)
BY DEF ReceiptSpend, EntrySpend, CoveredEntries, OfficialEntries, PendingSpend

(* A new entry that is not covered costs nothing.                          *)
LEMMA AppendBudget ==
  ASSUME NEW s, StoreTypeOK(s), NEW now, BudgetInv(s, now), NEW e \in Entry,
         ~e.covered, e.day <= Day(now),
         NEW u, u = AppendTransaction(s, e), StoreTypeOK(u)
  PROVE  BudgetInv(u, now)
<1>1. /\ u.policies = s.policies /\ u.receipts = s.receipts
      /\ u.reservations = s.reservations
      /\ \A i \in DOMAIN u.transactions :
           \/ u.transactions[i] = e
           \/ \E j \in DOMAIN s.transactions : u.transactions[i] = s.transactions[j]
  BY AppendSpend
<1>2. PastDays(u, now) /\ IsFiniteSet(DOMAIN u.reservations)
  BY <1>1 DEF BudgetInv, PastDays
<1>3. Cheaper(s, u, now)
  <2> SUFFICES ASSUME NEW w \in Wallets
               PROVE  CoveredSpend(u, w, now) <= CoveredSpend(s, w, now)
    BY <1>1 DEF Cheaper
  <2> DEFINE R(x) == ReceiptSpend(x, w, Day(now))
  <2> DEFINE E(x) == EntrySpend(x, CoveredEntries(x, w, Day(now)))
  <2> DEFINE P(x) == PendingSpend(x, w, now)
  <2>1. R(u) = R(s) /\ P(u) = P(s)
    BY <1>1, SameParts
  <2>2. ~Counts(e, w, Day(now))
    BY DEF Counts
  <2>3. E(s) \in Nat /\ E(u) \in Nat /\ E(u) <= E(s)
    BY <2>2, AppendSpend
  <2>4. R(s) \in Nat /\ P(s) \in Nat
    BY SpendNat DEF BudgetInv
  <2>5. CoveredSpend(u, w, now) = R(u) + E(u) + P(u)
        /\ CoveredSpend(s, w, now) = R(s) + E(s) + P(s)
    BY DEF CoveredSpend
  <2> HIDE DEF R, E, P
  <2> QED
    BY <2>1, <2>3, <2>4, <2>5
<1> QED
  BY <1>2, <1>3, CheaperWithin DEF BudgetInv

(* When authorizations only stop holding budget, what is pending shrinks,  *)
(* by the amount of any one that stopped.                                  *)
LEMMA PendingShrinks ==
  ASSUME NEW s, NEW u, StoreTypeOK(s), StoreTypeOK(u),
         IsFiniteSet(DOMAIN s.reservations),
         DOMAIN u.reservations = DOMAIN s.reservations,
         NEW w, NEW now, NEW later,
         \A a \in DOMAIN s.reservations :
           HoldsBudget(u.reservations[a], later) =>
             /\ HoldsBudget(s.reservations[a], now)
             /\ SameWallet(u.reservations[a].wallet, s.reservations[a].wallet)
             /\ u.reservations[a].amount = s.reservations[a].amount
  PROVE  /\ PendingSpend(s, w, now) \in Nat /\ PendingSpend(u, w, later) \in Nat
         /\ PendingSpend(u, w, later) <= PendingSpend(s, w, now)
         /\ \A a \in Holding(s, w, now) \ Holding(u, w, later) :
              PendingSpend(u, w, later) + s.reservations[a].amount
                <= PendingSpend(s, w, now)
<1> DEFINE f == AmountsOf(s.reservations)
<1> DEFINE g == AmountsOf(u.reservations)
<1> DEFINE H == Holding(s, w, now)
<1> DEFINE K == Holding(u, w, later)
<1>1. /\ PendingSpend(s, w, now) = Total(f, H) /\ Total(f, H) \in Nat
      /\ PendingSpend(u, w, later) = Total(g, K) /\ Total(g, K) \in Nat
      /\ IsFiniteSet(H) /\ IsFiniteSet(K)
      /\ \A b \in DOMAIN s.reservations : f[b] \in Nat
  <2>1. /\ PendingSpend(s, w, now) = Total(f, H) /\ PendingSpend(s, w, now) \in Nat
        /\ IsFiniteSet(H) /\ \A b \in DOMAIN s.reservations : f[b] \in Nat
    BY SpendType
  <2>2. /\ PendingSpend(u, w, later) = Total(g, K)
        /\ PendingSpend(u, w, later) \in Nat /\ IsFiniteSet(K)
    BY SpendType
  <2> QED
    BY <2>1, <2>2
<1>2. K \subseteq H /\ H \subseteq DOMAIN s.reservations
  BY DEF Holding, SameWallet
<1>3. \A b \in K : f[b] = g[b]
  BY <1>2 DEF AmountsOf, Holding
<1>4. \A a \in H : f[a] = s.reservations[a].amount
  BY <1>2 DEF AmountsOf
<1> HIDE DEF f, g, H, K
<1>5. Total(g, K) = Total(f, K)
  BY <1>3, TotalSame
<1>6. \A b \in H : f[b] \in Nat
  BY <1>1, <1>2
<1>7. Total(f, K) <= Total(f, H)
  BY <1>1, <1>2, <1>6, TotalSubset
<1>8. ASSUME NEW a \in H \ K
      PROVE  Total(f, K) + f[a] <= Total(f, H)
  <2>1. \A b \in K : f[b] \in Nat
    BY <1>2, <1>6
  <2>2. Total(f, K \cup {a}) = Total(f, K) + f[a]
    BY <1>1, <1>6, <1>8, <2>1, TotalAdd
  <2>3. K \cup {a} \in SUBSET H
    BY <1>2, <1>8
  <2>4. Total(f, K \cup {a}) <= Total(f, H)
    BY <1>1, <1>6, <2>3, TotalSubset
  <2> QED
    BY <2>2, <2>4
<1> QED
  BY <1>1, <1>4, <1>5, <1>7, <1>8 DEF H, K

(* An update that only makes authorizations stop holding budget costs      *)
(* nothing.                                                                *)
LEMMA FreedBudget ==
  ASSUME NEW s, NEW u, StoreTypeOK(s), StoreTypeOK(u),
         NEW now, BudgetInv(s, now),
         u.policies = s.policies, u.receipts = s.receipts,
         u.transactions = s.transactions,
         DOMAIN u.reservations = DOMAIN s.reservations,
         \A a \in DOMAIN s.reservations :
           HoldsBudget(u.reservations[a], now) =>
             u.reservations[a] = s.reservations[a]
  PROVE  BudgetInv(u, now)
<1>1. PastDays(u, now) /\ IsFiniteSet(DOMAIN u.reservations)
  BY DEF BudgetInv, PastDays
<1>2. ASSUME NEW w \in Wallets
      PROVE  PendingSpend(u, w, now) <= PendingSpend(s, w, now)
  <2>1. \A a \in DOMAIN s.reservations :
           HoldsBudget(u.reservations[a], now) =>
             /\ HoldsBudget(s.reservations[a], now)
             /\ SameWallet(u.reservations[a].wallet, s.reservations[a].wallet)
             /\ u.reservations[a].amount = s.reservations[a].amount
    BY DEF SameWallet
  <2> QED
    BY <2>1, PendingShrinks DEF BudgetInv
<1>3. Cheaper(s, u, now)
  <2> SUFFICES ASSUME NEW w \in Wallets
               PROVE  CoveredSpend(u, w, now) <= CoveredSpend(s, w, now)
    BY DEF Cheaper
  <2> DEFINE R(x) == ReceiptSpend(x, w, Day(now))
  <2> DEFINE E(x) == EntrySpend(x, CoveredEntries(x, w, Day(now)))
  <2> DEFINE P(x) == PendingSpend(x, w, now)
  <2>1. R(u) = R(s) /\ E(u) = E(s)
    BY SameParts
  <2>2. R(s) \in Nat /\ E(s) \in Nat /\ P(s) \in Nat /\ P(u) \in Nat
    BY <1>1, SpendNat DEF BudgetInv
  <2>3. P(u) <= P(s)
    BY <1>2
  <2>4. CoveredSpend(u, w, now) = R(u) + E(u) + P(u)
        /\ CoveredSpend(s, w, now) = R(s) + E(s) + P(s)
    BY DEF CoveredSpend
  <2> HIDE DEF R, E, P
  <2> QED
    BY <2>1, <2>2, <2>3, <2>4
<1> QED
  BY <1>1, <1>3, CheaperWithin DEF BudgetInv

(* Expiring authorizations costs nothing.                                  *)
LEMMA ExpiredBudget ==
  ASSUME NEW s, StoreInv(s), NEW now \in Nat, BudgetInv(s, now),
         NEW u, u = Expired(s, now)
  PROVE  BudgetInv(u, now)
<1> DEFINE f == s.reservations
<1> DEFINE g == [a \in DOMAIN f |->
                   IF f[a].status = "active" /\ ~HoldsBudget(f[a], now)
                     THEN [f[a] EXCEPT !.status = "expired"] ELSE f[a]]
<1>1. /\ u.reservations = g /\ u.policies = s.policies
      /\ u.receipts = s.receipts /\ u.transactions = s.transactions
  BY DEF Expired, StoreInv, LedgerInv, StoreTypeOK
<1>2. \A a \in DOMAIN f : f[a] \in Reservation
  BY DEF StoreInv, LedgerInv, StoreTypeOK
<1>3. \A a \in DOMAIN f : HoldsBudget(g[a], now) => g[a] = f[a]
  <2> SUFFICES ASSUME NEW a \in DOMAIN f, HoldsBudget(g[a], now)
               PROVE  g[a] = f[a]
    OBVIOUS
  <2>1. g[a] = IF f[a].status = "active" /\ ~HoldsBudget(f[a], now)
                 THEN [f[a] EXCEPT !.status = "expired"] ELSE f[a]
    OBVIOUS
  <2>2. [f[a] EXCEPT !.status = "expired"].status = "expired"
    BY <1>2 DEF Reservation
  <2> HIDE DEF g
  <2> QED
    BY <2>1, <2>2 DEF HoldsBudget
<1>4. StoreTypeOK(u) /\ StoreTypeOK(s)
  BY ExpiredGood DEF Good, StoreInv, LedgerInv
<1>5. DOMAIN g = DOMAIN f
  OBVIOUS
<1> HIDE DEF g
<1> QED
  BY <1>1, <1>3, <1>4, <1>5, FreedBudget

(* Neither does moving an active one to released or expired.               *)
LEMMA WithStatusBudget ==
  ASSUME NEW s, StoreInv(s), NEW now, BudgetInv(s, now),
         NEW a \in DOMAIN s.reservations, s.reservations[a].status = "active",
         NEW status \in {"released", "expired"},
         NEW u, u = WithStatus(s, a, status)
  PROVE  BudgetInv(u, now)
<1> DEFINE f == s.reservations
<1> DEFINE g == [f EXCEPT ![a].status = status]
<1>1. /\ u.reservations = g /\ u.policies = s.policies
      /\ u.receipts = s.receipts /\ u.transactions = s.transactions
  BY DEF WithStatus, StoreInv, LedgerInv, StoreTypeOK
<1>2. f \in [DOMAIN f -> Reservation]
  BY DEF StoreInv, LedgerInv, StoreTypeOK
<1>3. /\ DOMAIN g = DOMAIN f /\ g[a].status = status
      /\ \A b \in DOMAIN f \ {a} : g[b] = f[b]
  BY <1>2 DEF Reservation
<1> HIDE DEF g
<1>4. \A b \in DOMAIN f : HoldsBudget(g[b], now) => g[b] = f[b]
  BY <1>3 DEF HoldsBudget
<1>5. StoreTypeOK(u) /\ StoreTypeOK(s)
  BY WithStatusGood DEF Good, StoreInv, LedgerInv
<1> QED
  BY <1>1, <1>3, <1>4, <1>5, FreedBudget

(* Neither does releasing one, active or not.                              *)
LEMMA ReleasedBudget ==
  ASSUME NEW s, StoreInv(s), NEW now, BudgetInv(s, now),
         NEW a \in DOMAIN s.reservations, NEW u, u = Released(s, a)
  PROVE  BudgetInv(u, now)
BY WithStatusBudget DEF Released

(* A denied request costs nothing.                                         *)
LEMMA DeniedBudget ==
  ASSUME NEW s, StoreInv(s), NEW w \in Wallets, NEW r \in Resources,
         NEW x \in Nat, NEW now \in Nat, BudgetInv(s, now),
         NEW u, u = AppendTransaction(s, DeniedEntry(w, r, x, now))
  PROVE  BudgetInv(u, now)
<1> DEFINE e == DeniedEntry(w, r, x, now)
<1>1. e \in Entry /\ ~e.covered /\ e.day = Day(now) /\ Day(now) \in Nat
  BY BoundAssumption DEF DeniedEntry, Entry, Kind, Day
<1>2. StoreTypeOK(s) /\ StoreTypeOK(u)
  BY DeniedGood DEF Good, StoreInv, LedgerInv
<1>3. u = AppendTransaction(s, e)
  OBVIOUS
<1> HIDE DEF e
<1>4. e.day <= Day(now)
  BY <1>1
<1> QED
  BY <1>1, <1>2, <1>3, <1>4, AppendBudget

(* Nor does a settlement recorded without an authorization.                *)
LEMMA RecordedOnceBudget ==
  ASSUME NEW s, StoreInv(s), NEW kind \in {"official", "browser"},
         NEW p \in Proof, Verified(p), NEW now \in Nat, BudgetInv(s, now),
         p.day <= Day(now), NEW u, u = RecordedOnce(s, kind, p, FALSE)
  PROVE  BudgetInv(u, now)
<1>1. CASE p.tx \in OfficialTxs(s)
  BY <1>1 DEF RecordedOnce
<1>2. CASE p.tx \notin OfficialTxs(s)
  <2> DEFINE e == OfficialEntry(kind, p, FALSE)
  <2>1. u = AppendTransaction(s, e)
    BY <1>2 DEF RecordedOnce
  <2>2. e \in Entry /\ ~e.covered /\ e.day = p.day
    BY DEF OfficialEntry, Entry, Kind, Proof
  <2>3. StoreTypeOK(s) /\ StoreTypeOK(u)
    BY RecordedOnceGood DEF Good, StoreInv, LedgerInv
  <2> HIDE DEF e
  <2> QED
    BY <2>1, <2>2, <2>3, AppendBudget
<1> QED
  BY <1>1, <1>2

(* A proof that matches an authorization is charged what was held for it:  *)
(* committing it costs nothing that was not pending, and when the budget   *)
(* was no longer held the entry is not covered.                            *)
LEMMA CommittedBudget ==
  ASSUME NEW s, StoreInv(s), NEW a \in DOMAIN s.reservations,
         s.reservations[a].status # "committed",
         NEW p \in Proof, Verified(p), Matches(s.reservations[a], p),
         NEW now \in Nat, BudgetInv(s, now), p.day <= Day(now),
         NEW u, u = Committed(s, a, p, now)
  PROVE  BudgetInv(u, now)
<1> DEFINE f == s.reservations
<1> DEFINE r == f[a]
<1> DEFINE g == [f EXCEPT ![a] = [r EXCEPT !.status = "committed", !.tx = p.tx]]
<1> DEFINE mid == [s EXCEPT !.reservations = g]
<1> DEFINE c == HoldsBudget(r, now)
<1> DEFINE e == OfficialEntry("official", p, c)
<1>0. mid = [s EXCEPT !.reservations = g]
  OBVIOUS
<1>1. u = RecordedOnce(mid, "official", p, c)
  BY DEF Committed, StoreInv, LedgerInv, StoreTypeOK
<1>2. /\ f \in [DOMAIN f -> Reservation] /\ DOMAIN f \subseteq AuthIds
      /\ r \in Reservation /\ p.tx \in TxIds /\ StoreTypeOK(s)
      /\ r.amount = p.amount /\ SameWallet(r.wallet, p.payer)
      /\ r.amount \in Nat
  BY DEF StoreInv, LedgerInv, StoreTypeOK, Proof, Matches, Reservation
<1>3. /\ g \in [DOMAIN f -> Reservation] /\ DOMAIN g = DOMAIN f
      /\ g[a].status = "committed"
      /\ \A b \in DOMAIN f \ {a} : g[b] = f[b]
  BY <1>2 DEF Reservation, Status
<1>4. /\ mid.reservations = g /\ mid.transactions = s.transactions
      /\ mid.receipts = s.receipts /\ mid.policies = s.policies
      /\ StoreTypeOK(mid)
  <2> HIDE DEF g, mid
  <2>1. /\ mid.reservations = g
        /\ mid.transactions = s.transactions /\ mid.forgotten = s.forgotten
        /\ mid.settledKeys = s.settledKeys /\ mid.policies = s.policies
        /\ mid.receipts = s.receipts /\ mid.minted = s.minted
        /\ mid.balances = s.balances
        /\ mid = [policies |-> mid.policies, balances |-> mid.balances,
              receipts |-> mid.receipts, transactions |-> mid.transactions,
              settledKeys |-> mid.settledKeys,
              reservations |-> mid.reservations,
              minted |-> mid.minted, forgotten |-> mid.forgotten]
    BY <1>0 DEF StoreInv, LedgerInv, StoreTypeOK
  <2> QED
    BY <1>2, <1>3, <2>1 DEF StoreTypeOK
<1> HIDE DEF g, mid
<1>5. c \in BOOLEAN
  BY DEF HoldsBudget
<1>6. e \in Entry /\ e.covered = c /\ e.day = p.day /\ e.wallet = p.payer
      /\ e.amount = p.amount
  BY <1>5 DEF OfficialEntry, Entry, Kind, Proof
<1>7. \A b \in DOMAIN f :
        HoldsBudget(g[b], now) =>
          /\ HoldsBudget(f[b], now)
          /\ SameWallet(g[b].wallet, f[b].wallet) /\ g[b].amount = f[b].amount
  BY <1>3 DEF HoldsBudget, SameWallet
<1>8. u = mid \/ u = AppendTransaction(mid, e)
  BY <1>1 DEF RecordedOnce
<1> HIDE DEF e, c
<1>9. /\ u.policies = s.policies /\ u.receipts = s.receipts
      /\ u.reservations = g /\ PastDays(u, now)
      /\ IsFiniteSet(DOMAIN u.reservations) /\ IsFiniteSet(DOMAIN f)
  <2>1. /\ u.policies = s.policies /\ u.receipts = s.receipts
        /\ u.reservations = g
        /\ \A i \in DOMAIN u.transactions :
             \/ u.transactions[i] = e
             \/ \E j \in DOMAIN s.transactions : u.transactions[i] = s.transactions[j]
    <3>1. CASE u = mid
      BY <3>1, <1>4
    <3>2. CASE u = AppendTransaction(mid, e)
      BY <3>2, <1>4, <1>6, AppendSpend
    <3> QED
      BY <3>1, <3>2, <1>8
  <2> QED
    BY <1>3, <1>6, <2>1 DEF BudgetInv, PastDays
<1>10. StoreTypeOK(u)
  BY CommittedGood DEF Good, StoreInv, LedgerInv
<1>11. Cheaper(s, u, now)
  <2> SUFFICES ASSUME NEW w \in Wallets
               PROVE  CoveredSpend(u, w, now) <= CoveredSpend(s, w, now)
    BY <1>9 DEF Cheaper
  <2> DEFINE R(x) == ReceiptSpend(x, w, Day(now))
  <2> DEFINE E(x) == EntrySpend(x, CoveredEntries(x, w, Day(now)))
  <2> DEFINE P(x) == PendingSpend(x, w, now)
  <2>1. /\ R(u) = R(s) /\ P(u) = P(mid) /\ E(mid) = E(s)
    BY <1>4, <1>9, SameParts
  <2>2. /\ R(s) \in Nat /\ E(s) \in Nat /\ P(s) \in Nat
        /\ R(u) \in Nat /\ E(u) \in Nat /\ P(u) \in Nat
    BY <1>2, <1>9, <1>10, SpendNat
  <2>3. /\ P(mid) <= P(s)
        /\ \A b \in Holding(s, w, now) \ Holding(mid, w, now) :
             P(mid) + f[b].amount <= P(s)
    <3>1. \A b \in DOMAIN s.reservations :
            HoldsBudget(mid.reservations[b], now) =>
              /\ HoldsBudget(s.reservations[b], now)
              /\ SameWallet(mid.reservations[b].wallet, s.reservations[b].wallet)
              /\ mid.reservations[b].amount = s.reservations[b].amount
      BY <1>4, <1>7
    <3>2. DOMAIN mid.reservations = DOMAIN s.reservations
      BY <1>3, <1>4
    <3> QED
      BY <3>1, <3>2, <1>2, <1>4, <1>9, PendingShrinks
  <2>4. E(u) <= E(s) + IF Counts(e, w, Day(now)) THEN e.amount ELSE 0
    <3>1. CASE u = mid
      BY <3>1, <2>1, <2>2, <1>2, <1>6
    <3>2. CASE u = AppendTransaction(mid, e)
      BY <3>2, <2>1, <1>4, <1>6, AppendSpend
    <3> QED
      BY <3>1, <3>2, <1>8
  <2>5. Counts(e, w, Day(now)) => a \in Holding(s, w, now) \ Holding(mid, w, now)
    <3>1. Counts(e, w, Day(now)) => c /\ SameWallet(r.wallet, w)
      BY <1>2, <1>6 DEF Counts, SameWallet
    <3>2. a \notin Holding(mid, w, now)
      BY <1>3, <1>4 DEF Holding, HoldsBudget
    <3> QED
      BY <3>1, <3>2 DEF Holding, c
  <2>6. /\ CoveredSpend(u, w, now) = R(u) + E(u) + P(u)
        /\ CoveredSpend(s, w, now) = R(s) + E(s) + P(s)
    BY DEF CoveredSpend
  <2> HIDE DEF R, E, P
  <2>7. CASE Counts(e, w, Day(now))
    <3>1. P(mid) + r.amount <= P(s)
      BY <2>3, <2>5, <2>7
    <3>2. E(u) <= E(s) + r.amount
      BY <2>4, <2>7, <1>2, <1>6
    <3> QED
      BY <3>1, <3>2, <2>1, <2>2, <2>6, <1>2
  <2>8. CASE ~Counts(e, w, Day(now))
    <3>1. E(u) <= E(s)
      BY <2>4, <2>8, <2>2
    <3> QED
      BY <3>1, <2>1, <2>2, <2>3, <2>6
  <2> QED
    BY <2>7, <2>8
<1> QED
  BY <1>2, <1>9, <1>10, <1>11, CheaperWithin DEF BudgetInv

(* The spellings of one wallet share its spending and its policy.          *)
LEMMA SameWalletSpend ==
  ASSUME NEW s, NEW v, NEW w, SameWallet(v, w), NEW now
  PROVE  /\ ReceiptSpend(s, v, Day(now)) = ReceiptSpend(s, w, Day(now))
         /\ CoveredEntries(s, v, Day(now)) = CoveredEntries(s, w, Day(now))
         /\ PendingSpend(s, v, now) = PendingSpend(s, w, now)
         /\ PolicyOf(s, v) = PolicyOf(s, w)
<1>1. \A x : SameWallet(x, v) <=> SameWallet(x, w)
  BY DEF SameWallet
<1>2. ReceiptsOf(s, v, Day(now)) = ReceiptsOf(s, w, Day(now))
  BY <1>1 DEF ReceiptsOf
<1>3. Holding(s, v, now) = Holding(s, w, now)
  BY <1>1 DEF Holding
<1>4. CoveredEntries(s, v, Day(now)) = CoveredEntries(s, w, Day(now))
  BY <1>1 DEF CoveredEntries, OfficialEntries
<1>5. PolicyOf(s, v) = PolicyOf(s, w)
  BY DEF SameWallet, PolicyOf
<1> QED
  BY <1>2, <1>3, <1>4, <1>5
     DEF ReceiptSpend, ReceiptsOf, PendingSpend, Holding

(* What the policy allows leaves room for every covered charge.            *)
LEMMA AllowedRoom ==
  ASSUME NEW s, StoreTypeOK(s), IsFiniteSet(DOMAIN s.reservations),
         NEW w \in Wallets, NEW r, NEW x \in Nat, NEW now,
         Allowed(s, w, r, x, now), NEW v \in Wallets, SameWallet(v, w)
  PROVE  CoveredSpend(s, v, now) + x <= PolicyOf(s, v).dailyLimit
<1> DEFINE R == ReceiptSpend(s, w, Day(now))
<1> DEFINE O == EntrySpend(s, OfficialEntries(s, w, Day(now)))
<1> DEFINE E == EntrySpend(s, CoveredEntries(s, w, Day(now)))
<1> DEFINE P == PendingSpend(s, w, now)
<1>1. R + O + P + x <= PolicyOf(s, w).dailyLimit
  BY DEF Allowed, DailySpend
<1>2. R \in Nat /\ O \in Nat /\ E \in Nat /\ P \in Nat /\ E <= O
  BY SpendNat
<1>3. PolicyOf(s, w).dailyLimit \in Nat
  BY PolicyType
<1>4. CoveredSpend(s, v, now) = R + E + P /\ PolicyOf(s, v) = PolicyOf(s, w)
  BY SameWalletSpend DEF CoveredSpend
<1> HIDE DEF R, O, E, P
<1> QED
  BY <1>1, <1>2, <1>3, <1>4

(* An authorization is granted within the budget that is left.             *)
LEMMA ReservedBudget ==
  ASSUME NEW s, StoreInv(s), NEW a \in AuthIds \ DOMAIN s.reservations,
         NEW w \in Wallets, NEW r \in Resources, NEW x \in Nat,
         NEW now \in Nat, BudgetInv(s, now), Allowed(s, w, r, x, now),
         NEW u, u = Reserved(s, a, w, r, x, now)
  PROVE  BudgetInv(u, now)
<1> DEFINE new == [wallet |-> w, resource |-> r, amount |-> x,
                   status |-> "active", expires |-> now + TTL, tx |-> NoTx]
<1> DEFINE f == s.reservations
<1> DEFINE g == Put(f, a, new)
<1>1. /\ u.reservations = g /\ u.policies = s.policies
      /\ u.receipts = s.receipts /\ u.transactions = s.transactions
  BY DEF Reserved, StoreInv, LedgerInv, StoreTypeOK
<1>2. /\ DOMAIN g = DOMAIN f \cup {a} /\ a \notin DOMAIN f
      /\ \A b \in DOMAIN f : g[b] = f[b]
      /\ g[a].amount = x /\ g[a].wallet = w
  BY DEF Put
<1> HIDE DEF g
<1>3. StoreTypeOK(s) /\ StoreTypeOK(u)
  BY ReservedGood DEF Good, StoreInv, LedgerInv
<1>4. /\ IsFiniteSet(DOMAIN f) /\ IsFiniteSet(DOMAIN u.reservations)
      /\ PastDays(u, now)
  <2>1. IsFiniteSet(DOMAIN f) /\ IsFiniteSet(DOMAIN f \cup {a})
    BY FS_AddElement DEF BudgetInv
  <2> QED
    BY <1>1, <1>2, <2>1 DEF BudgetInv, PastDays
<1>5. ASSUME NEW v \in Wallets
      PROVE  CoveredSpend(u, v, now) <= PolicyOf(u, v).dailyLimit
  <2> DEFINE R(y) == ReceiptSpend(y, v, Day(now))
  <2> DEFINE E(y) == EntrySpend(y, CoveredEntries(y, v, Day(now)))
  <2> DEFINE P(y) == PendingSpend(y, v, now)
  <2> DEFINE H == Holding(s, v, now)
  <2>1. R(u) = R(s) /\ E(u) = E(s) /\ PolicyOf(u, v) = PolicyOf(s, v)
    BY <1>1, SameParts DEF PolicyOf
  <2>2. R(s) \in Nat /\ E(s) \in Nat /\ P(s) \in Nat
    BY <1>3, <1>4, SpendNat
  <2>3. PolicyOf(s, v).dailyLimit \in Nat
    BY <1>3, PolicyType
  <2>4. /\ CoveredSpend(u, v, now) = R(u) + E(u) + P(u)
        /\ CoveredSpend(s, v, now) = R(s) + E(s) + P(s)
        /\ CoveredSpend(s, v, now) <= PolicyOf(s, v).dailyLimit
    BY DEF CoveredSpend, BudgetInv, WithinBudget
  <2>5. /\ P(s) = Total(AmountsOf(f), H) /\ IsFiniteSet(H)
        /\ \A b \in DOMAIN f : AmountsOf(f)[b] \in Nat
        /\ P(u) = Total(AmountsOf(g), Holding(u, v, now))
    <3>1. /\ P(s) = Total(AmountsOf(s.reservations), H) /\ IsFiniteSet(H)
          /\ \A b \in DOMAIN s.reservations : AmountsOf(s.reservations)[b] \in Nat
      BY <1>3, <1>4, SpendType
    <3>2. P(u) = Total(AmountsOf(u.reservations), Holding(u, v, now))
      BY <1>3, <1>4, SpendType
    <3> QED
      BY <1>1, <3>1, <3>2
  <2>6. H \subseteq DOMAIN f /\ a \notin H
    BY <1>2 DEF Holding
  <2>7. /\ \A b \in H : AmountsOf(g)[b] = AmountsOf(f)[b]
        /\ AmountsOf(g)[a] = x
    BY <1>2, <2>6 DEF AmountsOf
  <2>8. Total(AmountsOf(g), H) = P(s)
    <3>1. Total(AmountsOf(g), H) = Total(AmountsOf(f), H)
      BY <2>7, TotalSame
    <3> QED
      BY <3>1, <2>5
  <2>9. \A b \in H : AmountsOf(g)[b] \in Nat
    BY <2>5, <2>6, <2>7
  <2>10. CASE SameWallet(v, w)
    <3>1. Holding(u, v, now) \subseteq H \cup {a}
      BY <1>1, <1>2 DEF Holding
    <3>2. Total(AmountsOf(g), H \cup {a}) = Total(AmountsOf(g), H) + x
      BY <2>5, <2>6, <2>7, <2>9, TotalAdd
    <3>3. Total(AmountsOf(g), Holding(u, v, now)) <= Total(AmountsOf(g), H \cup {a})
      <4>1. IsFiniteSet(H \cup {a})
        BY <2>5, FS_AddElement
      <4>2. \A b \in H \cup {a} : AmountsOf(g)[b] \in Nat
        BY <2>7, <2>9
      <4> QED
        BY <3>1, <4>1, <4>2, TotalSubset
    <3>4. P(u) <= P(s) + x
      BY <2>5, <2>8, <3>2, <3>3
    <3>5. P(u) \in Nat
      BY <1>3, <1>4, SpendNat
    <3>6. CoveredSpend(s, v, now) + x <= PolicyOf(s, v).dailyLimit
      BY <1>3, <1>4, <2>10, AllowedRoom
    <3> HIDE DEF R, E, P
    <3> QED
      BY <2>1, <2>2, <2>3, <2>4, <3>4, <3>5, <3>6
  <2>11. CASE ~SameWallet(v, w)
    <3>1. Holding(u, v, now) = H
      BY <1>1, <1>2, <2>11 DEF Holding, SameWallet
    <3>2. P(u) = P(s)
      BY <2>5, <2>8, <3>1
    <3> HIDE DEF R, E, P
    <3> QED
      BY <2>1, <2>4, <3>2
  <2> QED
    BY <2>10, <2>11
<1> QED
  BY <1>4, <1>5 DEF BudgetInv, WithinBudget

(* A sandbox payment is charged within the budget that is left.            *)
LEMMA SettledBudget ==
  ASSUME NEW s, StoreInv(s), NEW k \in Keys, NEW now \in Nat,
         BudgetInv(s, now), CanPay(s, k, now), NEW u, u = Settled(s, k, now)
  PROVE  BudgetInv(u, now)
<1> DEFINE b == BalanceOf(s, k.wallet)
<1> DEFINE receipt == [key |-> k, wallet |-> k.wallet, amount |-> k.price,
                       day |-> Day(now)]
<1> DEFINE e == [kind |-> "sandbox", tx |-> NoTx, wallet |-> k.wallet,
                 resource |-> k.resource, amount |-> k.price, day |-> Day(now),
                 covered |-> FALSE]
<1> DEFINE paid == [s EXCEPT
        !.balances = Put(@, k.wallet, [eth  |-> b.eth - GasCost,
                                       usdc |-> b.usdc - k.price]),
        !.receipts = Prepend(@, receipt, ReceiptCap),
        !.settledKeys = @ \cup {k}]
<1>1. /\ k.wallet \in Wallets /\ k.resource \in Resources /\ k.price \in Nat
      /\ Day(now) \in Nat
  BY KeyAssumption, BoundAssumption DEF Day
<1>2. /\ receipt \in Receipt /\ e \in Entry /\ e.day = Day(now) /\ ~e.covered
      /\ receipt.day = Day(now) /\ receipt.amount = k.price
      /\ receipt.wallet = k.wallet
  BY <1>1 DEF Receipt, Entry, Kind
<1>3. u = AppendTransaction(paid, e)
  BY DEF Settled
<1>4. paid = [s EXCEPT
        !.balances = Put(@, k.wallet, [eth  |-> b.eth - GasCost,
                                       usdc |-> b.usdc - k.price]),
        !.receipts = Prepend(@, receipt, ReceiptCap),
        !.settledKeys = @ \cup {k}]
  OBVIOUS
<1> HIDE DEF paid, e, receipt, b
<1>5. /\ paid.reservations = s.reservations
      /\ paid.transactions = s.transactions /\ paid.forgotten = s.forgotten
      /\ paid.settledKeys = s.settledKeys \cup {k}
      /\ paid.policies = s.policies /\ paid.minted = s.minted
      /\ paid.receipts = Prepend(s.receipts, receipt, ReceiptCap)
      /\ paid = [policies |-> paid.policies, balances |-> paid.balances,
              receipts |-> paid.receipts, transactions |-> paid.transactions,
              settledKeys |-> paid.settledKeys,
              reservations |-> paid.reservations,
              minted |-> paid.minted, forgotten |-> paid.forgotten]
  BY <1>4 DEF StoreInv, LedgerInv, StoreTypeOK
<1>6. StoreTypeOK(s) /\ StoreTypeOK(paid) /\ StoreTypeOK(u)
  <2>1. paid.receipts \in Seq(Receipt) /\ Len(paid.receipts) <= ReceiptCap
    BY <1>2, <1>5, PrependType, BoundAssumption DEF StoreInv, LedgerInv, StoreTypeOK
  <2>2. StoreTypeOK(paid)
    BY <1>5, <2>1 DEF StoreInv, LedgerInv, StoreTypeOK
  <2> QED
    BY <2>2, SettledGood DEF Good, StoreInv, LedgerInv
<1>7. /\ u.policies = s.policies /\ u.receipts = paid.receipts
      /\ u.reservations = s.reservations
      /\ \A i \in DOMAIN u.transactions :
           \/ u.transactions[i] = e
           \/ \E j \in DOMAIN s.transactions : u.transactions[i] = s.transactions[j]
  BY <1>2, <1>3, <1>5, <1>6, AppendSpend
<1> DEFINE old == s.receipts
<1> DEFINE new == paid.receipts
<1>8. /\ old \in Seq(Receipt) /\ Len(old) <= ReceiptCap /\ Len(old) \in Nat
      /\ DOMAIN old = 1 .. Len(old) /\ ReceiptCap \in Nat \ {0}
      /\ \A y \in Receipt : y.amount \in Nat
  BY BoundAssumption, LenProperties DEF StoreInv, LedgerInv, StoreTypeOK, Receipt
<1>9. new = Prepend(old, receipt, ReceiptCap)
  BY <1>5
<1> HIDE DEF old, new
<1>10. /\ DOMAIN new = 1 .. (IF Len(old) < ReceiptCap THEN Len(old) + 1
                                                     ELSE ReceiptCap)
       /\ \A i \in DOMAIN new : new[i] = IF i = 1 THEN receipt ELSE old[i - 1]
  <2>1. /\ DOMAIN Prepend(old, receipt, ReceiptCap) =
             1 .. (IF Len(old) < ReceiptCap THEN Len(old) + 1 ELSE ReceiptCap)
        /\ \A i \in DOMAIN Prepend(old, receipt, ReceiptCap) :
             Prepend(old, receipt, ReceiptCap)[i] = IF i = 1 THEN receipt ELSE old[i - 1]
    BY <1>2, <1>8, PrependType
  <2> QED
    BY <1>9, <2>1
<1>11. \A i \in DOMAIN new : i # 1 => i - 1 \in DOMAIN old
  BY <1>8, <1>10
<1>12. PastDays(u, now) /\ IsFiniteSet(DOMAIN u.reservations)
  <2>1. \A i \in DOMAIN u.receipts : u.receipts[i].day <= Day(now)
    BY <1>1, <1>2, <1>7, <1>10, <1>11 DEF BudgetInv, PastDays, old, new
  <2>2. \A i \in DOMAIN u.transactions : u.transactions[i].day <= Day(now)
    BY <1>1, <1>2, <1>7 DEF BudgetInv, PastDays
  <2> QED
    BY <1>7, <2>1, <2>2 DEF BudgetInv, PastDays
<1>13. ASSUME NEW v \in Wallets
       PROVE  CoveredSpend(u, v, now) <= PolicyOf(u, v).dailyLimit
  <2> DEFINE R(y) == ReceiptSpend(y, v, Day(now))
  <2> DEFINE E(y) == EntrySpend(y, CoveredEntries(y, v, Day(now)))
  <2> DEFINE P(y) == PendingSpend(y, v, now)
  <2> DEFINE X == ReceiptsOf(s, v, Day(now))
  <2> DEFINE Y == ReceiptsOf(u, v, Day(now))
  <2>1. P(u) = P(s) /\ E(paid) = E(s) /\ PolicyOf(u, v) = PolicyOf(s, v)
    BY <1>5, <1>7, SameParts DEF PolicyOf
  <2>2. /\ R(s) \in Nat /\ E(s) \in Nat /\ P(s) \in Nat
        /\ R(u) \in Nat /\ E(u) \in Nat
    BY <1>6, <1>12, SpendNat DEF BudgetInv
  <2>3. PolicyOf(s, v).dailyLimit \in Nat
    BY <1>6, PolicyType
  <2>4. /\ CoveredSpend(u, v, now) = R(u) + E(u) + P(u)
        /\ CoveredSpend(s, v, now) = R(s) + E(s) + P(s)
        /\ CoveredSpend(s, v, now) <= PolicyOf(s, v).dailyLimit
    BY DEF CoveredSpend, BudgetInv, WithinBudget
  <2>5. E(u) <= E(s)
    <3>1. ~Counts(e, v, Day(now))
      BY <1>2 DEF Counts
    <3>2. E(u) <= E(paid) + IF Counts(e, v, Day(now)) THEN e.amount ELSE 0
      BY <1>2, <1>3, <1>6, AppendSpend
    <3> QED
      BY <3>1, <3>2, <2>1, <2>2
  <2>6. R(u) <= R(s) + IF 1 \in Y THEN k.price ELSE 0
    <3>1. /\ \A i : i \in X <=> /\ i \in DOMAIN old
                               /\ SameWallet(old[i].wallet, v)
                               /\ old[i].day = Day(now)
          /\ \A i : i \in Y <=> /\ i \in DOMAIN new
                               /\ SameWallet(new[i].wallet, v)
                               /\ new[i].day = Day(now)
      BY <1>7 DEF ReceiptsOf, old, new
    <3> HIDE DEF X, Y
    <3>2. X \in SUBSET (DOMAIN old) /\ Y \in SUBSET (DOMAIN new)
      BY <3>1
    <3>3. \A i \in Y : i # 1 => i - 1 \in X
      BY <3>1, <1>10, <1>11
    <3>4. Total(AmountsOf(new), Y) <= Total(AmountsOf(old), X)
                                       + IF 1 \in Y THEN receipt.amount ELSE 0
      BY <1>2, <1>8, <1>9, <3>2, <3>3, PrependTotal
    <3>5. R(s) = Total(AmountsOf(old), X) /\ R(u) = Total(AmountsOf(new), Y)
      BY <1>7 DEF ReceiptSpend, ReceiptsOf, X, Y, old, new
    <3> QED
      BY <3>4, <3>5, <1>2
  <2>7. 1 \in Y => SameWallet(v, k.wallet)
    <3>1. 1 \in DOMAIN new /\ new[1] = receipt
      BY <1>8, <1>10
    <3> QED
      BY <3>1, <1>2, <1>7 DEF ReceiptsOf, SameWallet, old, new
  <2>8. CASE 1 \in Y
    <3>1. CoveredSpend(s, v, now) + k.price <= PolicyOf(s, v).dailyLimit
      BY <1>1, <1>6, <2>7, <2>8, AllowedRoom DEF CanPay, BudgetInv
    <3>2. R(u) <= R(s) + k.price
      BY <2>6, <2>8
    <3> HIDE DEF R, E, P, X, Y
    <3> QED
      BY <1>1, <2>1, <2>2, <2>3, <2>4, <2>5, <3>1, <3>2
  <2>9. CASE 1 \notin Y
    <3>1. R(u) <= R(s)
      BY <2>2, <2>6, <2>9
    <3> HIDE DEF R, E, P, X, Y
    <3> QED
      BY <2>1, <2>2, <2>3, <2>4, <2>5, <3>1
  <2> QED
    BY <2>8, <2>9
<1> QED
  BY <1>12, <1>13 DEF BudgetInv, WithinBudget

(* A policy that lowers no limit keeps the budget.                         *)
LEMMA WithPolicyBudget ==
  ASSUME NEW s, StoreInv(s), NEW now, BudgetInv(s, now), NEW w \in Wallets,
         NEW policy \in Policy, NEW u, u = WithPolicy(s, w, policy),
         \A v \in Wallets : PolicyOf(s, v).dailyLimit <= PolicyOf(u, v).dailyLimit
  PROVE  BudgetInv(u, now)
<1>1. /\ u.reservations = s.reservations
      /\ u.transactions = s.transactions /\ u.receipts = s.receipts
  BY DEF WithPolicy, StoreInv, LedgerInv, StoreTypeOK
<1>2. StoreTypeOK(s) /\ StoreTypeOK(u)
  BY WithPolicyGood DEF Good, StoreInv, LedgerInv
<1>3. PastDays(u, now) /\ IsFiniteSet(DOMAIN u.reservations)
  BY <1>1 DEF BudgetInv, PastDays
<1>4. ASSUME NEW v \in Wallets
      PROVE  CoveredSpend(u, v, now) <= PolicyOf(u, v).dailyLimit
  <2>1. CoveredSpend(u, v, now) = CoveredSpend(s, v, now)
    BY <1>1, SameParts DEF CoveredSpend
  <2>2. CoveredSpend(s, v, now) \in Nat
    BY <1>2, SpendNat DEF BudgetInv
  <2>3. PolicyOf(s, v).dailyLimit \in Nat /\ PolicyOf(u, v).dailyLimit \in Nat
    BY <1>2, PolicyType
  <2> QED
    BY <2>1, <2>2, <2>3 DEF BudgetInv, WithinBudget
<1> QED
  BY <1>3, <1>4 DEF BudgetInv, WithinBudget

(* A faucet grant costs nothing.                                           *)
LEMMA MintedBudget ==
  ASSUME NEW s, StoreInv(s), NEW now, BudgetInv(s, now), NEW w \in Wallets,
         NEW eth \in Nat, NEW usdc \in Nat, NEW u, u = Minted(s, w, eth, usdc)
  PROVE  BudgetInv(u, now)
<1>1. /\ u.reservations = s.reservations /\ u.policies = s.policies
      /\ u.transactions = s.transactions /\ u.receipts = s.receipts
  BY DEF Minted, StoreInv, LedgerInv, StoreTypeOK
<1>2. StoreTypeOK(s) /\ StoreTypeOK(u)
  BY MintedGood DEF Good, StoreInv, LedgerInv
<1> QED
  BY <1>1, <1>2, FreedBudget

(* The canonical name of a wallet is a name of that wallet.                *)
LEMMA CanonicalWallet ==
  ASSUME NEW v \in Wallets
  PROVE  \A w : SameWallet(WalletKey[v], w) <=> SameWallet(v, w)
BY WalletAssumption DEF SameWallet

(* Canonical wallet names change nothing that counts.                      *)
LEMMA NormalizedBudget ==
  ASSUME NEW s, StoreInv(s), NEW now, BudgetInv(s, now),
         NEW u, u = Normalized(s)
  PROVE  BudgetInv(u, now)
<1> DEFINE Canonical(x) == [x EXCEPT !.wallet = WalletKey[x.wallet]]
<1> DEFINE ts == [i \in DOMAIN s.transactions |-> Canonical(s.transactions[i])]
<1> DEFINE rs == [i \in DOMAIN s.receipts |-> Canonical(s.receipts[i])]
<1> DEFINE g == [a \in DOMAIN s.reservations |-> Canonical(s.reservations[a])]
<1>1. /\ u.transactions = ts /\ u.receipts = rs /\ u.reservations = g
      /\ u.policies = s.policies
  BY DEF Normalized, StoreInv, LedgerInv, StoreTypeOK
<1>2. /\ \A i \in DOMAIN s.transactions : s.transactions[i] \in Entry
      /\ \A i \in DOMAIN s.receipts : s.receipts[i] \in Receipt
      /\ \A a \in DOMAIN s.reservations : s.reservations[a] \in Reservation
  BY LenProperties, ElementOfSeq DEF StoreInv, LedgerInv, StoreTypeOK
<1>3. \A i \in DOMAIN s.transactions :
        /\ ts[i].day = s.transactions[i].day /\ ts[i].kind = s.transactions[i].kind
        /\ ts[i].amount = s.transactions[i].amount
        /\ ts[i].covered = s.transactions[i].covered
        /\ \A w : SameWallet(ts[i].wallet, w) <=> SameWallet(s.transactions[i].wallet, w)
  <2> SUFFICES ASSUME NEW i \in DOMAIN s.transactions
               PROVE  /\ ts[i].day = s.transactions[i].day
                      /\ ts[i].kind = s.transactions[i].kind
                      /\ ts[i].amount = s.transactions[i].amount
                      /\ ts[i].covered = s.transactions[i].covered
                      /\ \A w : SameWallet(ts[i].wallet, w) <=> SameWallet(s.transactions[i].wallet, w)
    OBVIOUS
  <2>1. ts[i] = Canonical(s.transactions[i]) /\ s.transactions[i] \in Entry
    BY <1>2
  <2> HIDE DEF ts
  <2>2. /\ ts[i].day = s.transactions[i].day
        /\ ts[i].kind = s.transactions[i].kind
        /\ ts[i].amount = s.transactions[i].amount
        /\ ts[i].covered = s.transactions[i].covered
        /\ ts[i].wallet = WalletKey[s.transactions[i].wallet]
        /\ s.transactions[i].wallet \in Wallets
    BY <2>1 DEF Entry
  <2> QED
    BY <2>2, CanonicalWallet
<1>4. \A i \in DOMAIN s.receipts :
        /\ rs[i].day = s.receipts[i].day /\ rs[i].amount = s.receipts[i].amount
        /\ \A w : SameWallet(rs[i].wallet, w) <=> SameWallet(s.receipts[i].wallet, w)
  <2> SUFFICES ASSUME NEW i \in DOMAIN s.receipts
               PROVE  /\ rs[i].day = s.receipts[i].day
                      /\ rs[i].amount = s.receipts[i].amount
                      /\ \A w : SameWallet(rs[i].wallet, w) <=> SameWallet(s.receipts[i].wallet, w)
    OBVIOUS
  <2>1. rs[i] = Canonical(s.receipts[i]) /\ s.receipts[i] \in Receipt
    BY <1>2
  <2> HIDE DEF rs
  <2>2. /\ rs[i].day = s.receipts[i].day
        /\ rs[i].amount = s.receipts[i].amount
        /\ rs[i].wallet = WalletKey[s.receipts[i].wallet]
        /\ s.receipts[i].wallet \in Wallets
    BY <2>1 DEF Receipt
  <2> QED
    BY <2>2, CanonicalWallet
<1>5. \A a \in DOMAIN s.reservations :
        /\ g[a].status = s.reservations[a].status
        /\ g[a].expires = s.reservations[a].expires
        /\ g[a].amount = s.reservations[a].amount
        /\ \A w : SameWallet(g[a].wallet, w) <=> SameWallet(s.reservations[a].wallet, w)
  <2> SUFFICES ASSUME NEW a \in DOMAIN s.reservations
               PROVE  /\ g[a].status = s.reservations[a].status
                      /\ g[a].expires = s.reservations[a].expires
                      /\ g[a].amount = s.reservations[a].amount
                      /\ \A w : SameWallet(g[a].wallet, w) <=> SameWallet(s.reservations[a].wallet, w)
    OBVIOUS
  <2>1. g[a] = Canonical(s.reservations[a]) /\ s.reservations[a] \in Reservation
    BY <1>2
  <2> HIDE DEF g
  <2>2. /\ g[a].status = s.reservations[a].status
        /\ g[a].expires = s.reservations[a].expires
        /\ g[a].amount = s.reservations[a].amount
        /\ g[a].wallet = WalletKey[s.reservations[a].wallet]
        /\ s.reservations[a].wallet \in Wallets
    BY <2>1 DEF Reservation
  <2> QED
    BY <2>2, CanonicalWallet
<1>6. /\ DOMAIN ts = DOMAIN s.transactions /\ DOMAIN rs = DOMAIN s.receipts
      /\ DOMAIN g = DOMAIN s.reservations
  OBVIOUS
<1> HIDE DEF ts, rs, g
<1>7. /\ AmountsOf(rs) = AmountsOf(s.receipts)
      /\ AmountsOf(ts) = AmountsOf(s.transactions)
      /\ AmountsOf(g) = AmountsOf(s.reservations)
  BY <1>3, <1>4, <1>5, <1>6 DEF AmountsOf
<1>8. ASSUME NEW w \in Wallets
      PROVE  CoveredSpend(u, w, now) = CoveredSpend(s, w, now)
  <2>1. ReceiptsOf(u, w, Day(now)) = ReceiptsOf(s, w, Day(now))
    BY <1>1, <1>4, <1>6 DEF ReceiptsOf
  <2>2. Holding(u, w, now) = Holding(s, w, now)
    BY <1>1, <1>5, <1>6 DEF Holding, HoldsBudget
  <2>3. CoveredEntries(u, w, Day(now)) = CoveredEntries(s, w, Day(now))
    BY <1>1, <1>3, <1>6 DEF CoveredEntries, OfficialEntries, Official
  <2>4. ReceiptSpend(u, w, Day(now)) = ReceiptSpend(s, w, Day(now))
    BY <1>1, <1>7, <2>1 DEF ReceiptSpend, ReceiptsOf
  <2>5. PendingSpend(u, w, now) = PendingSpend(s, w, now)
    BY <1>1, <1>7, <2>2 DEF PendingSpend, Holding
  <2>6. EntrySpend(u, CoveredEntries(u, w, Day(now)))
          = EntrySpend(s, CoveredEntries(s, w, Day(now)))
    BY <1>1, <1>7, <2>3 DEF EntrySpend
  <2> QED
    BY <2>4, <2>5, <2>6 DEF CoveredSpend
<1>9. PastDays(u, now) /\ IsFiniteSet(DOMAIN u.reservations)
  BY <1>1, <1>3, <1>4, <1>6 DEF BudgetInv, PastDays
<1>10. \A w \in Wallets : PolicyOf(u, w) = PolicyOf(s, w)
  BY <1>1 DEF PolicyOf
<1> QED
  BY <1>8, <1>9, <1>10 DEF BudgetInv, WithinBudget

(* A later tick is of the same day or of a later one.                      *)
LEMMA LaterDay ==
  ASSUME NEW now \in Nat
  PROVE  Day(now) \in Nat /\ Day(now + 1) \in Nat /\ Day(now) <= Day(now + 1)
<1>1. DayLength \in Nat \ {0}
  BY BoundAssumption
<1> QED
  BY <1>1 DEF Day

(* Time alone exceeds no limit: reservations lapse, and a new day starts   *)
(* with nothing spent, for nothing is dated after the day before.          *)
LEMMA LaterBudget ==
  ASSUME NEW s, StoreTypeOK(s), NEW now \in Nat, BudgetInv(s, now)
  PROVE  BudgetInv(s, now + 1)
<1> DEFINE later == now + 1
<1>1. /\ Day(now) \in Nat /\ Day(later) \in Nat /\ Day(now) <= Day(later)
  BY LaterDay
<1>2. /\ \A i \in DOMAIN s.receipts : s.receipts[i].day \in Nat
      /\ \A i \in DOMAIN s.transactions : s.transactions[i].day \in Nat
      /\ \A a \in DOMAIN s.reservations : s.reservations[a].expires \in Nat
  <2>1. /\ \A i \in DOMAIN s.transactions : s.transactions[i] \in Entry
        /\ \A i \in DOMAIN s.receipts : s.receipts[i] \in Receipt
        /\ \A a \in DOMAIN s.reservations : s.reservations[a] \in Reservation
    BY LenProperties, ElementOfSeq DEF StoreTypeOK
  <2> QED
    BY <2>1 DEF Entry, Receipt, Reservation
<1>3. PastDays(s, later) /\ IsFiniteSet(DOMAIN s.reservations)
  BY <1>1, <1>2 DEF BudgetInv, PastDays
<1>4. ASSUME NEW w \in Wallets
      PROVE  CoveredSpend(s, w, later) <= PolicyOf(s, w).dailyLimit
  <2> DEFINE R(t) == ReceiptSpend(s, w, Day(t))
  <2> DEFINE E(t) == EntrySpend(s, CoveredEntries(s, w, Day(t)))
  <2> DEFINE P(t) == PendingSpend(s, w, t)
  <2>1. /\ R(now) \in Nat /\ E(now) \in Nat /\ P(now) \in Nat
        /\ R(later) \in Nat /\ E(later) \in Nat /\ P(later) \in Nat
    BY <1>3, SpendNat
  <2>2. PolicyOf(s, w).dailyLimit \in Nat
    BY PolicyType
  <2>3. P(later) <= P(now)
    <3>1. \A a \in DOMAIN s.reservations :
            HoldsBudget(s.reservations[a], later) =>
              /\ HoldsBudget(s.reservations[a], now)
              /\ SameWallet(s.reservations[a].wallet, s.reservations[a].wallet)
              /\ s.reservations[a].amount = s.reservations[a].amount
      BY <1>2 DEF HoldsBudget, SameWallet
    <3> QED
      BY <3>1, <1>3, PendingShrinks
  <2>4. R(later) <= R(now) /\ E(later) <= E(now)
    <3>1. CASE Day(later) = Day(now)
      BY <3>1, <2>1
    <3>2. CASE Day(later) # Day(now)
      <4>1. Day(now) < Day(later)
        BY <1>1, <3>2
      <4>2. ReceiptsOf(s, w, Day(later)) = {} /\ CoveredEntries(s, w, Day(later)) = {}
        BY <1>1, <1>2, <4>1
           DEF BudgetInv, PastDays, ReceiptsOf, CoveredEntries, OfficialEntries
      <4>3. R(later) = 0 /\ E(later) = 0
        BY <4>2, TotalEmpty DEF ReceiptSpend, ReceiptsOf, EntrySpend
      <4> QED
        BY <4>3, <2>1
    <3> QED
      BY <3>1, <3>2
  <2>5. /\ CoveredSpend(s, w, later) = R(later) + E(later) + P(later)
        /\ CoveredSpend(s, w, now) = R(now) + E(now) + P(now)
        /\ CoveredSpend(s, w, now) <= PolicyOf(s, w).dailyLimit
    BY DEF CoveredSpend, BudgetInv, WithinBudget
  <2> HIDE DEF R, E, P
  <2> QED
    BY <2>1, <2>2, <2>3, <2>4, <2>5
<1> QED
  BY <1>3, <1>4 DEF BudgetInv, WithinBudget

(***************************************************************************)
(* The money: how each update changes what a wallet holds, has spent and   *)
(* was given.                                                              *)
(***************************************************************************)

BalancesOK(s) ==
  /\ s.balances \in [DOMAIN s.balances -> [eth: Nat, usdc: Nat]]
  /\ DOMAIN s.balances \subseteq Wallets /\ IsFiniteSet(DOMAIN s.balances)

(* A spelling that walletKey() does not keep never holds more than the     *)
(* faucet gave it: what is merged goes to the spelling it keeps.           *)
SpellingsOK(s) ==
  \A v \in DOMAIN s.balances : v # WalletKey[v] => s.balances[v].usdc <= s.minted[v]

(* The spellings the faucet was asked for.                                 *)
Funded(s) == {v \in Wallets : s.minted[v] > 0}

MoneyInv(s) ==
  /\ BalancesOK(s)
  /\ IsFiniteSet(s.settledKeys)
  /\ IsFiniteSet(Funded(s))
  /\ SpellingsOK(s)
  /\ Conserved(s)

(* The three sums of a wallet are natural numbers.                         *)
LEMMA MoneyNat ==
  ASSUME NEW s, StoreTypeOK(s), BalancesOK(s), IsFiniteSet(s.settledKeys),
         IsFiniteSet(Funded(s)), NEW w
  PROVE  Held(s, w) \in Nat /\ SettledFor(s, w) \in Nat /\ Given(s, w) \in Nat
<1>1. Held(s, w) \in Nat
  <2> DEFINE S == {v \in DOMAIN s.balances : SameWallet(v, w)}
  <2>1. IsFiniteSet(S)
    BY FS_Subset DEF BalancesOK
  <2>2. \A v \in S : UsdcOf(s.balances)[v] \in Nat
    BY DEF BalancesOK, UsdcOf
  <2> QED
    BY <2>1, <2>2, TotalType DEF Held
<1>2. SettledFor(s, w) \in Nat
  <2> DEFINE S == {k \in s.settledKeys : SameWallet(k.wallet, w)}
  <2>1. IsFiniteSet(S)
    BY FS_Subset
  <2>2. \A k \in S : PricesOf(s.settledKeys)[k] \in Nat
    BY KeyAssumption DEF StoreTypeOK, PricesOf
  <2> QED
    BY <2>1, <2>2, TotalType DEF SettledFor
<1>3. Given(s, w) \in Nat
  <2> DEFINE S == {v \in Wallets : SameWallet(v, w)}
  <2> DEFINE T == {v \in S : s.minted[v] > 0}
  <2>1. IsFiniteSet(T)
    <3>1. T \in SUBSET Funded(s)
      BY DEF Funded
    <3> QED
      BY <3>1, FS_Subset
  <2>2. \A v \in S : s.minted[v] \in Nat
    BY DEF StoreTypeOK
  <2>3. T \in SUBSET S /\ \A v \in S \ T : s.minted[v] = 0
    BY <2>2
  <2>4. Given(s, w) = Total(s.minted, S)
    BY DEF Given
  <2> HIDE DEF S, T
  <2>5. Total(s.minted, S) = Total(s.minted, T)
    BY <2>2, <2>3, TotalSupport
  <2> QED
    BY <2>1, <2>2, <2>3, <2>4, <2>5, TotalType
<1> QED
  BY <1>1, <1>2, <1>3

(* Writing a balance changes what its wallet holds by the difference.      *)
LEMMA PutHeld ==
  ASSUME NEW s, BalancesOK(s), NEW w \in Wallets,
         NEW b \in [eth: Nat, usdc: Nat],
         NEW u, u.balances = Put(s.balances, w, b), NEW v
  PROVE  /\ BalancesOK(u)
         /\ BalanceOf(s, w) \in [eth: Nat, usdc: Nat]
         /\ Held(s, v) \in Nat /\ Held(u, v) \in Nat
         /\ IF SameWallet(w, v) THEN Held(u, v) + BalanceOf(s, w).usdc = Held(s, v) + b.usdc
                                ELSE Held(u, v) = Held(s, v)
<1> DEFINE D == DOMAIN s.balances
<1> DEFINE f == UsdcOf(s.balances)
<1> DEFINE g == UsdcOf(u.balances)
<1> DEFINE S == {x \in D : SameWallet(x, v)}
<1> DEFINE T == {x \in D \cup {w} : SameWallet(x, v)}
<1>1. /\ DOMAIN u.balances = D \cup {w} /\ u.balances[w] = b
      /\ \A x \in D \ {w} : u.balances[x] = s.balances[x]
  BY DEF Put
<1>2. IsFiniteSet(D \cup {w})
  BY FS_AddElement DEF BalancesOK
<1>3. BalancesOK(u)
  <2>1. u.balances = [x \in D \cup {w} |-> IF x = w THEN b ELSE s.balances[x]]
    BY DEF Put
  <2>2. \A x \in D : s.balances[x] \in [eth: Nat, usdc: Nat]
    BY DEF BalancesOK
  <2>3. u.balances \in [D \cup {w} -> [eth: Nat, usdc: Nat]]
    BY <2>1, <2>2
  <2>4. D \cup {w} \subseteq Wallets
    BY DEF BalancesOK
  <2> QED
    BY <1>1, <1>2, <2>3, <2>4 DEF BalancesOK
<1>4. BalanceOf(s, w) \in [eth: Nat, usdc: Nat]
  BY DEF BalancesOK, BalanceOf
<1>5. /\ IsFiniteSet(S) /\ IsFiniteSet(T)
      /\ \A x \in S : f[x] \in Nat
      /\ \A x \in T : g[x] \in Nat
      /\ \A x \in S \ {w} : g[x] = f[x]
      /\ b.usdc \in Nat
      /\ w \in T => g[w] = b.usdc
      /\ w \in S => f[w] = BalanceOf(s, w).usdc
      /\ w \notin D => BalanceOf(s, w).usdc = 0
  <2>1. IsFiniteSet(S) /\ IsFiniteSet(T)
    BY <1>2, FS_Subset DEF BalancesOK
  <2>2. \A x \in D : f[x] = s.balances[x].usdc /\ f[x] \in Nat
    BY DEF UsdcOf, BalancesOK
  <2>3. \A x \in D \cup {w} : g[x] = u.balances[x].usdc /\ g[x] \in Nat
    BY <1>1, <1>3 DEF UsdcOf, BalancesOK
  <2>4. /\ w \notin D => BalanceOf(s, w).usdc = 0
        /\ w \in D => BalanceOf(s, w) = s.balances[w]
    BY DEF BalanceOf
  <2> HIDE DEF f, g, D
  <2> QED
    BY <1>1, <2>1, <2>2, <2>3, <2>4
<1>6. Held(s, v) = Total(f, S) /\ Held(u, v) = Total(g, T)
  BY <1>1 DEF Held
<1>7. Total(f, S) \in Nat /\ Total(g, T) \in Nat
  BY <1>5, TotalType
<1>8. w \in T <=> SameWallet(w, v)
  OBVIOUS
<1>9. w \in S <=> w \in D /\ SameWallet(w, v)
  OBVIOUS
<1>10. T = IF SameWallet(w, v) THEN S \cup {w} ELSE S
  OBVIOUS
<1> HIDE DEF D, S, T, f, g
<1>11. CASE ~SameWallet(w, v)
  <2>1. T = S /\ \A x \in S : f[x] = g[x]
    BY <1>5, <1>9, <1>10, <1>11
  <2>2. Total(f, S) = Total(g, S)
    BY <2>1, TotalSame
  <2> QED
    BY <1>3, <1>4, <1>6, <1>7, <1>11, <2>1, <2>2
<1>12. CASE SameWallet(w, v) /\ w \in D
  <2>1. T = S /\ w \in S
    BY <1>9, <1>10, <1>12
  <2>2. Total(g, S) + f[w] = Total(f, S) + g[w]
    BY <1>5, <1>8, <1>12, <2>1, TotalUpdate
  <2> QED
    BY <1>3, <1>4, <1>5, <1>6, <1>7, <1>12, <2>1, <2>2
<1>13. CASE SameWallet(w, v) /\ w \notin D
  <2>1. T = S \cup {w} /\ w \notin S /\ w \in T
    BY <1>8, <1>9, <1>10, <1>13
  <2>2. \A x \in S : f[x] = g[x]
    BY <1>5, <2>1
  <2>3. Total(f, S) = Total(g, S)
    BY <2>2, TotalSame
  <2>4. /\ \A x \in S : g[x] \in Nat
        /\ g[w] \in Nat /\ g[w] = b.usdc
    BY <1>5, <2>1
  <2>5. Total(g, S \cup {w}) = Total(g, S) + g[w]
    BY <1>5, <2>1, <2>4, TotalAdd
  <2>6. Held(u, v) = Held(s, v) + b.usdc /\ BalanceOf(s, w).usdc = 0
    BY <1>5, <1>6, <1>13, <2>1, <2>3, <2>4, <2>5
  <2> QED
    BY <1>3, <1>4, <1>5, <1>6, <1>7, <1>13, <2>6
<1> QED
  BY <1>11, <1>12, <1>13

(* An update that leaves balances, index and grants alone keeps the money. *)
LEMMA SameMoney ==
  ASSUME NEW s, MoneyInv(s), NEW u, u.balances = s.balances,
         u.settledKeys = s.settledKeys, u.minted = s.minted
  PROVE  MoneyInv(u)
BY DEF MoneyInv, BalancesOK, SpellingsOK, Conserved, Held, SettledFor, Given,
       Funded, GivenCanonically

(* A wallet that gets a policy gets an empty balance with it.              *)
LEMMA WithPolicyMoney ==
  ASSUME NEW s, StoreInv(s), MoneyInv(s), NEW w \in Wallets, NEW policy,
         NEW u, u = WithPolicy(s, w, policy)
  PROVE  MoneyInv(u)
<1>1. /\ u.settledKeys = s.settledKeys /\ u.minted = s.minted
      /\ u.balances = IF w \in DOMAIN s.balances THEN s.balances
                      ELSE Put(s.balances, w, BalanceOf(s, w))
  BY DEF WithPolicy, StoreInv, LedgerInv, StoreTypeOK
<1>2. CASE w \in DOMAIN s.balances
  BY <1>1, <1>2, SameMoney
<1>3. CASE w \notin DOMAIN s.balances
  <2> DEFINE b == BalanceOf(s, w)
  <2>1. b = [eth |-> 0, usdc |-> 0] /\ b \in [eth: Nat, usdc: Nat] /\ b.usdc = 0
    BY <1>3 DEF BalanceOf
  <2>2. u.balances = Put(s.balances, w, b)
    BY <1>1, <1>3
  <2> HIDE DEF b
  <2>3. BalancesOK(u) /\ \A v : Held(u, v) = Held(s, v)
    <3> SUFFICES ASSUME NEW v
                 PROVE  BalancesOK(u) /\ Held(u, v) = Held(s, v)
      OBVIOUS
    <3>1. BalancesOK(s)
      BY DEF MoneyInv
    <3>2. /\ BalancesOK(u) /\ Held(s, v) \in Nat /\ Held(u, v) \in Nat
          /\ IF SameWallet(w, v) THEN Held(u, v) + b.usdc = Held(s, v) + b.usdc
                                 ELSE Held(u, v) = Held(s, v)
      BY <2>1, <2>2, <3>1, PutHeld DEF b
    <3> QED
      BY <2>1, <3>2
  <2>4. /\ DOMAIN u.balances = DOMAIN s.balances \cup {w} /\ u.balances[w] = b
        /\ \A v \in DOMAIN s.balances : u.balances[v] = s.balances[v]
    BY <1>3, <2>2 DEF Put
  <2>5. \A v \in Wallets : s.minted[v] \in Nat
    BY DEF StoreInv, LedgerInv, StoreTypeOK
  <2>6. SpellingsOK(u)
    BY <1>1, <2>1, <2>4, <2>5 DEF MoneyInv, SpellingsOK
  <2>7. Conserved(u)
    <3>1. \A v : /\ SettledFor(u, v) = SettledFor(s, v) /\ Given(u, v) = Given(s, v)
                 /\ GivenCanonically(u, v) <=> GivenCanonically(s, v)
      BY <1>1 DEF SettledFor, Given, GivenCanonically
    <3>2. \A v \in DOMAIN u.balances : u.balances[v].eth >= 0 /\ u.balances[v].usdc >= 0
      BY <2>3 DEF BalancesOK
    <3> QED
      BY <2>3, <3>1, <3>2 DEF MoneyInv, Conserved
  <2> QED
    BY <1>1, <2>3, <2>6, <2>7 DEF MoneyInv, Funded
<1> QED
  BY <1>2, <1>3

(* A grant adds its amount to what its wallet was given.                   *)
LEMMA MintGiven ==
  ASSUME NEW s, StoreTypeOK(s), IsFiniteSet(Funded(s)),
         NEW w \in Wallets, NEW x \in Nat,
         NEW u,
         \A y \in Wallets :
           u.minted[y] = IF y = w THEN s.minted[y] + x ELSE s.minted[y],
         NEW v
  PROVE  /\ IsFiniteSet(Funded(u))
         /\ Given(u, v) = Given(s, v) + IF SameWallet(w, v) THEN x ELSE 0
<1> DEFINE P == Funded(s) \cup {w}
<1> DEFINE S == {y \in Wallets : SameWallet(y, v)}
<1> DEFINE T == {y \in P : SameWallet(y, v)}
<1>1. /\ \A y \in Wallets : s.minted[y] \in Nat /\ u.minted[y] \in Nat
      /\ u.minted[w] = s.minted[w] + x
      /\ \A y \in Wallets \ {w} : u.minted[y] = s.minted[y]
  <2>1. \A y \in Wallets : s.minted[y] \in Nat
    BY DEF StoreTypeOK
  <2> QED
    BY <2>1
<1>2. IsFiniteSet(P)
  BY FS_AddElement
<1>3. IsFiniteSet(T)
  BY <1>2, FS_Subset
<1>4. Funded(u) \in SUBSET P
  BY <1>1 DEF Funded
<1>5. IsFiniteSet(Funded(u))
  BY <1>2, <1>4, FS_Subset
<1> DEFINE f == s.minted
<1> DEFINE g == u.minted
<1>6. /\ T \in SUBSET S
      /\ \A y \in S \ T : f[y] = 0 /\ g[y] = 0
      /\ \A y \in S : f[y] \in Nat /\ g[y] \in Nat
      /\ w \in T <=> SameWallet(w, v)
      /\ Given(s, v) = Total(f, S) /\ Given(u, v) = Total(g, S)
  BY <1>1 DEF Given, Funded
<1>11. /\ g[w] = f[w] + x /\ \A y \in Wallets \ {w} : g[y] = f[y]
       /\ \A y \in Wallets : f[y] \in Nat /\ g[y] \in Nat
  BY <1>1
<1> HIDE DEF P, S, T, f, g
<1>7. Given(s, v) = Total(f, T) /\ Given(u, v) = Total(g, T)
  BY <1>6, TotalSupport
<1>8. /\ \A y \in T : f[y] \in Nat /\ g[y] \in Nat
      /\ \A y \in T \ {w} : g[y] = f[y]
      /\ Total(f, T) \in Nat /\ Total(g, T) \in Nat
  <2>1. T \subseteq Wallets
    BY <1>6 DEF S
  <2> QED
    BY <1>3, <1>11, <2>1, TotalType
<1>9. CASE SameWallet(w, v)
  <2>1. w \in T
    BY <1>6, <1>9
  <2>2. Total(g, T) + f[w] = Total(f, T) + g[w]
    BY <1>3, <1>8, <2>1, TotalUpdate
  <2>3. Total(g, T) = Total(f, T) + x
    BY <1>8, <1>11, <2>2
  <2> QED
    BY <1>5, <1>7, <1>9, <2>3
<1>10. CASE ~SameWallet(w, v)
  <2>1. \A y \in T : g[y] = f[y]
    BY <1>6, <1>8, <1>10
  <2>2. Total(g, T) = Total(f, T)
    BY <2>1, TotalSame
  <2> QED
    BY <1>5, <1>7, <1>8, <1>10, <2>2
<1> QED
  BY <1>9, <1>10

(* The faucet gives a wallet what it adds to its balance.                  *)
LEMMA MintedMoney ==
  ASSUME NEW s, StoreInv(s), MoneyInv(s), NEW w \in Wallets, NEW eth \in Nat,
         NEW usdc \in Nat, NEW u, u = Minted(s, w, eth, usdc)
  PROVE  MoneyInv(u)
<1> DEFINE o == BalanceOf(s, w)
<1> DEFINE b == [eth |-> o.eth + eth, usdc |-> o.usdc + usdc]
<1>1. /\ u.settledKeys = s.settledKeys
      /\ u.minted = [s.minted EXCEPT ![w] = @ + usdc]
      /\ u.balances = Put(s.balances, w, b)
  BY DEF Minted, StoreInv, LedgerInv, StoreTypeOK
<1>2. BalancesOK(s) /\ StoreTypeOK(s) /\ IsFiniteSet(Funded(s))
  BY DEF MoneyInv, StoreInv, LedgerInv
<1>3. o \in [eth: Nat, usdc: Nat]
  BY <1>2 DEF BalanceOf, BalancesOK
<1>4. b \in [eth: Nat, usdc: Nat] /\ b.usdc = o.usdc + usdc
  BY <1>3
<1>5. o = BalanceOf(s, w)
  OBVIOUS
<1> HIDE DEF b, o
<1>6. ASSUME NEW v
      PROVE  /\ BalancesOK(u) /\ Held(s, v) \in Nat
             /\ Held(u, v) = Held(s, v) + IF SameWallet(w, v) THEN usdc ELSE 0
  <2>1. /\ BalancesOK(u) /\ Held(s, v) \in Nat /\ Held(u, v) \in Nat
        /\ IF SameWallet(w, v) THEN Held(u, v) + o.usdc = Held(s, v) + b.usdc
                               ELSE Held(u, v) = Held(s, v)
    BY <1>1, <1>2, <1>4, <1>5, PutHeld
  <2>2. o.usdc \in Nat /\ b.usdc \in Nat
    BY <1>3, <1>4
  <2> QED
    BY <1>4, <2>1, <2>2
<1>8. \A v \in Wallets : /\ s.minted[v] \in Nat
                         /\ u.minted[v] = IF v = w THEN s.minted[v] + usdc ELSE s.minted[v]
  BY <1>1, <1>2 DEF StoreTypeOK
<1>7. ASSUME NEW v
      PROVE  /\ IsFiniteSet(Funded(u))
             /\ Given(u, v) = Given(s, v) + IF SameWallet(w, v) THEN usdc ELSE 0
  <2>1. \A y \in Wallets :
          u.minted[y] = IF y = w THEN s.minted[y] + usdc ELSE s.minted[y]
    BY <1>8
  <2>2. StoreTypeOK(s) /\ IsFiniteSet(Funded(s))
    BY <1>2
  <2> QED
    BY <2>1, <2>2, MintGiven
<1>9. SpellingsOK(u)
  <2> SUFFICES ASSUME NEW v \in DOMAIN u.balances, v # WalletKey[v]
               PROVE  u.balances[v].usdc <= u.minted[v]
    BY DEF SpellingsOK
  <2>1. v \in Wallets
    BY <1>6 DEF BalancesOK
  <2>2. CASE v = w
    <3>1. u.balances[v] = b
      BY <1>1, <2>2 DEF Put
    <3>2. o.usdc <= s.minted[w]
      <4>1. CASE w \in DOMAIN s.balances
        BY <1>5, <2>2, <4>1 DEF BalanceOf, MoneyInv, SpellingsOK
      <4>2. CASE w \notin DOMAIN s.balances
        BY <1>5, <1>8, <4>2 DEF BalanceOf
      <4> QED
        BY <4>1, <4>2
    <3> QED
      BY <1>3, <1>4, <1>8, <2>2, <3>1, <3>2
  <2>3. CASE v # w
    <3>1. v \in DOMAIN s.balances /\ u.balances[v] = s.balances[v]
      BY <1>1, <2>3 DEF Put
    <3> QED
      BY <1>8, <2>1, <2>3, <3>1 DEF MoneyInv, SpellingsOK
  <2> QED
    BY <2>2, <2>3
<1>10. Conserved(u)
  <2>1. \A v \in DOMAIN u.balances : u.balances[v].eth >= 0 /\ u.balances[v].usdc >= 0
    BY <1>6 DEF BalancesOK
  <2>2. ASSUME NEW v \in Wallets
        PROVE  /\ Held(u, v) + SettledFor(u, v) <= Given(u, v)
               /\ GivenCanonically(u, v) => Held(u, v) + SettledFor(u, v) = Given(u, v)
    <3>1. SettledFor(u, v) = SettledFor(s, v)
      BY <1>1 DEF SettledFor
    <3>2. Held(s, v) \in Nat /\ SettledFor(s, v) \in Nat /\ Given(s, v) \in Nat
      BY <1>2, MoneyNat DEF MoneyInv
    <3>3. GivenCanonically(u, v) => GivenCanonically(s, v)
      BY <1>8 DEF GivenCanonically
    <3>4. /\ Held(s, v) + SettledFor(s, v) <= Given(s, v)
          /\ GivenCanonically(s, v) => Held(s, v) + SettledFor(s, v) = Given(s, v)
      BY DEF MoneyInv, Conserved
    <3>5. /\ Held(u, v) = Held(s, v) + IF SameWallet(w, v) THEN usdc ELSE 0
          /\ Given(u, v) = Given(s, v) + IF SameWallet(w, v) THEN usdc ELSE 0
      BY <1>6, <1>7
    <3> QED
      BY <3>1, <3>2, <3>3, <3>4, <3>5
  <2> QED
    BY <2>1, <2>2 DEF Conserved
<1> QED
  BY <1>1, <1>6, <1>7, <1>9, <1>10 DEF MoneyInv

(* A new key adds its price to what its wallet has paid.                   *)
LEMMA KeySettled ==
  ASSUME NEW s, StoreTypeOK(s), IsFiniteSet(s.settledKeys),
         NEW k \in Keys, k \notin s.settledKeys,
         NEW u, u.settledKeys = s.settledKeys \cup {k}, NEW v
  PROVE  /\ IsFiniteSet(u.settledKeys)
         /\ SameWallet(k.wallet, v) => SettledFor(u, v) = SettledFor(s, v) + k.price
         /\ ~SameWallet(k.wallet, v) => SettledFor(u, v) = SettledFor(s, v)
<1> DEFINE f == PricesOf(s.settledKeys)
<1> DEFINE g == PricesOf(u.settledKeys)
<1> DEFINE S == {j \in s.settledKeys : SameWallet(j.wallet, v)}
<1> DEFINE T == {j \in u.settledKeys : SameWallet(j.wallet, v)}
<1>1. IsFiniteSet(u.settledKeys) /\ IsFiniteSet(S)
  BY FS_AddElement, FS_Subset
<1>2. /\ \A j \in S : f[j] = j.price /\ g[j] = j.price
      /\ g[k] = k.price /\ k.price \in Nat /\ \A j \in S : j.price \in Nat
      /\ k \notin S
  <2>1. \A j \in Keys : j.price \in Nat
    BY KeyAssumption
  <2>2. s.settledKeys \subseteq Keys
    BY DEF StoreTypeOK
  <2> QED
    BY <2>1, <2>2 DEF PricesOf
<1>3. T = IF SameWallet(k.wallet, v) THEN S \cup {k} ELSE S
  OBVIOUS
<1>4. SettledFor(s, v) = Total(f, S) /\ SettledFor(u, v) = Total(g, T)
  BY DEF SettledFor
<1> HIDE DEF f, g, S, T
<1>5. Total(f, S) = Total(g, S)
  BY <1>2, TotalSame
<1>6. Total(g, S) \in Nat
  BY <1>1, <1>2, TotalType
<1>7. CASE SameWallet(k.wallet, v)
  <2>1. \A j \in S : g[j] \in Nat
    BY <1>2
  <2>2. Total(g, S \cup {k}) = Total(g, S) + g[k]
    BY <1>1, <1>2, <2>1, TotalAdd
  <2> QED
    BY <1>1, <1>2, <1>3, <1>4, <1>5, <1>7, <2>2
<1>8. CASE ~SameWallet(k.wallet, v)
  BY <1>1, <1>3, <1>4, <1>5, <1>6, <1>8
<1> QED
  BY <1>7, <1>8

(* A payment moves its price from the balance to what is paid, and leaves  *)
(* no balance negative: the checks come before the debit.                  *)
LEMMA SettledMoney ==
  ASSUME NEW s, StoreInv(s), MoneyInv(s), NEW k \in Keys, k \notin s.settledKeys,
         NEW now, CanPay(s, k, now), NEW u, u = Settled(s, k, now)
  PROVE  MoneyInv(u)
<1> DEFINE w == k.wallet
<1> DEFINE o == BalanceOf(s, w)
<1> DEFINE b == [eth |-> o.eth - GasCost, usdc |-> o.usdc - k.price]
<1>1. /\ u.settledKeys = s.settledKeys \cup {k}
      /\ u.minted = s.minted
      /\ u.balances = Put(s.balances, w, b)
  <2>1. s = [policies |-> s.policies, balances |-> s.balances,
             receipts |-> s.receipts, transactions |-> s.transactions,
             settledKeys |-> s.settledKeys, reservations |-> s.reservations,
             minted |-> s.minted, forgotten |-> s.forgotten]
    BY DEF StoreInv, LedgerInv, StoreTypeOK
  <2> QED
    BY <2>1 DEF Settled, AppendTransaction
<1>2. /\ BalancesOK(s) /\ StoreTypeOK(s) /\ IsFiniteSet(Funded(s))
      /\ IsFiniteSet(s.settledKeys)
      /\ w \in Wallets /\ k.price \in Nat /\ GasCost \in Nat
  BY KeyAssumption, BoundAssumption DEF MoneyInv, StoreInv, LedgerInv
<1>3. o \in [eth: Nat, usdc: Nat] /\ o.eth >= GasCost /\ o.usdc >= k.price
  BY <1>2 DEF BalanceOf, BalancesOK, CanPay
<1>4. /\ b \in [eth: Nat, usdc: Nat]
      /\ b.usdc = o.usdc - k.price /\ o.usdc \in Nat /\ b.usdc \in Nat
  BY <1>2, <1>3
<1>5. o = BalanceOf(s, w) /\ w = k.wallet
  OBVIOUS
<1> HIDE DEF b, o, w
<1>6. ASSUME NEW v
      PROVE  /\ BalancesOK(u) /\ Held(s, v) \in Nat /\ Held(u, v) \in Nat
             /\ Held(u, v) = Held(s, v) - IF SameWallet(w, v) THEN k.price ELSE 0
  <2>1. /\ BalancesOK(u) /\ Held(s, v) \in Nat /\ Held(u, v) \in Nat
        /\ IF SameWallet(w, v) THEN Held(u, v) + o.usdc = Held(s, v) + b.usdc
                               ELSE Held(u, v) = Held(s, v)
    BY <1>1, <1>2, <1>4, <1>5, PutHeld
  <2> QED
    BY <1>2, <1>4, <2>1
<1>7. ASSUME NEW v
      PROVE  /\ IsFiniteSet(u.settledKeys)
             /\ SettledFor(u, v) = SettledFor(s, v)
                                     + IF SameWallet(w, v) THEN k.price ELSE 0
  <2>1. /\ IsFiniteSet(u.settledKeys)
        /\ SameWallet(k.wallet, v) => SettledFor(u, v) = SettledFor(s, v) + k.price
        /\ ~SameWallet(k.wallet, v) => SettledFor(u, v) = SettledFor(s, v)
    <3>1. /\ StoreTypeOK(s) /\ IsFiniteSet(s.settledKeys)
          /\ u.settledKeys = s.settledKeys \cup {k}
      BY <1>1, <1>2
    <3> HIDE DEF w
    <3> QED
      BY <3>1, KeySettled
  <2>2. SettledFor(s, v) \in Nat
    BY <1>2, MoneyNat
  <2> QED
    BY <1>5, <2>1, <2>2
<1>8. SpellingsOK(u)
  <2> SUFFICES ASSUME NEW v \in DOMAIN u.balances, v # WalletKey[v]
               PROVE  u.balances[v].usdc <= u.minted[v]
    BY DEF SpellingsOK
  <2>1. v \in Wallets /\ s.minted[v] \in Nat
    BY <1>2, <1>6 DEF BalancesOK, StoreTypeOK
  <2>2. CASE v = w
    <3>1. u.balances[v] = b
      BY <1>1, <2>2 DEF Put
    <3>2. o.usdc <= s.minted[v]
      <4>1. CASE w \in DOMAIN s.balances
        BY <1>5, <2>2, <4>1 DEF BalanceOf, MoneyInv, SpellingsOK
      <4>2. CASE w \notin DOMAIN s.balances
        BY <1>5, <2>1, <4>2 DEF BalanceOf
      <4> QED
        BY <4>1, <4>2
    <3> QED
      BY <1>1, <1>2, <1>4, <2>1, <3>1, <3>2
  <2>3. CASE v # w
    <3>1. v \in DOMAIN s.balances /\ u.balances[v] = s.balances[v]
      BY <1>1, <2>3 DEF Put
    <3> QED
      BY <1>1, <3>1 DEF MoneyInv, SpellingsOK
  <2> QED
    BY <2>2, <2>3
<1>9. Conserved(u)
  <2>1. \A v \in DOMAIN u.balances : u.balances[v].eth >= 0 /\ u.balances[v].usdc >= 0
    BY <1>6 DEF BalancesOK
  <2>2. ASSUME NEW v \in Wallets
        PROVE  /\ Held(u, v) + SettledFor(u, v) <= Given(u, v)
               /\ GivenCanonically(u, v) => Held(u, v) + SettledFor(u, v) = Given(u, v)
    <3>1. /\ Given(u, v) = Given(s, v)
          /\ GivenCanonically(u, v) <=> GivenCanonically(s, v)
      BY <1>1 DEF Given, GivenCanonically
    <3>2. Held(s, v) \in Nat /\ SettledFor(s, v) \in Nat /\ Given(s, v) \in Nat
      BY <1>2, MoneyNat
    <3>3. /\ Held(s, v) + SettledFor(s, v) <= Given(s, v)
          /\ GivenCanonically(s, v) => Held(s, v) + SettledFor(s, v) = Given(s, v)
      BY DEF MoneyInv, Conserved
    <3>4. Held(u, v) + SettledFor(u, v) = Held(s, v) + SettledFor(s, v)
      BY <1>2, <1>6, <1>7, <3>2
    <3> QED
      BY <3>1, <3>3, <3>4
  <2> QED
    BY <2>1, <2>2 DEF Conserved
<1>10. IsFiniteSet(Funded(u))
  BY <1>1, <1>2 DEF Funded
<1> QED
  BY <1>6, <1>7, <1>8, <1>9, <1>10 DEF MoneyInv

(* The largest of finitely many amounts is one of them.                    *)
LEMMA MaxAmount ==
  ASSUME NEW f, NEW S, IsFiniteSet(S), S # {}, \A x \in S : f[x] \in Nat,
         NEW T, T = {f[x] : x \in S}
  PROVE  /\ \E x \in S : Max(T) = f[x]
         /\ \A x \in S : f[x] <= Max(T)
<1>1. PICK x \in S : \A y \in S : f[y] <= f[x]
  BY LargestAmount
<1>2. f[x] \in T /\ \A y \in T : f[x] >= y
  BY <1>1
<1>3. Max(T) \in T /\ \A y \in T : Max(T) >= y
  BY <1>2 DEF Max
<1>4. \A y \in S : f[y] \in T
  OBVIOUS
<1>5. PICK z \in S : Max(T) = f[z]
  BY <1>3
<1>6. ASSUME NEW y \in S
      PROVE  f[y] <= Max(T)
  <2>1. Max(T) >= f[y]
    BY <1>3, <1>4
  <2> QED
    BY <1>5, <2>1
<1> QED
  BY <1>5, <1>6

(* Reopening gives a kept spelling the largest balance of its spellings:   *)
(* less than all of them held, or the same when the others held nothing.   *)
LEMMA NormalizedMoney ==
  ASSUME NEW s, StoreInv(s), MoneyInv(s), NEW u, u = Normalized(s)
  PROVE  MoneyInv(u)
<1> DEFINE D == DOMAIN s.balances
<1> DEFINE image == {WalletKey[v] : v \in D}
<1> DEFINE group(w) == {v \in D : WalletKey[v] = w}
<1> DEFINE usdc == UsdcOf(s.balances)
<1> DEFINE eth == [v \in D |-> s.balances[v].eth]
<1> DEFINE merged(w) == [eth  |-> Max({s.balances[v].eth  : v \in group(w)}),
                         usdc |-> Max({s.balances[v].usdc : v \in group(w)})]
<1>1. /\ u.settledKeys = s.settledKeys /\ u.minted = s.minted
      /\ u.balances = [w \in image |-> merged(w)]
  BY DEF Normalized, StoreInv, LedgerInv, StoreTypeOK
<1>2. /\ D \subseteq Wallets /\ IsFiniteSet(D)
      /\ \A v \in D : /\ usdc[v] = s.balances[v].usdc /\ usdc[v] \in Nat
                      /\ eth[v] = s.balances[v].eth /\ eth[v] \in Nat
      /\ StoreTypeOK(s) /\ IsFiniteSet(s.settledKeys) /\ IsFiniteSet(Funded(s))
  BY DEF MoneyInv, BalancesOK, StoreInv, LedgerInv, UsdcOf
<1>3. /\ image \subseteq Wallets /\ IsFiniteSet(image)
      /\ \A w \in image : WalletKey[w] = w /\ group(w) # {}
  <2>1. image \subseteq Wallets /\ \A w \in image : WalletKey[w] = w /\ group(w) # {}
    BY <1>2, WalletAssumption
  <2>2. [v \in D |-> WalletKey[v]] \in Surjection(D, image)
    BY DEF Surjection
  <2> QED
    BY <1>2, <2>1, <2>2, FS_Surjection
<1>4. ASSUME NEW w \in image
      PROVE  /\ merged(w) \in [eth: Nat, usdc: Nat]
             /\ u.balances[w] = merged(w)
             /\ \E v \in group(w) : u.balances[w].usdc = usdc[v]
             /\ \A v \in group(w) : usdc[v] <= u.balances[w].usdc
  <2> DEFINE S == group(w)
  <2> DEFINE X == {s.balances[v].usdc : v \in S}
  <2> DEFINE Y == {s.balances[v].eth : v \in S}
  <2>1. /\ IsFiniteSet(S) /\ S # {}
        /\ \A v \in S : usdc[v] \in Nat /\ eth[v] \in Nat
    BY <1>2, <1>3, FS_Subset
  <2>2. X = {usdc[v] : v \in S} /\ Y = {eth[v] : v \in S}
    <3>1. \A v \in S : s.balances[v].usdc = usdc[v] /\ s.balances[v].eth = eth[v]
      BY <1>2
    <3> HIDE DEF S, usdc, eth
    <3> QED
      BY <3>1
  <2>3. merged(w) = [eth |-> Max(Y), usdc |-> Max(X)] /\ u.balances[w] = merged(w)
    BY <1>1
  <2> HIDE DEF S, X, Y, usdc, eth, merged
  <2>4. /\ \E v \in S : Max(X) = usdc[v]
        /\ \A v \in S : usdc[v] <= Max(X)
    BY <2>1, <2>2, MaxAmount
  <2>5. \E v \in S : Max(Y) = eth[v]
    BY <2>1, <2>2, MaxAmount
  <2>6. Max(X) \in Nat /\ Max(Y) \in Nat
    BY <2>1, <2>4, <2>5
  <2>7. /\ merged(w) \in [eth: Nat, usdc: Nat]
        /\ u.balances[w].usdc = Max(X)
    BY <2>3, <2>6
  <2> QED
    BY <2>3, <2>4, <2>7 DEF S
<1> HIDE DEF merged
<1>5. BalancesOK(u) /\ DOMAIN u.balances = image
  <2>1. DOMAIN u.balances = image
    BY <1>1
  <2>2. u.balances \in [image -> [eth: Nat, usdc: Nat]]
    BY <1>1, <1>4
  <2> QED
    BY <1>3, <2>1, <2>2 DEF BalancesOK
<1>6. SpellingsOK(u)
  BY <1>3, <1>5 DEF SpellingsOK
<1> HIDE DEF eth
<1>7. ASSUME NEW w \in Wallets
      PROVE  /\ Held(u, w) <= Held(s, w)
             /\ GivenCanonically(s, w) => Held(u, w) = Held(s, w)
  <2> DEFINE c == WalletKey[w]
  <2> DEFINE S == {v \in D : SameWallet(v, w)}
  <2> DEFINE T == {v \in image : SameWallet(v, w)}
  <2> DEFINE g == UsdcOf(u.balances)
  <2>1. Held(s, w) = Total(usdc, S) /\ Held(u, w) = Total(g, T)
    BY <1>5 DEF Held
  <2>2. S = group(c) /\ IsFiniteSet(S) /\ \A v \in S : v \in Wallets /\ usdc[v] \in Nat
    BY <1>2, FS_Subset DEF SameWallet
  <2>3. T = IF S = {} THEN {} ELSE {c}
    BY <1>2, <1>3, <2>2, WalletAssumption DEF SameWallet
  <2>4. Total(usdc, S) \in Nat
    BY <2>2, TotalType
  <2>5. CASE S = {}
    <3>1. Total(usdc, S) = 0 /\ Total(g, T) = 0
      BY <2>3, <2>5, TotalEmpty
    <3> QED
      BY <2>1, <3>1
  <2>6. CASE S # {}
    <3>1. c \in image /\ T = {c}
      BY <2>2, <2>3, <2>6
    <3>2. /\ g[c] = u.balances[c].usdc /\ g[c] \in Nat
      BY <1>5, <3>1 DEF UsdcOf, BalancesOK
    <3> HIDE DEF usdc, g, T
    <3>3. Total(g, T) = g[c]
      BY <3>1, <3>2, TotalOne
    <3>4. PICK m \in S : g[c] = usdc[m]
      BY <1>4, <2>2, <3>1, <3>2
    <3>5. \A v \in S : usdc[v] <= g[c]
      BY <1>4, <2>2, <3>1, <3>2
    <3> HIDE DEF S
    <3>6. usdc[m] <= Total(usdc, S)
      BY <2>2, TotalMember
    <3>7. ASSUME GivenCanonically(s, w)
          PROVE  Total(usdc, S) <= g[c]
      <4>1. ASSUME NEW v \in S, v # c
            PROVE  usdc[v] = 0
        <5>1. v \in Wallets /\ v \in D /\ SameWallet(v, w) /\ WalletKey[v] = c
          BY <2>2 DEF S, SameWallet
        <5>2. s.minted[v] \in Nat /\ ~(s.minted[v] > 0)
          BY <1>2, <3>7, <4>1, <5>1 DEF GivenCanonically, StoreTypeOK
        <5>3. s.balances[v].usdc <= s.minted[v]
          BY <4>1, <5>1 DEF MoneyInv, SpellingsOK
        <5> QED
          BY <1>2, <5>1, <5>2, <5>3
      <4> DEFINE R == S \cap {c}
      <4>2. R \in SUBSET S /\ \A v \in S \ R : usdc[v] = 0
        BY <4>1
      <4>3. Total(usdc, S) = Total(usdc, R)
        BY <2>2, <4>2, TotalSupport
      <4>4. CASE c \in S
        <5>1. R = {c} /\ usdc[c] \in Nat
          BY <2>2, <4>4
        <5>2. Total(usdc, R) = usdc[c]
          BY <5>1, TotalOne
        <5> QED
          BY <3>5, <4>3, <4>4, <5>2
      <4>5. CASE c \notin S
        <5>1. R = {}
          BY <4>5
        <5>2. Total(usdc, R) = 0
          BY <5>1, TotalEmpty
        <5> QED
          BY <3>2, <4>3, <5>2
      <4> QED
        BY <4>4, <4>5
    <3> QED
      BY <2>1, <2>4, <3>2, <3>3, <3>4, <3>6, <3>7
  <2> QED
    BY <2>5, <2>6
<1>8. Conserved(u)
  <2>1. \A v \in DOMAIN u.balances : u.balances[v].eth >= 0 /\ u.balances[v].usdc >= 0
    BY <1>5 DEF BalancesOK
  <2>2. ASSUME NEW v \in Wallets
        PROVE  /\ Held(u, v) + SettledFor(u, v) <= Given(u, v)
               /\ GivenCanonically(u, v) => Held(u, v) + SettledFor(u, v) = Given(u, v)
    <3>1. /\ Given(u, v) = Given(s, v) /\ SettledFor(u, v) = SettledFor(s, v)
          /\ GivenCanonically(u, v) <=> GivenCanonically(s, v)
      BY <1>1 DEF Given, SettledFor, GivenCanonically
    <3>2. /\ Held(s, v) \in Nat /\ SettledFor(s, v) \in Nat /\ Given(s, v) \in Nat
          /\ Held(u, v) \in Nat
      BY <1>1, <1>2, <1>5, MoneyNat, NormalizedGood
         DEF MoneyInv, Good, StoreInv, LedgerInv, Funded
    <3>3. /\ Held(s, v) + SettledFor(s, v) <= Given(s, v)
          /\ GivenCanonically(s, v) => Held(s, v) + SettledFor(s, v) = Given(s, v)
      BY DEF MoneyInv, Conserved
    <3>4. /\ Held(u, v) <= Held(s, v)
          /\ GivenCanonically(s, v) => Held(u, v) = Held(s, v)
      BY <1>7
    <3> QED
      BY <3>1, <3>2, <3>3, <3>4
  <2> QED
    BY <2>1, <2>2 DEF Conserved
<1>9. IsFiniteSet(Funded(u))
  BY <1>1, <1>2 DEF Funded
<1> QED
  BY <1>1, <1>2, <1>5, <1>6, <1>8, <1>9 DEF MoneyInv

(* Updates that leave the authorizations alone.                            *)
LEMMA ReservationsKept ==
  ASSUME NEW s, StoreInv(s)
  PROVE  /\ \A w, eth, usdc : Minted(s, w, eth, usdc).reservations = s.reservations
         /\ \A w, policy : WithPolicy(s, w, policy).reservations = s.reservations
         /\ \A e : AppendTransaction(s, e).reservations = s.reservations
         /\ \A k, now : Settled(s, k, now).reservations = s.reservations
<1>1. \A e : AppendTransaction(s, e).reservations = s.reservations
  BY DEF AppendTransaction, StoreInv, LedgerInv, StoreTypeOK
<1>2. \A w, eth, usdc : Minted(s, w, eth, usdc).reservations = s.reservations
  BY DEF Minted, StoreInv, LedgerInv, StoreTypeOK
<1>3. \A w, policy : WithPolicy(s, w, policy).reservations = s.reservations
  BY DEF WithPolicy, StoreInv, LedgerInv, StoreTypeOK
<1>4. \A k, now : Settled(s, k, now).reservations = s.reservations
  BY DEF Settled, AppendTransaction, StoreInv, LedgerInv, StoreTypeOK
<1> QED
  BY <1>1, <1>2, <1>3, <1>4

(* Recording a settlement leaves the authorizations alone.                 *)
LEMMA RecordedReservations ==
  ASSUME NEW s, StoreInv(s), NEW kind, NEW p
  PROVE  RecordedOnce(s, kind, p, FALSE).reservations = s.reservations
BY DEF RecordedOnce, AppendTransaction, StoreInv, LedgerInv, StoreTypeOK
=============================================================================
