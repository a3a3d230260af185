----------------------- MODULE FacilitatorPool_proofs -----------------------
(***************************************************************************)
(* For any number of facilitators, requests, checks and payloads: the      *)
(* pool's types; that a payment is settled by the facilitator that         *)
(* verified it unless its payload is presented twice; that a call gives up *)
(* only when every facilitator failed it; and that the pool routes only to *)
(* facilitators that have answered.                                        *)
(***************************************************************************)
EXTENDS FacilitatorPool, SequenceTheorems, TLAPS

(* What request c has or remembers is verified, at each place it can be,   *)
(* when no other request carries its payload.                              *)
Verifier(c, i) == <<Payload[c], i>> \in verified
Remembered(c) ==
  /\ call[c].at = "answered" /\ call[c].valid => Verifier(c, call[c].index)
  /\ call[c].at \in {"activated", "chosen", "settling"} => Verifier(c, call[c].index)
  /\ call[c].at = "handling" => Verifier(c, selections[Payload[c]])
  /\ call[c].at # "unpinned"
Pinned(c) ==
  /\ OwnPayload(c) => Remembered(c)
  /\ call[c].at \in {"chosen", "settling"} => call[c].index # None

PoolInv == PoolTypeOK /\ VerifierSettles /\ \A c \in Requests : Pinned(c)

CallType == [at: Place, rest: Seq(Endpoints), index: Endpoints \cup {None},
             valid: BOOLEAN, failures: SUBSET Endpoints]

-----------------------------------------------------------------------------

(* Whichever endpoint is active, the order of a verification is a sequence *)
(* of endpoints.                                                           *)
LEMMA OrderedIndexesType ==
  ASSUME active \in Endpoints \cup {None}
  PROVE  OrderedIndexes \in Seq(Endpoints)
<1>1. N \in Nat /\ Endpoints = 1 .. N /\ None = 0
  BY PoolAssumption DEF Endpoints, None
<1>2. \A k \in 1 .. N : (IF k > active THEN k ELSE IF k = 1 THEN active ELSE k - 1)
                          \in Endpoints
  BY <1>1
<1>3. OrderedIndexes \in [1 .. N -> Endpoints]
  BY <1>1, <1>2 DEF OrderedIndexes
<1> QED
  BY <1>1, <1>3

(* The configured order is a sequence of endpoints.                        *)
LEMMA ConfiguredOrderType == [k \in Endpoints |-> k] \in Seq(Endpoints)
  BY PoolAssumption DEF Endpoints

(* The next endpoint of a call that has one, and what is left after it.    *)
LEMMA NextEndpoint ==
  ASSUME NEW rest \in Seq(Endpoints), rest # <<>>
  PROVE  Head(rest) \in Endpoints /\ Tail(rest) \in Seq(Endpoints)
  OBVIOUS

(* A call that moves keeps its type.                                       *)
LEMMA GotoType ==
  ASSUME PoolTypeOK, NEW c \in Requests \cup Checks, NEW place \in Place,
         Goto(c, place)
  PROVE  /\ call' \in [Requests \cup Checks -> CallType]
         /\ call'[c] = [call[c] EXCEPT !.at = place]
         /\ \A d \in (Requests \cup Checks) \ {c} : call'[d] = call[d]
<1>1. call \in [Requests \cup Checks -> CallType]
  BY DEF PoolTypeOK, CallType
<1>2. call[c] \in CallType
  BY <1>1
<1>3. [call[c] EXCEPT !.at = place] \in CallType
  BY <1>2 DEF CallType
<1> QED
  BY <1>1, <1>3 DEF Goto

(* A step of one call that touches neither the selection of another's      *)
(* payload nor the verifications made leaves the others pinned.            *)
LEMMA OthersPinned ==
  ASSUME PoolInv, NEW c \in Requests \cup Checks,
         \A d \in (Requests \cup Checks) \ {c} : call'[d] = call[d],
         \A d \in Requests \ {c} :
           OwnPayload(d) => selections'[Payload[d]] = selections[Payload[d]],
         verified \subseteq verified'
  PROVE  \A d \in Requests \ {c} : Pinned(d)'
  BY DEF PoolInv, Pinned, Remembered, Verifier

(* The selection of one request's payload is not another's.                *)
LEMMA OwnSelection ==
  ASSUME PoolTypeOK, NEW c \in Requests, NEW i \in Endpoints \cup {None},
         selections' = [selections EXCEPT ![Payload[c]] = i]
  PROVE  /\ selections' \in [Payloads -> Endpoints \cup {None}]
         /\ selections'[Payload[c]] = i
         /\ \A d \in Requests \ {c} :
              OwnPayload(d) => selections'[Payload[d]] = selections[Payload[d]]
<1>1. \A d \in Requests : Payload[d] \in Payloads
  BY PoolAssumption
<1>2. \A d \in Requests \ {c} : OwnPayload(d) => Payload[c] # Payload[d]
  BY DEF OwnPayload
<1> QED
  BY <1>1, <1>2 DEF PoolTypeOK

-----------------------------------------------------------------------------
(* Type correctness of the steps.                                          *)

(* An error of the next endpoint, in a verification or a discovery.        *)
LEMMA EndpointFailsType ==
  ASSUME PoolTypeOK, NEW c \in Requests \cup Checks, EndpointFails(c)
  PROVE  /\ call' \in [Requests \cup Checks -> CallType]
         /\ call'[c].at = call[c].at
         /\ \A d \in (Requests \cup Checks) \ {c} : call'[d] = call[d]
         /\ health' \in [Endpoints -> {"unknown", "healthy", "degraded"}]
         /\ answered' = answered
<1> DEFINE i == Head(call[c].rest)
           next == [call[c] EXCEPT !.rest = Tail(@), !.failures = @ \cup {i}]
<1>1. call \in [Requests \cup Checks -> CallType] /\ call[c] \in CallType
  BY DEF PoolTypeOK, CallType
<1>2. i \in Endpoints /\ Tail(call[c].rest) \in Seq(Endpoints)
  BY <1>1, NextEndpoint DEF EndpointFails, CallType
<1>3. next \in CallType /\ next.at = call[c].at
  BY <1>1, <1>2 DEF CallType
<1>4. call' = [call EXCEPT ![c] = next]
  BY DEF EndpointFails
<1>5. health' = [health EXCEPT ![i] = "degraded"] /\ answered' = answered
  BY DEF EndpointFails, RecordDegraded
<1> HIDE DEF next, i
<1> QED
  BY <1>1, <1>2, <1>3, <1>4, <1>5 DEF PoolTypeOK

(* An answer of the next endpoint: recorded as healthy.                    *)
LEMMA HealthyType ==
  ASSUME PoolTypeOK, NEW i \in Endpoints, RecordHealthy(i)
  PROVE  /\ health' \in [Endpoints -> {"unknown", "healthy", "degraded"}]
         /\ answered' \subseteq Endpoints
  BY DEF PoolTypeOK, RecordHealthy

(* An ambiguous answer: recorded as degraded.                              *)
LEMMA DegradedType ==
  ASSUME PoolTypeOK, NEW i \in Endpoints, RecordDegraded(i)
  PROVE  /\ health' \in [Endpoints -> {"unknown", "healthy", "degraded"}]
         /\ answered' \subseteq Endpoints
  BY DEF PoolTypeOK, RecordDegraded

-----------------------------------------------------------------------------

(* Verification keeps the invariant.                                       *)
LEMMA VerifyStep ==
  ASSUME PoolInv, NEW c \in Requests, VerifyNext(c)
  PROVE  PoolInv'
<1>1. PoolTypeOK /\ call \in [Requests \cup Checks -> CallType] /\ call[c] \in CallType
  BY DEF PoolInv, PoolTypeOK, CallType
<1>2. c \in Requests \cup Checks /\ Payload[c] \in Payloads
  BY PoolAssumption
<1>3. Pinned(c) /\ VerifierSettles
  BY DEF PoolInv
<1>4. CASE StartVerify(c)
  <2>1. call'[c] = [call[c] EXCEPT !.at = "verifying", !.rest = OrderedIndexes]
        /\ \A d \in (Requests \cup Checks) \ {c} : call'[d] = call[d]
    BY <1>1, <1>2, <1>4 DEF StartVerify
  <2>2. OrderedIndexes \in Seq(Endpoints)
    BY <1>1, OrderedIndexesType DEF PoolTypeOK
  <2>3. [call[c] EXCEPT !.at = "verifying", !.rest = OrderedIndexes] \in CallType
    BY <1>1, <2>2 DEF CallType, Place
  <2>4. call' = [call EXCEPT ![c] = [call[c] EXCEPT !.at = "verifying", !.rest = OrderedIndexes]]
    BY <1>4 DEF StartVerify
  <2>5. call' \in [Requests \cup Checks -> CallType]
    BY <1>1, <2>3, <2>4
  <2>6. PoolTypeOK' /\ VerifierSettles'
    BY <1>1, <1>3, <1>4, <2>5 DEF StartVerify, PoolTypeOK, CallType, VerifierSettles
  <2>7. call'[c].at = "verifying"
    BY <1>1, <2>1 DEF CallType
  <2>8. Pinned(c)'
    BY <2>7 DEF Pinned, Remembered
  <2>9. \A d \in Requests \ {c} : Pinned(d)'
    BY <1>2, <1>4, <2>1, OthersPinned DEF StartVerify
  <2> QED
    BY <2>6, <2>8, <2>9 DEF PoolInv
<1>5. CASE VerifyFails(c)
  <2>1. EndpointFails(c) /\ call[c].at = "verifying"
    BY <1>5 DEF VerifyFails
  <2>2. /\ call' \in [Requests \cup Checks -> CallType]
        /\ call'[c].at = "verifying"
        /\ \A d \in (Requests \cup Checks) \ {c} : call'[d] = call[d]
        /\ health' \in [Endpoints -> {"unknown", "healthy", "degraded"}]
        /\ answered' = answered
    BY <1>1, <1>2, <2>1, EndpointFailsType
  <2>3. PoolTypeOK' /\ VerifierSettles'
    BY <1>1, <1>3, <1>5, <2>2 DEF VerifyFails, PoolTypeOK, CallType, VerifierSettles
  <2>4. Pinned(c)'
    BY <2>2 DEF Pinned, Remembered
  <2>5. \A d \in Requests \ {c} : Pinned(d)'
    BY <1>2, <1>5, <2>2, OthersPinned DEF VerifyFails
  <2> QED
    BY <2>3, <2>4, <2>5 DEF PoolInv
<1>6. CASE AllFailed(c)
  <2>1. /\ call' \in [Requests \cup Checks -> CallType]
        /\ call'[c] = [call[c] EXCEPT !.at = "failed"]
        /\ \A d \in (Requests \cup Checks) \ {c} : call'[d] = call[d]
    BY <1>1, <1>2, <1>6, GotoType DEF AllFailed, Place
  <2>2. PoolTypeOK' /\ VerifierSettles'
    BY <1>1, <1>3, <1>6, <2>1 DEF AllFailed, PoolTypeOK, CallType, VerifierSettles
  <2>3. Pinned(c)'
    BY <1>1, <2>1 DEF Pinned, Remembered, CallType
  <2>4. \A d \in Requests \ {c} : Pinned(d)'
    BY <1>2, <1>6, <2>1, OthersPinned DEF AllFailed
  <2> QED
    BY <2>2, <2>3, <2>4 DEF PoolInv
<1>7. ASSUME NEW valid \in BOOLEAN, VerifyAnswers(c, valid)
      PROVE  PoolInv'
  <2> DEFINE i == Head(call[c].rest)
             next == [call[c] EXCEPT !.at = "answered", !.index = i, !.valid = valid]
  <2>1. i \in Endpoints
    BY <1>1, <1>7, NextEndpoint DEF VerifyAnswers, CallType
  <2>2. /\ next \in CallType /\ next.at = "answered" /\ next.index = i
        /\ next.valid = valid
    BY <1>1, <2>1 DEF CallType, Place
  <2>3. call' = [call EXCEPT ![c] = next]
    BY <1>7 DEF VerifyAnswers
  <2>4. RecordHealthy(i) /\ UNCHANGED <<active, selections, lastSettlement, sent>>
    BY <1>7 DEF VerifyAnswers
  <2>5. verified' = IF valid THEN verified \cup {<<Payload[c], i>>} ELSE verified
    BY <1>7 DEF VerifyAnswers
  <2> HIDE DEF next, i
  <2>6. call' \in [Requests \cup Checks -> CallType] /\ call'[c] = next
        /\ \A d \in (Requests \cup Checks) \ {c} : call'[d] = call[d]
    BY <1>1, <1>2, <2>2, <2>3
  <2>7. verified \subseteq verified' /\ verified' \subseteq Payloads \X Endpoints
    BY <1>1, <1>2, <2>1, <2>5 DEF PoolTypeOK
  <2>8. PoolTypeOK'
    BY <1>1, <2>1, <2>4, <2>6, <2>7, HealthyType DEF PoolTypeOK, CallType
  <2>9. VerifierSettles'
    BY <1>3, <2>4, <2>7 DEF VerifierSettles
  <2>10. Pinned(c)'
    BY <2>2, <2>5, <2>6 DEF Pinned, Remembered, Verifier
  <2>11. \A d \in Requests \ {c} : Pinned(d)'
    BY <1>2, <2>4, <2>6, <2>7, OthersPinned
  <2> QED
    BY <2>8, <2>9, <2>10, <2>11 DEF PoolInv
<1>8. CASE ActivateVerifier(c)
  <2> DEFINE place == IF call[c].valid THEN "activated" ELSE "done"
  <2>1. place \in Place /\ Goto(c, place) /\ active' = call[c].index
        /\ call[c].at = "answered"
    BY <1>8 DEF ActivateVerifier, SetActive, Place
  <2>2. OwnPayload(c) /\ place = "activated" => Verifier(c, call[c].index)
    BY <1>3, <2>1 DEF Pinned, Remembered
  <2>3. place \in {"activated", "done"}
    OBVIOUS
  <2> HIDE DEF place
  <2>4. /\ call' \in [Requests \cup Checks -> CallType]
        /\ call'[c] = [call[c] EXCEPT !.at = place]
        /\ \A d \in (Requests \cup Checks) \ {c} : call'[d] = call[d]
    BY <1>1, <1>2, <2>1, GotoType
  <2>5. PoolTypeOK' /\ VerifierSettles'
    BY <1>1, <1>3, <1>8, <2>1, <2>4 DEF ActivateVerifier, PoolTypeOK, CallType, VerifierSettles
  <2>6. call'[c].at = place /\ call'[c].index = call[c].index /\ verified' = verified
    BY <1>1, <1>8, <2>4 DEF CallType, ActivateVerifier
  <2>7. Pinned(c)'
    BY <2>2, <2>3, <2>6 DEF Pinned, Remembered, Verifier
  <2>8. \A d \in Requests \ {c} : Pinned(d)'
    BY <1>2, <1>8, <2>4, OthersPinned DEF ActivateVerifier
  <2> QED
    BY <2>5, <2>7, <2>8 DEF PoolInv
<1>9. CASE RememberSelection(c)
  <2>1. /\ call' \in [Requests \cup Checks -> CallType]
        /\ call'[c] = [call[c] EXCEPT !.at = "handling"]
        /\ \A d \in (Requests \cup Checks) \ {c} : call'[d] = call[d]
    BY <1>1, <1>2, <1>9, GotoType DEF RememberSelection, Place
  <2>2. /\ selections' \in [Payloads -> Endpoints \cup {None}]
        /\ selections'[Payload[c]] = call[c].index
        /\ \A d \in Requests \ {c} :
             OwnPayload(d) => selections'[Payload[d]] = selections[Payload[d]]
    BY <1>1, <1>9, OwnSelection DEF RememberSelection, CallType
  <2>3. PoolTypeOK' /\ VerifierSettles'
    BY <1>1, <1>3, <1>9, <2>1, <2>2
    DEF RememberSelection, PoolTypeOK, CallType, VerifierSettles
  <2>4. call'[c].at = "handling" /\ verified' = verified /\ call[c].at = "activated"
    BY <1>1, <1>9, <2>1 DEF CallType, RememberSelection
  <2>5. Pinned(c)'
    BY <1>3, <2>2, <2>4 DEF Pinned, Remembered, Verifier
  <2>6. \A d \in Requests \ {c} : Pinned(d)'
    BY <1>2, <2>1, <2>2, <2>4, OthersPinned
  <2> QED
    BY <2>3, <2>5, <2>6 DEF PoolInv
<1> QED
  BY <1>4, <1>5, <1>6, <1>7, <1>8, <1>9 DEF VerifyNext

(* A failing handler, and settlement, keep the invariant: what is read from*)
(* the selection is what this request's verification left there.           *)
LEMMA SettleStep ==
  ASSUME PoolInv, NEW c \in Requests, HandlerFails(c) \/ SettleNext(c)
  PROVE  PoolInv'
<1>1. PoolTypeOK /\ call \in [Requests \cup Checks -> CallType] /\ call[c] \in CallType
  BY DEF PoolInv, PoolTypeOK, CallType
<1>2. c \in Requests \cup Checks /\ Payload[c] \in Payloads
  BY PoolAssumption
<1>3. Pinned(c) /\ VerifierSettles
  BY DEF PoolInv
<1>4. CASE HandlerFails(c)
  <2>1. /\ call' \in [Requests \cup Checks -> CallType]
        /\ call'[c] = [call[c] EXCEPT !.at = "done"]
        /\ \A d \in (Requests \cup Checks) \ {c} : call'[d] = call[d]
    BY <1>1, <1>2, <1>4, GotoType DEF HandlerFails, Place
  <2>2. PoolTypeOK' /\ VerifierSettles'
    BY <1>1, <1>3, <1>4, <2>1 DEF HandlerFails, PoolTypeOK, CallType, VerifierSettles
  <2>3. Pinned(c)'
    BY <1>1, <2>1 DEF Pinned, Remembered, CallType
  <2>4. \A d \in Requests \ {c} : Pinned(d)'
    BY <1>2, <1>4, <2>1, OthersPinned DEF HandlerFails
  <2> QED
    BY <2>2, <2>3, <2>4 DEF PoolInv
<1>5. CASE ReadSelection(c)
  <2> DEFINE i == selections[Payload[c]]
             next == [call[c] EXCEPT !.at = IF i = None THEN "unpinned" ELSE "chosen",
                                     !.index = i]
  <2>1. i \in Endpoints \cup {None}
    BY <1>1, <1>2 DEF PoolTypeOK
  <2>2. OwnPayload(c) => Verifier(c, i) /\ i # None
    BY <1>1, <1>2, <1>3, <1>5, PoolAssumption
    DEF ReadSelection, Pinned, Remembered, Verifier, PoolTypeOK, Endpoints, None
  <2>3. /\ next \in CallType /\ next.index = i
        /\ next.at = IF i = None THEN "unpinned" ELSE "chosen"
    BY <1>1, <2>1 DEF CallType, Place
  <2>4. call' = [call EXCEPT ![c] = next] /\ verified' = verified
    BY <1>5 DEF ReadSelection
  <2> HIDE DEF next, i
  <2>5. call' \in [Requests \cup Checks -> CallType] /\ call'[c] = next
        /\ \A d \in (Requests \cup Checks) \ {c} : call'[d] = call[d]
    BY <1>1, <1>2, <2>3, <2>4
  <2>6. PoolTypeOK' /\ VerifierSettles'
    BY <1>1, <1>3, <1>5, <2>5 DEF ReadSelection, PoolTypeOK, CallType, VerifierSettles
  <2>7. Pinned(c)'
    BY <2>2, <2>3, <2>4, <2>5 DEF Pinned, Remembered, Verifier
  <2>8. \A d \in Requests \ {c} : Pinned(d)'
    BY <1>2, <1>5, <2>5, OthersPinned DEF ReadSelection
  <2> QED
    BY <2>6, <2>7, <2>8 DEF PoolInv
<1>6. CASE ReadActive(c)
  <2> DEFINE next == [call[c] EXCEPT !.at = "chosen", !.index = active]
  <2>1. /\ active \in Endpoints \cup {None} /\ active # None
        /\ call[c].at = "unpinned" /\ call' = [call EXCEPT ![c] = next]
        /\ UNCHANGED <<selections, verified, sent>>
    BY <1>1, <1>6 DEF ReadActive, PoolTypeOK
  <2>2. next \in CallType /\ next.at = "chosen" /\ next.index = active
    BY <1>1, <2>1 DEF CallType, Place
  <2> HIDE DEF next
  <2>3. call' \in [Requests \cup Checks -> CallType] /\ call'[c] = next
        /\ \A d \in (Requests \cup Checks) \ {c} : call'[d] = call[d]
    BY <1>1, <1>2, <2>1, <2>2
  <2>4. PoolTypeOK' /\ VerifierSettles'
    BY <1>1, <1>3, <1>6, <2>3 DEF ReadActive, PoolTypeOK, CallType, VerifierSettles
  <2>5. ~OwnPayload(c)
    BY <1>3, <2>1 DEF Pinned, Remembered
  <2>6. Pinned(c)'
    BY <2>1, <2>2, <2>3, <2>5 DEF Pinned
  <2>7. \A d \in Requests \ {c} : Pinned(d)'
    BY <1>2, <2>1, <2>3, OthersPinned
  <2> QED
    BY <2>4, <2>6, <2>7 DEF PoolInv
<1>7. CASE CallSettle(c)
  <2>1. /\ call' \in [Requests \cup Checks -> CallType]
        /\ call'[c] = [call[c] EXCEPT !.at = "settling"]
        /\ \A d \in (Requests \cup Checks) \ {c} : call'[d] = call[d]
    BY <1>1, <1>2, <1>7, GotoType DEF CallSettle, Place
  <2>2. /\ selections' \in [Payloads -> Endpoints \cup {None}]
        /\ \A d \in Requests \ {c} :
             OwnPayload(d) => selections'[Payload[d]] = selections[Payload[d]]
    BY <1>1, <1>7, OwnSelection DEF CallSettle
  <2>3. /\ OwnPayload(c) => Verifier(c, call[c].index)
        /\ call[c].index \in Endpoints /\ call[c].index # None
        /\ sent' = sent \cup {<<c, call[c].index>>} /\ verified' = verified
    BY <1>1, <1>3, <1>7 DEF CallSettle, Pinned, Remembered, Verifier, CallType
  <2>4. PoolTypeOK'
    BY <1>1, <1>7, <2>1, <2>2, <2>3 DEF CallSettle, PoolTypeOK, CallType
  <2>5. VerifierSettles'
    BY <1>3, <2>3 DEF VerifierSettles, Verifier
  <2>6. Pinned(c)'
    BY <1>1, <2>1, <2>3 DEF Pinned, Remembered, Verifier, CallType
  <2>7. \A d \in Requests \ {c} : Pinned(d)'
    BY <1>2, <2>1, <2>2, <2>3, OthersPinned
  <2> QED
    BY <2>4, <2>5, <2>6, <2>7 DEF PoolInv
<1>8. ASSUME NEW outcome \in Outcome, SettleAnswers(c, outcome)
      PROVE  PoolInv'
  <2>1. outcome \in Place /\ outcome \in {"settled", "rejected", "unknown"}
    BY DEF Outcome, Place
  <2>2. /\ call' \in [Requests \cup Checks -> CallType]
        /\ call'[c] = [call[c] EXCEPT !.at = outcome]
        /\ \A d \in (Requests \cup Checks) \ {c} : call'[d] = call[d]
    BY <1>1, <1>2, <1>8, <2>1, GotoType DEF SettleAnswers
  <2>3. /\ health' \in [Endpoints -> {"unknown", "healthy", "degraded"}]
        /\ answered' \subseteq Endpoints
    <3>1. call[c].index \in Endpoints
      BY <1>1, <1>3, <1>8 DEF SettleAnswers, Pinned, CallType
    <3> QED
      BY <1>1, <1>8, <3>1, HealthyType, DegradedType DEF SettleAnswers
  <2>4. PoolTypeOK' /\ VerifierSettles'
    BY <1>1, <1>3, <1>8, <2>2, <2>3 DEF SettleAnswers, PoolTypeOK, CallType, VerifierSettles
  <2>5. Pinned(c)'
    BY <1>1, <2>1, <2>2 DEF Pinned, Remembered, CallType
  <2>6. \A d \in Requests \ {c} : Pinned(d)'
    BY <1>2, <1>8, <2>2, OthersPinned DEF SettleAnswers
  <2> QED
    BY <2>4, <2>5, <2>6 DEF PoolInv
<1>9. CASE SetSettlement(c)
  <2>1. /\ call' \in [Requests \cup Checks -> CallType]
        /\ call'[c] = [call[c] EXCEPT !.at = "done"]
        /\ \A d \in (Requests \cup Checks) \ {c} : call'[d] = call[d]
    BY <1>1, <1>2, <1>9, GotoType DEF SetSettlement, Place
  <2>2. lastSettlement' \in [state: Outcome \cup {"idle"}, of: Payloads \cup {NoPayload}]
    BY <1>2, <1>9 DEF SetSettlement
  <2>3. PoolTypeOK' /\ VerifierSettles'
    BY <1>1, <1>3, <1>9, <2>1, <2>2 DEF SetSettlement, PoolTypeOK, CallType, VerifierSettles
  <2>4. Pinned(c)'
    BY <1>1, <2>1 DEF Pinned, Remembered, CallType
  <2>5. \A d \in Requests \ {c} : Pinned(d)'
    BY <1>2, <1>9, <2>1, OthersPinned DEF SetSettlement
  <2> QED
    BY <2>3, <2>4, <2>5 DEF PoolInv
<1> QED
  BY <1>4, <1>5, <1>6, <1>7, <1>8, <1>9 DEF SettleNext

(* Discovery and probes move the active endpoint and nothing a payment     *)
(* relies on.                                                              *)
LEMMA CheckStep ==
  ASSUME PoolInv, NEW c \in Checks, CheckNext(c)
  PROVE  PoolInv'
<1>1. PoolTypeOK /\ call \in [Requests \cup Checks -> CallType] /\ call[c] \in CallType
  BY DEF PoolInv, PoolTypeOK, CallType
<1>2. c \in Requests \cup Checks /\ c \notin Requests
  BY PoolAssumption
<1>3. VerifierSettles
  BY DEF PoolInv
<1>4. UNCHANGED <<selections, lastSettlement, verified, sent>>
  BY DEF CheckNext, StartCheck, CheckFails, AllFailed, SupportedAnswers, ProbeAnswers,
         ProbeEnds, ActivateDiscovered
<1>5. ASSUME call' \in [Requests \cup Checks -> CallType],
             \A d \in (Requests \cup Checks) \ {c} : call'[d] = call[d],
             active' \in Endpoints \cup {None}, answered' \subseteq Endpoints,
             health' \in [Endpoints -> {"unknown", "healthy", "degraded"}]
      PROVE  PoolInv'
  <2>1. PoolTypeOK' /\ VerifierSettles'
    BY <1>1, <1>3, <1>4, <1>5 DEF PoolTypeOK, CallType, VerifierSettles
  <2>2. \A d \in Requests : Pinned(d)'
    BY <1>2, <1>4, <1>5, OthersPinned
  <2> QED
    BY <2>1, <2>2 DEF PoolInv
<1>6. ASSUME NEW place \in Place, Goto(c, place),
             active' \in Endpoints \cup {None}, UNCHANGED <<health, answered>>
      PROVE  PoolInv'
  BY <1>1, <1>2, <1>5, <1>6, GotoType DEF PoolTypeOK
<1>7. ASSUME NEW kind \in {"discovering", "probing"}, StartCheck(c, kind)
      PROVE  PoolInv'
  <2> DEFINE next == [call[c] EXCEPT !.at = kind, !.rest = [k \in Endpoints |-> k]]
  <2>1. next \in CallType
    BY <1>1, ConfiguredOrderType DEF CallType, Place
  <2>2. call' = [call EXCEPT ![c] = next] /\ UNCHANGED <<active, health, answered>>
    BY <1>7 DEF StartCheck
  <2> HIDE DEF next
  <2> QED
    BY <1>1, <1>2, <1>5, <2>1, <2>2 DEF PoolTypeOK
<1>8. CASE CheckFails(c)
  <2>1. EndpointFails(c) /\ UNCHANGED active
    BY <1>8 DEF CheckFails
  <2> QED
    BY <1>1, <1>2, <1>5, <2>1, EndpointFailsType DEF PoolTypeOK
<1>9. CASE AllFailed(c)
  BY <1>1, <1>6, <1>9 DEF AllFailed, PoolTypeOK, Place
<1>10. CASE SupportedAnswers(c)
  <2> DEFINE i == Head(call[c].rest)
             next == [call[c] EXCEPT !.at = "discovered", !.index = i]
  <2>1. i \in Endpoints
    BY <1>1, <1>10, NextEndpoint DEF SupportedAnswers, CallType
  <2>2. next \in CallType
    BY <1>1, <2>1 DEF CallType, Place
  <2>3. call' = [call EXCEPT ![c] = next] /\ RecordHealthy(i) /\ UNCHANGED active
    BY <1>10 DEF SupportedAnswers
  <2> HIDE DEF next, i
  <2> QED
    BY <1>1, <1>2, <1>5, <2>1, <2>2, <2>3, HealthyType DEF PoolTypeOK
<1>11. CASE ProbeAnswers(c)
  <2> DEFINE i == Head(call[c].rest)
             next == [call[c] EXCEPT !.rest = Tail(@),
                                     !.index = IF @ = None THEN i ELSE @]
  <2>1. i \in Endpoints /\ Tail(call[c].rest) \in Seq(Endpoints)
    BY <1>1, <1>11, NextEndpoint DEF ProbeAnswers, CallType
  <2>2. next \in CallType
    BY <1>1, <2>1 DEF CallType, Place
  <2>3. call' = [call EXCEPT ![c] = next] /\ RecordHealthy(i) /\ UNCHANGED active
    BY <1>11 DEF ProbeAnswers
  <2> HIDE DEF next, i
  <2> QED
    BY <1>1, <1>2, <1>5, <2>1, <2>2, <2>3, HealthyType DEF PoolTypeOK
<1>12. CASE ProbeEnds(c)
  BY <1>1, <1>6, <1>12 DEF ProbeEnds, PoolTypeOK, Place
<1>13. CASE ActivateDiscovered(c)
  <2>1. call[c].index \in Endpoints \cup {None}
    BY <1>1 DEF CallType
  <2> QED
    BY <1>6, <1>13, <2>1 DEF ActivateDiscovered, SetActive, Place
<1> QED
  BY <1>7, <1>8, <1>9, <1>10, <1>11, <1>12, <1>13 DEF CheckNext

(* A restarted server has no request that could settle.                    *)
LEMMA RestartStep ==
  ASSUME PoolInv, Restart
  PROVE  PoolInv'
<1>1. NewCall \in CallType /\ [NewCall EXCEPT !.at = "done"] \in CallType
  <2>1. NewCall \in CallType
    BY DEF NewCall, CallType, Place
  <2> QED
    BY <2>1 DEF CallType, Place
<1>2. call' \in [Requests \cup Checks -> CallType]
  BY <1>1 DEF Restart
<1>3. PoolTypeOK' /\ VerifierSettles'
  BY <1>2 DEF Restart, PoolInv, PoolTypeOK, CallType, VerifierSettles
<1>4. \A c \in Requests : call'[c].at \in {"new", "done"}
  BY DEF Restart, NewCall
<1>5. \A c \in Requests : Pinned(c)'
  BY <1>4 DEF Pinned, Remembered
<1> QED
  BY <1>3, <1>5 DEF PoolInv

(* A new pool pins nothing.                                                *)
LEMMA InitPoolInv == PoolInit => PoolInv
<1> SUFFICES ASSUME PoolInit PROVE PoolInv
  OBVIOUS
<1>1. NewCall \in CallType
  BY DEF NewCall, CallType, Place
<1>2. PoolTypeOK /\ VerifierSettles
  BY <1>1 DEF PoolInit, PoolTypeOK, CallType, VerifierSettles
<1>3. \A c \in Requests : Pinned(c)
  BY DEF PoolInit, Pinned, Remembered, NewCall
<1> QED
  BY <1>2, <1>3 DEF PoolInv

(* Every step keeps the invariant.                                         *)
LEMMA NextPoolInv ==
  ASSUME PoolInv, [PoolNext]_poolVars
  PROVE  PoolInv'
<1>1. CASE PoolNext
  BY <1>1, VerifyStep, SettleStep, CheckStep, RestartStep DEF PoolNext
<1>2. CASE UNCHANGED poolVars
  BY <1>2 DEF poolVars, PoolInv, PoolTypeOK, VerifierSettles, Pinned, Remembered, Verifier
<1> QED
  BY <1>1, <1>2

(* The invariant holds in every reachable state.                           *)
LEMMA PoolInvariance == PoolSpec => []PoolInv
<1>1. PoolInv /\ [PoolNext]_poolVars => PoolInv'
  BY NextPoolInv
<1> QED
  BY <1>1, InitPoolInv, PTL DEF PoolSpec

(* Every variable of the pool has its type.                                *)
THEOREM PoolTypeCorrect == PoolSpec => []PoolTypeOK
<1>1. PoolInv => PoolTypeOK
  BY DEF PoolInv
<1> QED
  BY <1>1, PoolInvariance, PTL

(* A payment whose payload no other request carries is settled by the      *)
(* facilitator that verified it, for any number of facilitators and        *)
(* whatever discovery, probes, other requests and restarts do meanwhile.   *)
THEOREM SettledByVerifier == PoolSpec => []VerifierSettles
<1>1. PoolInv => VerifierSettles
  BY DEF PoolInv
<1> QED
  BY <1>1, PoolInvariance, PTL

-----------------------------------------------------------------------------
(* Walking over the endpoints.                                             *)

(* Every endpoint has failed call c or is still to be asked.               *)
Covers(c) ==
  \A i \in Endpoints :
    i \in call[c].failures \/ \E k \in DOMAIN call[c].rest : call[c].rest[k] = i

(* A call that has met no answer covers the endpoints; one that has carries*)
(* an endpoint that answered.                                              *)
Walks(c) ==
  /\ call[c].at = "new" => call[c].index = None
  /\ call[c].at \in {"answered", "activated", "discovered"} =>
       call[c].index \in answered
  /\ call[c].at = "probing" /\ call[c].index # None => call[c].index \in answered
  /\ call[c].at \in {"verifying", "discovering"} => Covers(c)
  /\ call[c].at = "probing" /\ call[c].index = None => Covers(c)
  /\ call[c].at = "failed" => call[c].failures = Endpoints

Calls == Requests \cup Checks
WalkInv == RoutesAnswered /\ \A c \in Calls : Walks(c)

(* What one step of call c owes: only c moved, nothing that answered is    *)
(* forgotten, c walks and the routes lead to who answered.                 *)
LEMMA OneWalks ==
  ASSUME WalkInv, NEW c \in Calls,
         \A d \in Calls \ {c} : call'[d] = call[d],
         answered \subseteq answered', Walks(c)', RoutesAnswered'
  PROVE  WalkInv'
<1>1. \A d \in Calls \ {c} : Walks(d)'
  BY DEF WalkInv, Walks, Covers
<1> QED
  BY <1>1 DEF WalkInv

(* Whichever endpoint is active, the order of a verification has them all. *)
LEMMA OrderCovers ==
  ASSUME active \in Endpoints \cup {None}
  PROVE  \A i \in Endpoints : \E k \in DOMAIN OrderedIndexes : OrderedIndexes[k] = i
<1>1. N \in Nat /\ Endpoints = 1 .. N /\ None = 0
  BY PoolAssumption DEF Endpoints, None
<1>2. ASSUME NEW i \in Endpoints
      PROVE  \E k \in DOMAIN OrderedIndexes : OrderedIndexes[k] = i
  <2>1. CASE i > active
    BY <1>1, <1>2, <2>1 DEF OrderedIndexes
  <2>2. CASE i = active
    <3>1. 1 \in Endpoints /\ ~(1 > active)
      BY <1>1, <1>2, <2>2
    <3> QED
      BY <1>1, <2>2, <3>1 DEF OrderedIndexes
  <2>3. CASE i < active
    <3>1. i + 1 \in Endpoints /\ ~(i + 1 > active) /\ i + 1 # 1 /\ (i + 1) - 1 = i
      BY <1>1, <1>2, <2>3
    <3> QED
      BY <1>1, <3>1 DEF OrderedIndexes
  <2> QED
    BY <1>1, <1>2, <2>1, <2>2, <2>3
<1> QED
  BY <1>2

(* The endpoint that fails moves from the rest to the failures.            *)
LEMMA FailureCovers ==
  ASSUME PoolTypeOK, NEW c \in Calls, Covers(c), EndpointFails(c)
  PROVE  Covers(c)'
<1> DEFINE rest == call[c].rest
<1>1. /\ call[c] \in CallType /\ rest \in Seq(Endpoints) /\ rest # <<>>
  BY DEF PoolTypeOK, CallType, EndpointFails, Calls
<1>2. /\ call'[c].rest = Tail(rest)
      /\ call'[c].failures = call[c].failures \cup {Head(rest)}
  BY <1>1 DEF EndpointFails, PoolTypeOK, CallType, Calls
<1>3. ASSUME NEW k \in DOMAIN rest, k # 1
      PROVE  k - 1 \in DOMAIN Tail(rest) /\ Tail(rest)[k - 1] = rest[k]
  <2>1. /\ DOMAIN rest = 1 .. Len(rest) /\ Len(rest) \in Nat
        /\ Tail(rest) \in Seq(Endpoints) /\ Len(Tail(rest)) = Len(rest) - 1
        /\ \A i \in 1 .. Len(Tail(rest)) : Tail(rest)[i] = rest[i + 1]
    BY <1>1, LenProperties, HeadTailProperties
  <2>2. DOMAIN Tail(rest) = 1 .. Len(Tail(rest))
    BY <2>1, LenProperties
  <2>3. k \in 1 .. Len(rest) /\ k - 1 \in 1 .. Len(Tail(rest)) /\ (k - 1) + 1 = k
    BY <1>3, <2>1
  <2> QED
    BY <2>1, <2>2, <2>3
<1>4. rest[1] = Head(rest)
  BY <1>1
<1>5. ASSUME NEW i \in Endpoints
      PROVE  \/ i \in call'[c].failures
             \/ \E k \in DOMAIN call'[c].rest : call'[c].rest[k] = i
  <2>1. CASE i \in call[c].failures \/ i = Head(rest)
    BY <1>2, <2>1
  <2>2. CASE \E k \in DOMAIN rest : rest[k] = i /\ k # 1
    BY <1>2, <1>3, <2>2
  <2> QED
    BY <1>4, <1>5, <2>1, <2>2 DEF Covers
<1> QED
  BY <1>5 DEF Covers

(* A call with no endpoint left to ask was failed by all.                  *)
LEMMA NothingLeft ==
  ASSUME NEW c \in Calls, call[c] \in CallType, Covers(c), call[c].rest = <<>>
  PROVE  call[c].failures = Endpoints
<1>1. DOMAIN <<>> = {}
  OBVIOUS
<1>2. Endpoints \subseteq call[c].failures
  BY <1>1 DEF Covers
<1> QED
  BY <1>2 DEF CallType

(* The steps of a verification.                                            *)
LEMMA VerifyWalks ==
  ASSUME PoolTypeOK, WalkInv, NEW c \in Requests, VerifyNext(c)
  PROVE  WalkInv'
<1>1. /\ call \in [Calls -> CallType] /\ c \in Calls /\ call[c] \in CallType
      /\ Walks(c) /\ RoutesAnswered /\ Payload[c] \in Payloads
  BY PoolAssumption DEF PoolTypeOK, CallType, Calls, WalkInv
<1>2. CASE StartVerify(c)
  <2>1. /\ call'[c].at = "verifying" /\ call'[c].rest = OrderedIndexes
        /\ \A d \in Calls \ {c} : call'[d] = call[d]
    BY <1>1, <1>2 DEF StartVerify, CallType
  <2>2. Walks(c)'
    BY <2>1, OrderCovers DEF Walks, Covers, PoolTypeOK
  <2> QED
    BY <1>1, <1>2, <2>1, <2>2, OneWalks DEF StartVerify, RoutesAnswered
<1>3. CASE VerifyFails(c)
  <2>1. /\ call'[c].at = "verifying" /\ answered' = answered
        /\ \A d \in Calls \ {c} : call'[d] = call[d]
    BY <1>1, <1>3, EndpointFailsType DEF VerifyFails, Calls
  <2>2. Walks(c)'
    BY <1>1, <1>3, <2>1, FailureCovers DEF VerifyFails, Walks
  <2> QED
    BY <1>1, <1>3, <2>1, <2>2, OneWalks DEF VerifyFails, RoutesAnswered
<1>4. CASE AllFailed(c)
  <2>1. /\ call'[c] = [call[c] EXCEPT !.at = "failed"]
        /\ \A d \in Calls \ {c} : call'[d] = call[d]
    BY <1>1, <1>4 DEF AllFailed, Goto
  <2>2. call'[c].at = "failed" /\ call'[c].failures = call[c].failures
    BY <1>1, <2>1 DEF CallType
  <2>3. call[c].failures = Endpoints
    <3>1. Covers(c) /\ call[c].rest = <<>>
      BY <1>1, <1>4, <2>1 DEF AllFailed, Walks, VerifyNext
    <3> QED
      BY <1>1, <3>1, NothingLeft
  <2>4. Walks(c)'
    BY <2>2, <2>3 DEF Walks
  <2> QED
    BY <1>1, <1>4, <2>1, <2>4, OneWalks DEF AllFailed, RoutesAnswered
<1>5. ASSUME NEW valid \in BOOLEAN, VerifyAnswers(c, valid)
      PROVE  WalkInv'
  <2>1. /\ call'[c].at = "answered" /\ call'[c].index = Head(call[c].rest)
        /\ \A d \in Calls \ {c} : call'[d] = call[d]
        /\ answered' = answered \cup {Head(call[c].rest)}
    BY <1>1, <1>5 DEF VerifyAnswers, RecordHealthy, CallType
  <2>2. Walks(c)'
    BY <2>1 DEF Walks
  <2> QED
    BY <1>1, <1>5, <2>1, <2>2, OneWalks DEF VerifyAnswers, RoutesAnswered
<1>6. CASE ActivateVerifier(c)
  <2>1. /\ call'[c].at \in {"activated", "done"} /\ call'[c].index = call[c].index
        /\ \A d \in Calls \ {c} : call'[d] = call[d]
        /\ active' = call[c].index /\ call[c].index \in answered
    BY <1>1, <1>6 DEF ActivateVerifier, SetActive, Goto, CallType, Walks
  <2>2. Walks(c)'
    BY <1>6, <2>1 DEF Walks, ActivateVerifier
  <2> QED
    BY <1>1, <1>6, <2>1, <2>2, OneWalks DEF ActivateVerifier, RoutesAnswered
<1>7. CASE RememberSelection(c)
  <2>1. /\ call'[c].at = "handling"
        /\ \A d \in Calls \ {c} : call'[d] = call[d]
        /\ call[c].index \in answered
    BY <1>1, <1>7 DEF RememberSelection, Goto, CallType, Walks
  <2>2. Walks(c)'
    BY <2>1 DEF Walks
  <2>3. RoutesAnswered'
    BY <1>1, <1>7, <2>1 DEF RememberSelection, RoutesAnswered, PoolTypeOK
  <2> QED
    BY <1>1, <1>7, <2>1, <2>2, <2>3, OneWalks DEF RememberSelection
<1> QED
  BY <1>2, <1>3, <1>4, <1>5, <1>6, <1>7 DEF VerifyNext

(* A settlement asks no one and makes no endpoint active.                  *)
LEMMA SettleWalks ==
  ASSUME PoolTypeOK, WalkInv, NEW c \in Requests, HandlerFails(c) \/ SettleNext(c)
  PROVE  WalkInv'
<1>1. /\ call \in [Calls -> CallType] /\ c \in Calls /\ call[c] \in CallType
      /\ RoutesAnswered /\ Payload[c] \in Payloads
  BY PoolAssumption DEF PoolTypeOK, CallType, Calls, WalkInv
<1>2. /\ call'[c].at \in {"unpinned", "chosen", "settling", "done"} \cup Outcome
      /\ \A d \in Calls \ {c} : call'[d] = call[d]
  BY <1>1 DEF HandlerFails, SettleNext, ReadSelection, ReadActive, CallSettle,
              SettleAnswers, SetSettlement, Goto, CallType
<1>3. Walks(c)'
  BY <1>2 DEF Walks, Outcome
<1>4. answered \subseteq answered'
  BY DEF HandlerFails, SettleNext, ReadSelection, ReadActive, CallSettle,
         SettleAnswers, SetSettlement, RecordHealthy, RecordDegraded
<1>5. active' = active /\ \A x \in Payloads : selections'[x] \in {None, selections[x]}
  BY DEF HandlerFails, SettleNext, ReadSelection, ReadActive, CallSettle,
         SettleAnswers, SetSettlement, PoolTypeOK
<1>6. RoutesAnswered'
  BY <1>1, <1>4, <1>5 DEF RoutesAnswered
<1> QED
  BY <1>1, <1>2, <1>3, <1>4, <1>6, OneWalks

(* The steps of a discovery or a probe.                                    *)
LEMMA CheckWalks ==
  ASSUME PoolTypeOK, WalkInv, NEW c \in Checks, CheckNext(c)
  PROVE  WalkInv'
<1>1. /\ call \in [Calls -> CallType] /\ c \in Calls /\ call[c] \in CallType
      /\ Walks(c) /\ RoutesAnswered
  BY DEF PoolTypeOK, CallType, Calls, WalkInv
<1>2. ASSUME NEW kind \in {"discovering", "probing"}, StartCheck(c, kind)
      PROVE  WalkInv'
  <2>1. /\ call'[c].at = kind /\ call'[c].rest = [k \in Endpoints |-> k]
        /\ call'[c].index = None
        /\ \A d \in Calls \ {c} : call'[d] = call[d]
    BY <1>1, <1>2 DEF StartCheck, CallType, Walks
  <2>2. Covers(c)'
    BY <2>1 DEF Covers
  <2>3. Walks(c)'
    BY <2>1, <2>2 DEF Walks
  <2> QED
    BY <1>1, <1>2, <2>1, <2>3, OneWalks DEF StartCheck, RoutesAnswered
<1>3. CASE CheckFails(c)
  <2>1. /\ call'[c].at = call[c].at /\ answered' = answered
        /\ call'[c].index = call[c].index
        /\ \A d \in Calls \ {c} : call'[d] = call[d]
    <3>1. call'[c].index = call[c].index
      BY <1>1, <1>3 DEF CheckFails, EndpointFails, CallType
    <3> QED
      BY <1>1, <1>3, <3>1, EndpointFailsType DEF CheckFails, Calls
  <2>2. Walks(c)'
    BY <1>1, <1>3, <2>1, FailureCovers DEF CheckFails, Walks
  <2> QED
    BY <1>1, <1>3, <2>1, <2>2, OneWalks DEF CheckFails, RoutesAnswered
<1>4. CASE AllFailed(c) \/ ProbeEnds(c)
  <2>1. /\ call'[c].failures = call[c].failures /\ call'[c].index = call[c].index
        /\ \A d \in Calls \ {c} : call'[d] = call[d]
        /\ call'[c].at \in {"failed", "discovered"}
        /\ call[c].rest = <<>> /\ UNCHANGED <<active, selections, answered>>
    BY <1>1, <1>4 DEF AllFailed, ProbeEnds, Goto, CallType
  <2>2. CASE call'[c].at = "failed"
    <3>1. Covers(c)
      BY <1>1, <1>4, <2>2 DEF AllFailed, ProbeEnds, Goto, Walks, CallType
    <3>2. call[c].failures = Endpoints
      BY <1>1, <2>1, <3>1, NothingLeft
    <3> QED
      BY <2>1, <2>2, <3>2, <1>1, OneWalks DEF Walks, RoutesAnswered
  <2>3. CASE call'[c].at = "discovered"
    <3>1. call[c].at = "probing" /\ call[c].index # None
      BY <1>1, <1>4, <2>3 DEF AllFailed, ProbeEnds, Goto, CallType
    <3> QED
      BY <1>1, <2>1, <2>3, <3>1, OneWalks DEF Walks, RoutesAnswered
  <2> QED
    BY <2>1, <2>2, <2>3
<1>5. CASE SupportedAnswers(c) \/ ProbeAnswers(c)
  <2>1. /\ \A d \in Calls \ {c} : call'[d] = call[d]
        /\ answered' = answered \cup {Head(call[c].rest)}
        /\ UNCHANGED <<active, selections>>
        /\ call'[c].at \in {"discovered", "probing"}
        /\ Head(call[c].rest) # None
    <3>1. Head(call[c].rest) \in Endpoints
      BY <1>1, <1>5, NextEndpoint DEF SupportedAnswers, ProbeAnswers, CallType
    <3> QED
      BY <1>1, <1>5, <3>1
         DEF SupportedAnswers, ProbeAnswers, RecordHealthy, CallType, Endpoints, None
  <2>2. /\ call'[c].index # None
        /\ call'[c].index \in answered'
    BY <1>1, <1>5, <2>1 DEF SupportedAnswers, ProbeAnswers, CallType, Walks
  <2>3. Walks(c)'
    BY <2>1, <2>2 DEF Walks
  <2> QED
    BY <1>1, <2>1, <2>3, OneWalks DEF RoutesAnswered
<1>6. CASE ActivateDiscovered(c)
  <2>1. /\ call'[c].at = "done" /\ \A d \in Calls \ {c} : call'[d] = call[d]
        /\ active' = call[c].index /\ call[c].index \in answered
        /\ UNCHANGED <<selections, answered>>
    BY <1>1, <1>6 DEF ActivateDiscovered, SetActive, Goto, CallType, Walks
  <2>2. Walks(c)'
    BY <2>1 DEF Walks
  <2> QED
    BY <1>1, <2>1, <2>2, OneWalks DEF RoutesAnswered
<1> QED
  BY <1>2, <1>3, <1>4, <1>5, <1>6 DEF CheckNext

(* Every step keeps the calls walking.                                     *)
LEMMA NextWalks ==
  ASSUME PoolTypeOK, WalkInv, [PoolNext]_poolVars
  PROVE  WalkInv'
<1>1. CASE Restart
  <2>1. \A c \in Calls : call'[c].at \in {"new", "done"} /\ call'[c].index = None
    BY <1>1 DEF Restart, NewCall, Calls
  <2>2. \A c \in Calls : Walks(c)'
    BY <2>1 DEF Walks
  <2> QED
    BY <1>1, <2>2 DEF WalkInv, Restart, RoutesAnswered
<1>2. CASE UNCHANGED poolVars
  BY <1>2 DEF poolVars, WalkInv, Walks, Covers, RoutesAnswered
<1> QED
  BY <1>1, <1>2, VerifyWalks, SettleWalks, CheckWalks DEF PoolNext

(* The walk over the endpoints is as it should be in every reachable state.*)
LEMMA WalkInvariance == PoolSpec => []WalkInv
<1>1. PoolInit => WalkInv
  BY DEF PoolInit, WalkInv, Walks, RoutesAnswered, NewCall, Calls
<1>2. PoolTypeOK /\ WalkInv /\ [PoolNext]_poolVars => WalkInv'
  BY NextWalks
<1> QED
  BY <1>1, <1>2, PoolTypeCorrect, PTL DEF PoolSpec

(* A verification or a discovery gives up only after every facilitator     *)
(* failed it, for any number of them and however the pool moves meanwhile. *)
THEOREM GivesUpExhausted == PoolSpec => []FailsExhausted
<1>1. WalkInv => FailsExhausted
  BY DEF WalkInv, Walks, FailsExhausted, Calls
<1> QED
  BY <1>1, WalkInvariance, PTL

(* The pool routes payments only to facilitators that have answered since  *)
(* the server started.                                                     *)
THEOREM RoutedToAnswered == PoolSpec => []RoutesAnswered
<1>1. WalkInv => RoutesAnswered
  BY DEF WalkInv
<1> QED
  BY <1>1, WalkInvariance, PTL
=============================================================================
