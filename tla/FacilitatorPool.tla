--------------------------- MODULE FacilitatorPool ---------------------------
(***************************************************************************)
(* The official server's facilitator pool: ordered failover for discovery  *)
(* and verification, one settlement call, never repeated.                  *)
(*                                                                         *)
(* The pool's mutex covers each read or write of its fields, never a call  *)
(* to a facilitator, so paid requests, discovery and probes interleave     *)
(* between any two of them.  Each paid request is verified, handled and    *)
(* settled in that order by the x402 middleware, which is external.        *)
(***************************************************************************)
EXTENDS Integers, Sequences, FiniteSets

CONSTANTS
  N,         \* number of facilitators, in configured order
  Requests,  \* paid requests
  Payloads,  \* signed payloads with their requirements (the fingerprint)
  Payload,   \* what each request carries
  Checks,    \* discovery calls: GetSupported and Probe
  NoPayload  \* the settlement status of a pool that has settled nothing

ASSUME PoolAssumption ==
  /\ N \in Nat \ {0}
  /\ Payload \in [Requests -> Payloads]
  /\ Requests \cap Checks = {}

Endpoints == 1 .. N
None == 0

VARIABLES
  active,          \* Pool.active
  selections,      \* Pool.verifiedSelections
  health,          \* the State of each endpoint's status
  lastSettlement,  \* Pool.lastSettlement
  call,            \* where each request or check is, and what it has read
  answered,        \* history: endpoints that have answered since the start
  verified,        \* history: <<payload, endpoint>> verified as valid
  sent             \* history: <<request, endpoint>> of settlement calls

poolVars == <<active, selections, health, lastSettlement, call, answered,
              verified, sent>>

Place == {"new", "verifying", "answered", "activated", "handling", "unpinned",
          "chosen", "settling", "settled", "rejected", "unknown",
          "discovering", "probing", "discovered", "failed", "done"}
Outcome == {"settled", "rejected", "unknown"}

NewCall == [at |-> "new", rest |-> <<>>, index |-> None, valid |-> FALSE,
            failures |-> {}]

PoolInit ==
  /\ active = None
  /\ selections = [x \in Payloads |-> None]
  /\ health = [i \in Endpoints |-> "unknown"]
  /\ lastSettlement = [state |-> "idle", of |-> NoPayload]
  /\ call = [c \in Requests \cup Checks |-> NewCall]
  /\ answered = {} /\ verified = {} /\ sent = {}

(* Mutant: the active endpoint comes first and is asked again in its turn. *)
OrderedIndexesTwice ==
  [k \in Endpoints |-> IF k = 1 /\ active # None THEN active ELSE k]

(* The active endpoint first, the others in configured order.              *)
OrderedIndexes ==
  [k \in Endpoints |-> IF k > active THEN k ELSE IF k = 1 THEN active ELSE k - 1]

Goto(c, place) == call' = [call EXCEPT ![c].at = place]

(* The health record of an endpoint after an answer or an error.           *)
RecordHealthy(i) ==
  /\ health' = [health EXCEPT ![i] = "healthy"]
  /\ answered' = answered \cup {i}
RecordDegraded(i) ==
  /\ health' = [health EXCEPT ![i] = "degraded"]
  /\ UNCHANGED answered

(* Mutant: the order shown to operators, counted from one, is stored.      *)
ActivateOrder(c, place) ==
  /\ active' = call[c].index + 1
  /\ Goto(c, place)

SetActive(c, place) ==
  /\ active' = call[c].index
  /\ Goto(c, place)

-----------------------------------------------------------------------------
(* Verification.                                                           *)

StartVerify(c) ==
  /\ call[c].at = "new"
  /\ call' = [call EXCEPT ![c].at = "verifying", ![c].rest = OrderedIndexes]
  /\ UNCHANGED <<active, selections, health, lastSettlement, answered, verified,
                 sent>>

(* Mutant: after an error the endpoint is queued for another try.          *)
EndpointFailsAgain(c) ==
  LET i == Head(call[c].rest) IN
  /\ call[c].rest # <<>>
  /\ RecordDegraded(i)
  /\ call' = [call EXCEPT ![c].rest = Append(Tail(@), i), ![c].failures = @ \cup {i}]

(* The next endpoint gives an error: on to the one after it.               *)
EndpointFails(c) ==
  LET i == Head(call[c].rest) IN
  /\ call[c].rest # <<>>
  /\ RecordDegraded(i)
  /\ call' = [call EXCEPT ![c].rest = Tail(@), ![c].failures = @ \cup {i}]

VerifyFails(c) ==
  /\ call[c].at = "verifying"
  /\ EndpointFails(c)
  /\ UNCHANGED <<active, selections, lastSettlement, verified, sent>>

AllFailed(c) ==
  /\ call[c].at \in {"verifying", "discovering"} /\ call[c].rest = <<>>
  /\ Goto(c, "failed")
  /\ UNCHANGED <<active, selections, health, lastSettlement, answered, verified,
                 sent>>

(* An answer is definitive, also one that calls the payment invalid.       *)
VerifyAnswers(c, valid) ==
  LET i == Head(call[c].rest) IN
  /\ call[c].at = "verifying" /\ call[c].rest # <<>>
  /\ RecordHealthy(i)
  /\ call' = [call EXCEPT ![c].at = "answered", ![c].index = i,
                          ![c].valid = valid]
  /\ verified' = IF valid THEN verified \cup {<<Payload[c], i>>} ELSE verified
  /\ UNCHANGED <<active, selections, lastSettlement, sent>>

ActivateVerifier(c) ==
  /\ call[c].at = "answered"
  /\ SetActive(c, IF call[c].valid THEN "activated" ELSE "done")
  /\ UNCHANGED <<selections, health, lastSettlement, answered, verified, sent>>

RememberSelection(c) ==
  /\ call[c].at = "activated"
  /\ selections' = [selections EXCEPT ![Payload[c]] = call[c].index]
  /\ Goto(c, "handling")
  /\ UNCHANGED <<active, health, lastSettlement, answered, verified, sent>>

(* The paid handler gives an error: the middleware settles nothing, and the*)
(* selection stays.                                                        *)
HandlerFails(c) ==
  /\ call[c].at = "handling"
  /\ Goto(c, "done")
  /\ UNCHANGED <<active, selections, health, lastSettlement, answered, verified,
                 sent>>

-----------------------------------------------------------------------------
(* Settlement.                                                             *)

(* Mutant: settlement goes to the active endpoint, whoever verified.       *)
ReadActiveOnly(c) ==
  /\ call[c].at = "handling"
  /\ call' = [call EXCEPT ![c].at = "unpinned"]
  /\ UNCHANGED <<active, selections, health, lastSettlement, answered, verified,
                 sent>>

ReadSelection(c) ==
  LET i == selections[Payload[c]] IN
  /\ call[c].at = "handling"
  /\ call' = [call EXCEPT ![c].at = IF i = None THEN "unpinned" ELSE "chosen",
                          ![c].index = i]
  /\ UNCHANGED <<active, selections, health, lastSettlement, answered, verified,
                 sent>>

(* Another request with the same payload took the selection: whichever     *)
(* endpoint is active now.  There is one, since a verification came first. *)
ReadActive(c) ==
  /\ call[c].at = "unpinned" /\ active # None
  /\ call' = [call EXCEPT ![c].at = "chosen", ![c].index = active]
  /\ UNCHANGED <<active, selections, health, lastSettlement, answered, verified,
                 sent>>

(* The selection is forgotten and the facilitator called, once.            *)
CallSettle(c) ==
  /\ call[c].at = "chosen"
  /\ selections' = [selections EXCEPT ![Payload[c]] = None]
  /\ sent' = sent \cup {<<c, call[c].index>>}
  /\ Goto(c, "settling")
  /\ UNCHANGED <<active, health, lastSettlement, answered, verified>>

SettleAnswers(c, outcome) ==
  /\ call[c].at = "settling"
  /\ IF outcome = "unknown" THEN RecordDegraded(call[c].index)
                            ELSE RecordHealthy(call[c].index)
  /\ Goto(c, outcome)
  /\ UNCHANGED <<active, selections, lastSettlement, verified, sent>>

SetSettlement(c) ==
  /\ call[c].at \in Outcome
  /\ lastSettlement' = [state |-> call[c].at, of |-> Payload[c]]
  /\ Goto(c, "done")
  /\ UNCHANGED <<active, selections, health, answered, verified, sent>>

-----------------------------------------------------------------------------
(* Discovery: GetSupported stops at the first answer, Probe asks everyone. *)

StartCheck(c, kind) ==
  /\ call[c].at = "new"
  /\ call' = [call EXCEPT ![c].at = kind, ![c].rest = [k \in Endpoints |-> k]]
  /\ UNCHANGED <<active, selections, health, lastSettlement, answered, verified,
                 sent>>

(* Mutant: the first endpoint asked counts as the first healthy one.       *)
CheckFailsHealthy(c) ==
  /\ call[c].at \in {"discovering", "probing"}
  /\ call[c].rest # <<>>
  /\ RecordDegraded(Head(call[c].rest))
  /\ call' = [call EXCEPT ![c].rest = Tail(@),
                          ![c].failures = @ \cup {Head(call[c].rest)},
                          ![c].index = IF @ = None THEN Head(call[c].rest) ELSE @]
  /\ UNCHANGED <<active, selections, lastSettlement, verified, sent>>

CheckFails(c) ==
  /\ call[c].at \in {"discovering", "probing"}
  /\ EndpointFails(c)
  /\ UNCHANGED <<active, selections, lastSettlement, verified, sent>>

SupportedAnswers(c) ==
  LET i == Head(call[c].rest) IN
  /\ call[c].at = "discovering" /\ call[c].rest # <<>>
  /\ RecordHealthy(i)
  /\ call' = [call EXCEPT ![c].at = "discovered", ![c].index = i]
  /\ UNCHANGED <<active, selections, lastSettlement, verified, sent>>

ProbeAnswers(c) ==
  LET i == Head(call[c].rest) IN
  /\ call[c].at = "probing" /\ call[c].rest # <<>>
  /\ RecordHealthy(i)
  /\ call' = [call EXCEPT ![c].rest = Tail(@),
                          ![c].index = IF @ = None THEN i ELSE @]
  /\ UNCHANGED <<active, selections, lastSettlement, verified, sent>>

ProbeEnds(c) ==
  /\ call[c].at = "probing" /\ call[c].rest = <<>>
  /\ Goto(c, IF call[c].index = None THEN "failed" ELSE "discovered")
  /\ UNCHANGED <<active, selections, health, lastSettlement, answered, verified,
                 sent>>

ActivateDiscovered(c) ==
  /\ call[c].at = "discovered"
  /\ SetActive(c, "done")
  /\ UNCHANGED <<selections, health, lastSettlement, answered, verified, sent>>

(* The server stops: what was under way ends, the pool starts anew.        *)
Restart ==
  /\ active' = None
  /\ selections' = [x \in Payloads |-> None]
  /\ health' = [i \in Endpoints |-> "unknown"]
  /\ lastSettlement' = [state |-> "idle", of |-> NoPayload]
  /\ call' = [c \in Requests \cup Checks |->
                IF call[c].at = "new" THEN NewCall
                                      ELSE [NewCall EXCEPT !.at = "done"]]
  /\ answered' = {}
  /\ UNCHANGED <<verified, sent>>

-----------------------------------------------------------------------------

VerifyNext(c) ==
  \/ StartVerify(c) \/ VerifyFails(c) \/ AllFailed(c)
  \/ \E valid \in BOOLEAN : VerifyAnswers(c, valid)
  \/ ActivateVerifier(c) \/ RememberSelection(c)

SettleNext(c) ==
  \/ ReadSelection(c) \/ ReadActive(c) \/ CallSettle(c)
  \/ \E outcome \in Outcome : SettleAnswers(c, outcome)
  \/ SetSettlement(c)

CheckNext(c) ==
  \/ \E kind \in {"discovering", "probing"} : StartCheck(c, kind)
  \/ CheckFails(c) \/ AllFailed(c) \/ SupportedAnswers(c)
  \/ ProbeAnswers(c) \/ ProbeEnds(c) \/ ActivateDiscovered(c)

PoolNext ==
  \/ \E c \in Requests : VerifyNext(c) \/ HandlerFails(c) \/ SettleNext(c)
  \/ \E c \in Checks : CheckNext(c)
  \/ Restart

PoolSpec == PoolInit /\ [][PoolNext]_poolVars

(* Every call to a facilitator and every handler returns: the middleware   *)
(* gives a request 150 seconds.                                            *)
PoolFairness ==
  \A c \in Requests :
    /\ WF_poolVars(call[c].at # "new" /\ VerifyNext(c))
    /\ WF_poolVars(HandlerFails(c) \/ SettleNext(c))

PoolFairSpec == PoolSpec /\ PoolFairness

-----------------------------------------------------------------------------
(* Properties.                                                             *)

PoolTypeOK ==
  /\ active \in Endpoints \cup {None}
  /\ selections \in [Payloads -> Endpoints \cup {None}]
  /\ health \in [Endpoints -> {"unknown", "healthy", "degraded"}]
  /\ lastSettlement \in [state: Outcome \cup {"idle"}, of: Payloads \cup {NoPayload}]
  /\ call \in [Requests \cup Checks ->
                 [at: Place, rest: Seq(Endpoints), index: Endpoints \cup {None},
                  valid: BOOLEAN, failures: SUBSET Endpoints]]
  /\ answered \subseteq Endpoints
  /\ verified \subseteq Payloads \X Endpoints
  /\ sent \subseteq Requests \X Endpoints

(* A payment is settled by the facilitator that verified that very payload *)
(* as valid, whatever other requests, discovery and probes did to the      *)
(* active endpoint in between, unless the payload is presented twice.      *)
OwnPayload(c) == \A d \in Requests : Payload[d] = Payload[c] => d = c
VerifierSettles ==
  \A s \in sent : OwnPayload(s[1]) => <<Payload[s[1]], s[2]>> \in verified

(* A verification or a discovery gives up only when every facilitator was  *)
(* asked and failed, though the active one changes under it.               *)
FailsExhausted ==
  \A c \in Requests \cup Checks :
    call[c].at = "failed" => call[c].failures = Endpoints

(* Whatever the pool may route a settlement to has answered since the      *)
(* server started.                                                         *)
RoutesAnswered ==
  /\ active # None => active \in answered
  /\ \A x \in Payloads : selections[x] # None => selections[x] \in answered

(* Every paid request ends, whatever the facilitators answer and whichever *)
(* of them is active: again and again none is under way.                   *)
CallsEnd == []<>(\A c \in Requests : call[c].at \in {"new", "done", "failed"})
=============================================================================
