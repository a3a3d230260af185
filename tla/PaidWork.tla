------------------------------- MODULE PaidWork -------------------------------
(***************************************************************************)
(* An order for paid work at the official server, from the model's drafts  *)
(* to the settlement.  A browser order has its work prepared before the    *)
(* wallet signs and sends the prepared work back with the payment; a       *)
(* direct order (agent-pay) pays first and has the work done in the paid   *)
(* handler.  The middleware settles only after the handler answered 200.   *)
(* The server keeps nothing of an order between two requests.              *)
(***************************************************************************)
EXTENDS Integers, WorkProduct

CONSTANTS
  Orders,
  Requests,     \* what may be asked for: [lane, task, src]
  Drafts(_),    \* the drafts the model may write for a request
  NoProduct,
  MaxAttempts   \* 4 in the code

ASSUME PaidWorkAssumption ==
  /\ MaxAttempts \in Nat
  /\ \A q \in Requests : /\ q.lane \in {"browser", "direct"}
                         /\ q.task \in Tasks /\ q.src \in Source
                         /\ \A d \in Drafts(q) : d \in Product /\ d.task = q.task

VARIABLES
  request,  \* what each order asks for
  stage,    \* how far it is
  attempt,  \* drafts the model was asked for by this call
  draft,    \* history: the draft the offered work was made of
  work      \* the validated work

paidVars == <<request, stage, attempt, draft, work>>

Stages == {"preparing", "offered", "left", "rejected", "paying", "refused",
           "settling", "settled", "unsettled"}

PaidInit ==
  /\ request \in [Orders -> Requests]
  /\ stage = [o \in Orders |-> IF request[o].lane = "direct" THEN "paying" ELSE "preparing"]
  /\ attempt = [o \in Orders |-> 0]
  /\ draft = [o \in Orders |-> NoProduct]
  /\ work = [o \in Orders |-> NoProduct]

Goto(o, s) == stage' = [stage EXCEPT ![o] = s]

-----------------------------------------------------------------------------
(* The model writes: in /api/work-preflight, or in the paid handler.       *)

Writing(o) ==
  \/ stage[o] = "preparing"
  \/ stage[o] = "paying" /\ request[o].lane = "direct"

(* Mutant: nothing counts the attempts that failed.                        *)
ModelFailsUncounted(o) ==
  /\ Writing(o)
  /\ attempt' = [attempt EXCEPT ![o] = IF @ = 0 THEN 1 ELSE 0]
  /\ UNCHANGED <<request, stage, draft, work>>

(* Mutant: one attempt too many.                                           *)
ModelFailsOnceMore(o) ==
  /\ Writing(o) /\ attempt[o] <= MaxAttempts
  /\ attempt' = [attempt EXCEPT ![o] = @ + 1]
  /\ UNCHANGED <<request, stage, draft, work>>

ModelFails(o) ==
  /\ Writing(o) /\ attempt[o] < MaxAttempts
  /\ attempt' = [attempt EXCEPT ![o] = @ + 1]
  /\ UNCHANGED <<request, stage, draft, work>>

DraftRejected(o, d) ==
  /\ attempt' = [attempt EXCEPT ![o] = @ + 1]
  /\ ~Acceptable(d, request[o].src)
  /\ UNCHANGED <<request, stage, draft, work>>

DraftAccepted(o, d) ==
  /\ attempt' = [attempt EXCEPT ![o] = 0]
  /\ draft' = [draft EXCEPT ![o] = d]
  /\ Acceptable(d, request[o].src)
  /\ work' = [work EXCEPT ![o] = Normalized(d, request[o].src)]
  /\ Goto(o, IF request[o].lane = "direct" THEN "settling" ELSE "offered")
  /\ UNCHANGED request

ModelWrites(o) ==
  /\ Writing(o) /\ attempt[o] < MaxAttempts
  /\ \E d \in Drafts(request[o]) : DraftRejected(o, d) \/ DraftAccepted(o, d)

GivesUp(o) ==
  /\ Writing(o) /\ attempt[o] = MaxAttempts
  /\ attempt' = [attempt EXCEPT ![o] = 0]
  /\ Goto(o, IF request[o].lane = "direct" THEN "refused" ELSE "rejected")
  /\ UNCHANGED <<request, draft, work>>

(* A direct order's prompt is analysed first; without the model's analysis *)
(* the paid handler goes no further.                                       *)
AnalysisFails(o) ==
  /\ stage[o] = "paying" /\ request[o].lane = "direct" /\ attempt[o] = 0
  /\ Goto(o, "refused")
  /\ UNCHANGED <<request, attempt, draft, work>>

(* The caller's context ends while the model writes.                       *)
CallerLeaves(o) ==
  /\ Writing(o)
  /\ attempt' = [attempt EXCEPT ![o] = 0]
  /\ Goto(o, "left")
  /\ UNCHANGED <<request, draft, work>>

-----------------------------------------------------------------------------
(* The wallet signs, the verified payment reaches the paid handler.        *)

Pay(o) ==
  /\ stage[o] = "offered"
  /\ Goto(o, "paying")
  /\ UNCHANGED <<request, attempt, draft, work>>

Prepared(o) == stage[o] = "paying" /\ request[o].lane = "browser"

Release(o) ==
  /\ Prepared(o) /\ Releasable(work[o], request[o].src)
  /\ Goto(o, "settling")
  /\ UNCHANGED <<request, attempt, draft, work>>

RefuseRelease(o) ==
  /\ Prepared(o) /\ ~Releasable(work[o], request[o].src)
  /\ Goto(o, "refused")
  /\ UNCHANGED <<request, attempt, draft, work>>

(* The facilitator's answer to the settlement.                             *)
Settle(o, ok) ==
  /\ stage[o] = "settling"
  /\ Goto(o, IF ok THEN "settled" ELSE "unsettled")
  /\ UNCHANGED <<request, attempt, draft, work>>

OrderNext(o) ==
  \/ ModelFails(o) \/ ModelWrites(o) \/ GivesUp(o) \/ AnalysisFails(o)
  \/ CallerLeaves(o)
  \/ Pay(o) \/ Release(o) \/ RefuseRelease(o)
  \/ \E ok \in BOOLEAN : Settle(o, ok)

PaidNext == \E o \in Orders : OrderNext(o)

PaidSpec == PaidInit /\ [][PaidNext]_paidVars

(* Every call to the model ends: its client has a timeout of 240 s.        *)
Answered(o) == ModelFails(o) \/ ModelWrites(o) \/ GivesUp(o)

PaidFairSpec == PaidSpec /\ \A o \in Orders : WF_paidVars(Answered(o))

-----------------------------------------------------------------------------
(* Properties.                                                             *)

PaidTypeOK ==
  /\ request \in [Orders -> Requests]
  /\ stage \in [Orders -> Stages]
  /\ attempt \in [Orders -> 0 .. MaxAttempts]
  /\ draft \in [Orders -> Product \cup {NoProduct}]
  /\ work \in [Orders -> Product \cup {NoProduct}]

Payable(o) == stage[o] \in {"offered", "paying", "settling", "settled"} /\ work[o] # NoProduct

(* Payable work covers its source: each element has a test that exercises  *)
(* it, or is named in the text and in the coverage.                        *)
SourceCovered ==
  \A o \in Orders : Payable(o) /\ work[o].task \in ContractTasks \ {"smart-contract-generate"} =>
    request[o].src.elements \subseteq work[o].deliverable \cap work[o].coverage

(* A Solidity review has its coverage, and its summary when sensitive      *)
(* functions are unrestricted, from the analysis of the source: whatever   *)
(* the model wrote there is replaced whole, and no caveat says so.         *)
FromSource(task, src) ==
  IF task = "code-review" /\ IsSolidity(src)
    THEN {"coverage"} \cup (IF "unprotected" \in src.facts THEN {"summary"} ELSE {})
    ELSE {}
Analysis(src) == [coverage |-> src.elements, summary |-> {"saysUnrestricted"}]

(* The parts of a draft of which something was taken out or reworded.      *)
Texts == {"summary", "deliverable", "actionItems", "caveats", "coverage"}
Lost(d, p) == {f \in Texts : ~(d[f] \subseteq p[f])}

(* Payable work that lost anything of the model's draft has a caveat, those*)
(* parts of a review aside that hold the analysis of the source, and these *)
(* hold nothing else.                                                      *)
Disclosed ==
  \A o \in Orders : Payable(o) =>
    LET replaced == FromSource(work[o].task, request[o].src) IN
    /\ \A f \in replaced : work[o][f] = Analysis(request[o].src)[f]
    /\ Lost(draft[o], work[o]) \subseteq replaced \/ Caveats \cap work[o].caveats # {}

(* Prepared work the wallet paid for is handed over exactly as committed,  *)
(* except when removing refuted statements emptied its summary or its      *)
(* deliverable: the second pass over the work changes nothing else.        *)
Emptied(p) == p.summary = {} \/ "leadingBlank" \in p.deliverable
RefusedWhenEmptied ==
  \A o \in Orders : stage[o] = "refused" =>
    work[o] = NoProduct \/ Emptied(work[o])

(* Validation failures stop before the wallet can sign: an offered work is *)
(* not refused once it is paid for.                                        *)
OfferedIsReleased ==
  \A o \in Orders : stage[o] = "refused" => work[o] = NoProduct

(* An order gets an answer, whatever the model writes.                     *)
WritingEnds == \A o \in Orders : Writing(o) ~> ~Writing(o)
=============================================================================
