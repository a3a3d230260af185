----------------------------- MODULE WorkProduct -----------------------------
(***************************************************************************)
(* What the paid provider does to the work its local model wrote: the      *)
(* deterministic normalisations, the validation that stands before the     *)
(* wallet signs, and the second pass over the same work when it is         *)
(* released (payperprompt/work.go).                                        *)
(*                                                                         *)
(* A text is the set of the statements it makes, one to a sentence.  A     *)
(* source (the request) is the facts the patterns find in it and the       *)
(* elements it declares.  Naming an element, or exercising it in a test,   *)
(* is the statement named like the element.                                *)
(***************************************************************************)
CONSTANT Elements  \* names of constructors, receive, fallback and functions

ContractTasks == {"smart-contract-audit", "smart-contract-explain",
                  "smart-contract-fix", "smart-contract-tests",
                  "smart-contract-generate"}
Tasks == ContractTasks \cup {"code-review", "general-assistant"}

Facts == {"pragma", "contract", "foundry", "unprotected", "pauseIgnored",
          "manualBalance", "nativeBalance", "safeMath", "transfer",
          "ownerCheck", "ownerNamed", "fixedTransfer", "balanceFunction",
          "fuzz", "wantsDiagram", "wantsMockup"}

(* "body" stands for the length a task demands, a heading or a claim for   *)
(* every phrase the code lists for it.                                     *)
Claims == {"restricted", "pauseEnforced", "balanceExact", "balanceIsNative",
           "usesNative", "tracksNative", "usesSafeMath", "safeMathGuards",
           "transferReenters", "quotedReenters", "noAccessControl",
           "paysUnauthorized", "anyRecipient", "receiveForwards", "executed"}
Reports == {"findingsHeading", "saysUnrestricted", "saysPauseIgnored",
            "saysDiverges", "saysBrittle"}
TestLines == {"import", "prank", "expectRevert", "legacyRevert", "receiveCall",
              "receiveNamed", "balanceCall", "balanceRead", "depositCheat",
              "fuzzTest", "bounded", "receive", "random", "randomFunction"}
Caveats == {"termCaveat", "patternCaveat", "balanceCaveat", "groundingCaveat"}
Statements == Elements \cup Claims \cup Reports \cup TestLines \cup Caveats
  \cup {"body", "leadingBlank", "class", "contract", "mermaid", "mockup",
        "keyword", "inventedFunction"}

Source == [facts: SUBSET Facts, elements: SUBSET Elements]
Text == SUBSET Statements
Product == [task: Tasks, summary: Text, deliverable: Text, actionItems: Text,
            caveats: Text, coverage: Text]

IsSolidity(src) == {"pragma", "contract"} \subseteq src.facts
Prose(p) == p.summary \cup p.deliverable \cup p.actionItems \cup p.caveats

-----------------------------------------------------------------------------
(* Claims a source refutes.                                                *)

(* What a review may not say of a source that has a fact, or that lacks it.*)
RefutedByPresence == [unprotected   |-> {"restricted"},
                      pauseIgnored  |-> {"pauseEnforced"},
                      manualBalance |-> {"balanceExact", "balanceIsNative"},
                      transfer      |-> {"transferReenters"}]
RefutedByAbsence == [nativeBalance |-> {"usesNative", "tracksNative"},
                     safeMath      |-> {"usesSafeMath"}]

ReviewRefuted(src) ==
  {"safeMathGuards"}
    \cup (UNION {RefutedByPresence[f] : f \in src.facts \cap DOMAIN RefutedByPresence})
    \cup (UNION {RefutedByAbsence[f] : f \in DOMAIN RefutedByAbsence \ src.facts})

(* The sentence pattern cuts address(this).balance at its dot: these two   *)
(* are seen in a list, never in a sentence of a text.                      *)
CutInSentences == {"tracksNative", "balanceIsNative"}

(* Only the validation knows the spelling that quotes `transfer`.          *)
ReviewRejected(src) ==
  ReviewRefuted(src) \cup (IF "transfer" \in src.facts THEN {"quotedReenters"} ELSE {})

RefutedInContracts == [ownerCheck    |-> {"noAccessControl", "paysUnauthorized"},
                       transfer      |-> {"transferReenters"},
                       fixedTransfer |-> {"anyRecipient", "paysUnauthorized"}]

ContractRefuted(src) ==
  (UNION {RefutedInContracts[f] : f \in src.facts \cap DOMAIN RefutedInContracts})
    \cup (IF "receive" \in src.elements THEN {"receiveForwards"} ELSE {})

-----------------------------------------------------------------------------
(* Normalisations, in the order of Complete and ValidatePreparedWork.      *)

Reworded(text, from, to) == IF from \in text THEN (text \ {from}) \cup {to} ELSE text

Terminology(p, src) ==
  IF p.task \in ContractTasks /\ IsSolidity(src) /\ "class" \in Prose(p)
    THEN [p EXCEPT !.summary = Reworded(@, "class", "contract"),
                   !.deliverable = Reworded(@, "class", "contract"),
                   !.actionItems = Reworded(@, "class", "contract"),
                   !.caveats = Reworded(@, "class", "contract") \cup {"termCaveat"}]
    ELSE p

(* A receive function called by name becomes a value transfer, a legacy    *)
(* revert string an unspecific expectRevert.                               *)
TestPatterns(p, src) ==
  IF /\ p.task = "smart-contract-tests" /\ "foundry" \in src.facts
     /\ {"receiveCall", "legacyRevert"} \cap p.deliverable # {}
    THEN [p EXCEPT !.deliverable = Reworded(Reworded(@, "receiveCall", "receive"),
                                            "legacyRevert", "expectRevert"),
                   !.caveats = @ \cup {"patternCaveat"}]
    ELSE p

BalanceAccess(p, src) ==
  IF /\ p.task = "smart-contract-tests" /\ "foundry" \in src.facts
     /\ "balanceFunction" \notin src.facts /\ "balanceCall" \in p.deliverable
    THEN [p EXCEPT !.deliverable = Reworded(@, "balanceCall", "balanceRead"),
                   !.caveats = @ \cup {"balanceCaveat"}]
    ELSE p

Exercised(p, src) == src.elements \cap p.deliverable

TestCoverage(p, src) ==
  IF p.task = "smart-contract-tests"
    THEN [p EXCEPT !.coverage = @ \cup Exercised(p, src)]
    ELSE p

-----------------------------------------------------------------------------
(* The deterministic findings of a Solidity review.                        *)

FindingOf == [unprotected   |-> "saysUnrestricted",
              pauseIgnored  |-> "saysPauseIgnored",
              manualBalance |-> "saysDiverges",
              transfer      |-> "saysBrittle"]

Findings(src) == {FindingOf[f] : f \in src.facts \cap DOMAIN FindingOf}

Sentences(text, src) == text \ (ReviewRefuted(src) \ CutInSentences)
Items(list, src) == list \ ReviewRefuted(src)

Uncontradicted(p, src) ==
  [p EXCEPT !.summary = Sentences(@, src), !.deliverable = Sentences(@, src),
            !.actionItems = Items(@, src), !.caveats = Items(@, src),
            !.coverage = src.elements]

(* Mutant: the count of the summary replaces that of the deliverable.      *)
CorrectedSummary(p, src) ==
  \E f \in {"summary", "actionItems", "caveats"} :
    Uncontradicted(p, src)[f] # p[f]

Corrected(p, src) ==
  \E f \in {"summary", "deliverable", "actionItems", "caveats"} :
    Uncontradicted(p, src)[f] # p[f]

(* The findings are appended to the deliverable, after an empty line; with *)
(* nothing left before it, that line leads the deliverable.                *)
WithFindings(text, src) ==
  IF "findingsHeading" \in text THEN text
  ELSE text \cup {"findingsHeading"} \cup Findings(src)
         \cup (IF text = {} THEN {"leadingBlank"} ELSE {})

Grounded(p, src) ==
  IF p.task = "code-review" /\ IsSolidity(src)
    THEN LET q == Uncontradicted(p, src) IN
         [q EXCEPT !.summary = IF "unprotected" \in src.facts
                                 THEN {"saysUnrestricted"} ELSE @,
                   !.deliverable = WithFindings(@, src),
                   !.caveats = IF Corrected(p, src) THEN @ \cup {"groundingCaveat"} ELSE @]
    ELSE p

(* Mutant: the coverage is completed before the test calls are corrected.  *)
NormalizedCoverageFirst(p, src) ==
  Grounded(BalanceAccess(TestPatterns(TestCoverage(Terminology(p, src), src), src), src), src)

Normalized(p, src) ==
  Grounded(TestCoverage(BalanceAccess(TestPatterns(Terminology(p, src), src), src), src), src)

-----------------------------------------------------------------------------
(* Validation.                                                             *)

(* One finding of a Solidity review is a sentence long enough by itself.   *)
Substantial(text) ==
  "body" \in text \/ {"saysUnrestricted", "saysPauseIgnored", "saysDiverges",
                      "saysBrittle"} \cap text # {}

Keywords == {"keyword", "close", "make", "range", "select"}

(* In a Solidity review the coverage is the source's own elements, also    *)
(* when one of them has the name of a Go keyword.                          *)
CoverageGrounded(p) ==
  p.task = "code-review" => p.coverage \cap (Keywords \cup {"inventedFunction"}) = {}

GeneralValid(p, src) ==
  /\ Substantial(p.deliverable)
  /\ CoverageGrounded(p)
  /\ "wantsDiagram" \in src.facts => "mermaid" \in p.deliverable
  /\ "wantsMockup" \in src.facts => "mockup" \in p.deliverable
  /\ "executed" \notin p.deliverable

ReviewValid(p, src) ==
  /\ Prose(p) \cap ReviewRejected(src) = {}
  /\ "unprotected" \in src.facts => "saysUnrestricted" \in Prose(p)
  /\ "pauseIgnored" \in src.facts => "saysPauseIgnored" \in Prose(p)
  /\ "manualBalance" \in src.facts =>
       {"saysDiverges", "usesNative", "tracksNative"} \cap Prose(p) # {}

TestCodeValid(text, src) ==
  /\ {"depositCheat", "receiveNamed", "legacyRevert"} \cap text = {}
  /\ "balanceCall" \in text => "balanceFunction" \in src.facts
  /\ "random" \in text => "randomFunction" \in text
  /\ "contract" \in src.facts => {"import", "contract"} \cap text # {}
  /\ "ownerNamed" \in src.facts => {"prank", "expectRevert"} \subseteq text
  /\ "fuzz" \in src.facts \/ "fuzzTest" \in text => "bounded" \in text

(* Mutant: an element may be in the text or in the coverage.               *)
ContractValidEither(p, src) ==
  /\ "body" \in p.deliverable
  /\ p.task = "smart-contract-tests" => TestCodeValid(p.deliverable, src)
  /\ p.task # "smart-contract-generate" =>
       /\ src.elements \subseteq p.deliverable \cup p.coverage
       /\ Prose(p) \cap ContractRefuted(src) = {}
       /\ "contract" \in src.facts => "class" \notin p.deliverable

ContractValid(p, src) ==
  /\ "body" \in p.deliverable
  /\ p.task = "smart-contract-tests" => TestCodeValid(p.deliverable, src)
  /\ p.task # "smart-contract-generate" =>
       /\ src.elements \subseteq p.deliverable
       /\ p.task = "smart-contract-tests" \/ src.elements \subseteq p.coverage
       /\ Prose(p) \cap ContractRefuted(src) = {}
       /\ "contract" \in src.facts => "class" \notin p.deliverable

Valid(p, src) ==
  IF p.task \in ContractTasks THEN ContractValid(p, src)
  ELSE /\ GeneralValid(p, src)
       /\ p.task = "code-review" /\ IsSolidity(src) => ReviewValid(p, src)

-----------------------------------------------------------------------------
(* Preparation and release.                                                *)

Complete(p) == p.summary # {} /\ p.deliverable # {}

(* A draft is offered as its normal form, when it was not empty and that   *)
(* form is valid.                                                          *)
Acceptable(draft, src) == Complete(draft) /\ Valid(Normalized(draft, src), src)

(* ValidatePreparedWork: the same steps on the trimmed work.               *)
Trimmed(p) == [p EXCEPT !.deliverable = @ \ {"leadingBlank"}]
Revalidated(p, src) == Normalized(Trimmed(p), src)
Releasable(p, src) ==
  /\ Complete(Trimmed(p))
  /\ Valid(Revalidated(p, src), src)
  /\ Revalidated(p, src) = p
=============================================================================
