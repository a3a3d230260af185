--------------------------- MODULE PaidWork_proofs ---------------------------
(***************************************************************************)
(* For every source and every draft a model may write: the second pass     *)
(* over prepared work changes nothing but work that was emptied, payable   *)
(* work covers its source, and what was taken out of it is disclosed.      *)
(***************************************************************************)
EXTENDS PaidWork, TLAPS

USE DEF ContractTasks

(* What the normalisations take out are claims, what they put in is not.   *)
LEMMA RefutedAreClaims ==
  ASSUME NEW src \in Source
  PROVE  ReviewRefuted(src) \subseteq Claims
<1>1. \A f \in DOMAIN RefutedByPresence : RefutedByPresence[f] \subseteq Claims
  BY DEF RefutedByPresence, Claims
<1>2. \A f \in DOMAIN RefutedByAbsence : RefutedByAbsence[f] \subseteq Claims
  BY DEF RefutedByAbsence, Claims
<1>3. {"safeMathGuards"} \subseteq Claims
  BY DEF Claims
<1> QED BY <1>1, <1>2, <1>3 DEF ReviewRefuted

LEMMA FindingsAreReports ==
  ASSUME NEW src \in Source
  PROVE  Findings(src) \subseteq Reports
BY DEF Findings, FindingOf, Reports

LEMMA ReportsAreNoClaims ==
  /\ Reports \cap Claims = {}
  /\ Caveats \cap Claims = {}
  /\ "leadingBlank" \notin Claims
  /\ "leadingBlank" \notin Reports
BY DEF Reports, Claims, Caveats

(* Two products with the same fields are the same.                         *)
LEMMA SameProduct ==
  ASSUME NEW p \in Product, NEW q \in Product,
         p.task = q.task, p.summary = q.summary, p.deliverable = q.deliverable,
         p.actionItems = q.actionItems, p.caveats = q.caveats, p.coverage = q.coverage
  PROVE  p = q
BY DEF Product

-----------------------------------------------------------------------------
(* Each step, field by field.                                              *)

LEMMA RewordedText ==
  ASSUME NEW text \in Text, NEW from \in Statements, NEW to \in Statements
  PROVE  /\ Reworded(text, from, to) \in Text
         /\ from # to => from \notin Reworded(text, from, to)
         /\ Reworded(text, from, to) \subseteq text \cup {to}
BY DEF Text, Reworded

LEMMA FieldsAreTexts ==
  ASSUME NEW p \in Product
  PROVE  /\ p.summary \in Text /\ p.deliverable \in Text /\ p.actionItems \in Text
         /\ p.caveats \in Text /\ p.coverage \in Text /\ p.task \in Tasks
BY DEF Product

LEMMA StatementsIncluded ==
  /\ Claims \subseteq Statements /\ Reports \subseteq Statements
  /\ TestLines \subseteq Statements /\ Caveats \subseteq Statements
  /\ Elements \subseteq Statements
  /\ {"class", "contract", "leadingBlank"} \subseteq Statements
BY DEF Statements

(* A disclosure is among the caveats whenever the step changes the product,*)
(* and no step takes one away.                                             *)
KeepsDisclosures(p, q) == Caveats \cap p.caveats \subseteq q.caveats

LEMMA TerminologyStep ==
  ASSUME NEW p \in Product, NEW src \in Source
  PROVE  /\ Terminology(p, src) \in Product
         /\ Terminology(p, src).task = p.task
         /\ p.task \in ContractTasks /\ IsSolidity(src) =>
              "class" \notin Prose(Terminology(p, src))
         /\ Terminology(p, src) = p \/ "termCaveat" \in Terminology(p, src).caveats
<1> DEFINE W(t) == Reworded(t, "class", "contract")
<1>1. \A t \in Text : W(t) \in Text /\ "class" \notin W(t)
  BY RewordedText, StatementsIncluded
<1>2. W(p.caveats) \cup {"termCaveat"} \in Text
  BY <1>1, FieldsAreTexts, StatementsIncluded DEF Text, Caveats
<1>3. CASE p.task \in ContractTasks /\ IsSolidity(src) /\ "class" \in Prose(p)
  <2> DEFINE q == [p EXCEPT !.summary = W(@), !.deliverable = W(@), !.actionItems = W(@),
                            !.caveats = W(@) \cup {"termCaveat"}]
  <2>1. Terminology(p, src) = q
    BY <1>3 DEF Terminology
  <2>2. /\ q.task = p.task /\ q.summary = W(p.summary)
        /\ q.deliverable = W(p.deliverable) /\ q.actionItems = W(p.actionItems)
        /\ q.caveats = W(p.caveats) \cup {"termCaveat"} /\ q \in Product
    <3> HIDE DEF W
    <3> QED BY <1>1, <1>2, FieldsAreTexts DEF Product
  <2>3. "class" \notin Prose(q)
    BY <2>2, <1>1, FieldsAreTexts DEF Prose
  <2> QED BY <2>1, <2>2, <2>3
<1>4. CASE ~(p.task \in ContractTasks /\ IsSolidity(src) /\ "class" \in Prose(p))
  BY <1>4 DEF Terminology
<1> QED BY <1>3, <1>4

LEMMA TestPatternsStep ==
  ASSUME NEW p \in Product, NEW src \in Source
  PROVE  /\ TestPatterns(p, src) \in Product
         /\ TestPatterns(p, src).task = p.task
         /\ "class" \in Prose(TestPatterns(p, src)) => "class" \in Prose(p)
         /\ p.task = "smart-contract-tests" /\ "foundry" \in src.facts =>
              {"receiveCall", "legacyRevert"} \cap TestPatterns(p, src).deliverable = {}
         /\ TestPatterns(p, src) = p \/ "patternCaveat" \in TestPatterns(p, src).caveats
         /\ KeepsDisclosures(p, TestPatterns(p, src))
<1> DEFINE W(t) == Reworded(Reworded(t, "receiveCall", "receive"),
                            "legacyRevert", "expectRevert")
<1>1. {"receiveCall", "receive", "legacyRevert", "expectRevert"} \subseteq Statements
  BY StatementsIncluded DEF TestLines
<1>2. \A t \in Text : /\ W(t) \in Text
                       /\ {"receiveCall", "legacyRevert"} \cap W(t) = {}
                       /\ W(t) \subseteq t \cup {"receive", "expectRevert"}
  <2> TAKE t \in Text
  <2> DEFINE u == Reworded(t, "receiveCall", "receive")
  <2>1. u \in Text /\ "receiveCall" \notin u /\ u \subseteq t \cup {"receive"}
    BY <1>1, RewordedText
  <2>2. W(t) \in Text /\ "legacyRevert" \notin W(t) /\ W(t) \subseteq u \cup {"expectRevert"}
    <3> HIDE DEF u
    <3> SUFFICES LET v == Reworded(u, "legacyRevert", "expectRevert") IN
                 v \in Text /\ "legacyRevert" \notin v /\ v \subseteq u \cup {"expectRevert"}
      BY DEF u
    <3> QED BY <1>1, <2>1, RewordedText
  <2> QED BY <2>1, <2>2
<1>3. p.caveats \cup {"patternCaveat"} \in Text
  BY FieldsAreTexts, StatementsIncluded DEF Text, Caveats
<1>4. CASE /\ p.task = "smart-contract-tests" /\ "foundry" \in src.facts
           /\ {"receiveCall", "legacyRevert"} \cap p.deliverable # {}
  <2> DEFINE q == [p EXCEPT !.deliverable = W(@), !.caveats = @ \cup {"patternCaveat"}]
  <2>1. TestPatterns(p, src) = q
    BY <1>4 DEF TestPatterns
  <2>2. /\ q.task = p.task /\ q.summary = p.summary
        /\ q.deliverable = W(p.deliverable) /\ q.actionItems = p.actionItems
        /\ q.caveats = p.caveats \cup {"patternCaveat"} /\ q \in Product
    <3> HIDE DEF W
    <3> QED BY <1>2, <1>3, FieldsAreTexts DEF Product
  <2>3. "class" \in Prose(q) => "class" \in Prose(p)
    BY <2>2, <1>2, FieldsAreTexts DEF Prose
  <2> QED BY <2>1, <2>2, <2>3, <1>2, FieldsAreTexts DEF KeepsDisclosures
<1>5. CASE ~(/\ p.task = "smart-contract-tests" /\ "foundry" \in src.facts
             /\ {"receiveCall", "legacyRevert"} \cap p.deliverable # {})
  BY <1>5 DEF TestPatterns, KeepsDisclosures
<1> QED BY <1>4, <1>5

LEMMA BalanceAccessStep ==
  ASSUME NEW p \in Product, NEW src \in Source
  PROVE  /\ BalanceAccess(p, src) \in Product
         /\ BalanceAccess(p, src).task = p.task
         /\ "class" \in Prose(BalanceAccess(p, src)) => "class" \in Prose(p)
         /\ BalanceAccess(p, src).deliverable \subseteq p.deliverable \cup {"balanceRead"}
         /\ (/\ p.task = "smart-contract-tests" /\ "foundry" \in src.facts
             /\ "balanceFunction" \notin src.facts)
            => "balanceCall" \notin BalanceAccess(p, src).deliverable
         /\ BalanceAccess(p, src) = p \/ "balanceCaveat" \in BalanceAccess(p, src).caveats
         /\ KeepsDisclosures(p, BalanceAccess(p, src))
<1> DEFINE W(t) == Reworded(t, "balanceCall", "balanceRead")
<1>1. \A t \in Text : W(t) \in Text /\ "balanceCall" \notin W(t)
                      /\ W(t) \subseteq t \cup {"balanceRead"}
  BY RewordedText, StatementsIncluded DEF TestLines
<1>2. p.caveats \cup {"balanceCaveat"} \in Text
  BY FieldsAreTexts, StatementsIncluded DEF Text, Caveats
<1>3. CASE /\ p.task = "smart-contract-tests" /\ "foundry" \in src.facts
           /\ "balanceFunction" \notin src.facts /\ "balanceCall" \in p.deliverable
  <2> DEFINE q == [p EXCEPT !.deliverable = W(@), !.caveats = @ \cup {"balanceCaveat"}]
  <2>1. BalanceAccess(p, src) = q
    BY <1>3 DEF BalanceAccess
  <2>2. /\ q.task = p.task /\ q.summary = p.summary
        /\ q.deliverable = W(p.deliverable) /\ q.actionItems = p.actionItems
        /\ q.caveats = p.caveats \cup {"balanceCaveat"} /\ q \in Product
    <3> HIDE DEF W
    <3> QED BY <1>1, <1>2, FieldsAreTexts DEF Product
  <2>3. "class" \in Prose(q) => "class" \in Prose(p)
    BY <2>2, <1>1, FieldsAreTexts DEF Prose
  <2> QED BY <2>1, <2>2, <2>3, <1>1, FieldsAreTexts DEF KeepsDisclosures
<1>4. CASE ~(/\ p.task = "smart-contract-tests" /\ "foundry" \in src.facts
             /\ "balanceFunction" \notin src.facts /\ "balanceCall" \in p.deliverable)
  BY <1>4 DEF BalanceAccess, KeepsDisclosures
<1> QED BY <1>3, <1>4

LEMMA TestCoverageStep ==
  ASSUME NEW p \in Product, NEW src \in Source
  PROVE  LET q == TestCoverage(p, src) IN
         /\ q \in Product
         /\ q.task = p.task /\ q.summary = p.summary /\ q.deliverable = p.deliverable
         /\ q.actionItems = p.actionItems /\ q.caveats = p.caveats
         /\ p.coverage \subseteq q.coverage
         /\ p.task = "smart-contract-tests" =>
              src.elements \cap q.deliverable \subseteq q.coverage
<1> DEFINE c == p.coverage \cup (src.elements \cap p.deliverable)
<1>1. c \in Text
  BY FieldsAreTexts DEF Text
<1>2. CASE p.task = "smart-contract-tests"
  <2> DEFINE q == [p EXCEPT !.coverage = c]
  <2>1. TestCoverage(p, src) = q
    BY <1>2 DEF TestCoverage, Exercised
  <2>2. /\ q \in Product
        /\ q.task = p.task /\ q.summary = p.summary /\ q.deliverable = p.deliverable
        /\ q.actionItems = p.actionItems /\ q.caveats = p.caveats /\ q.coverage = c
    <3> HIDE DEF c
    <3> QED BY <1>1, FieldsAreTexts DEF Product
  <2> QED BY <2>1, <2>2
<1>3. CASE p.task # "smart-contract-tests"
  BY <1>3 DEF TestCoverage
<1> QED BY <1>2, <1>3

-----------------------------------------------------------------------------
(* What p is made of the draft d discloses, and replaces without a caveat. *)
Discloses(d, p, src) ==
  LET replaced == FromSource(p.task, src) IN
  /\ \A f \in replaced : p[f] = Analysis(src)[f]
  /\ Lost(d, p) \subseteq replaced \/ Caveats \cap p.caveats # {}

(* Contract work: after one pass every step is idle, the tests' elements   *)
(* are in the coverage, and any change was disclosed.                      *)
LEMMA ContractPass ==
  ASSUME NEW p \in Product, NEW src \in Source, p.task \in ContractTasks
  PROVE  LET q == Normalized(p, src) IN
         /\ q \in Product /\ q.task = p.task
         /\ Normalized(q, src) = q
         /\ p.task = "smart-contract-tests" =>
              src.elements \cap q.deliverable \subseteq q.coverage
         /\ Discloses(p, q, src)
<1> DEFINE t == Terminology(p, src)
           u == TestPatterns(t, src)
           b == BalanceAccess(u, src)
           c == TestCoverage(b, src)
<1>1. /\ t \in Product /\ t.task = p.task
      /\ IsSolidity(src) => "class" \notin Prose(t)
      /\ t = p \/ "termCaveat" \in t.caveats
  BY TerminologyStep
<1> HIDE DEF t
<1>2. /\ u \in Product /\ u.task = p.task
      /\ IsSolidity(src) => "class" \notin Prose(u)
      /\ p.task = "smart-contract-tests" /\ "foundry" \in src.facts =>
           {"receiveCall", "legacyRevert"} \cap u.deliverable = {}
      /\ u = t \/ "patternCaveat" \in u.caveats
      /\ KeepsDisclosures(t, u)
  BY <1>1, TestPatternsStep
<1> HIDE DEF u
<1>3. /\ b \in Product /\ b.task = p.task
      /\ IsSolidity(src) => "class" \notin Prose(b)
      /\ b.deliverable \subseteq u.deliverable \cup {"balanceRead"}
      /\ (/\ p.task = "smart-contract-tests" /\ "foundry" \in src.facts
          /\ "balanceFunction" \notin src.facts) => "balanceCall" \notin b.deliverable
      /\ b = u \/ "balanceCaveat" \in b.caveats
      /\ KeepsDisclosures(u, b)
  BY <1>2, BalanceAccessStep
<1> HIDE DEF b
<1>4. /\ c \in Product /\ c.task = p.task /\ c.summary = b.summary
      /\ c.deliverable = b.deliverable /\ c.actionItems = b.actionItems
      /\ c.caveats = b.caveats /\ b.coverage \subseteq c.coverage
      /\ p.task = "smart-contract-tests" =>
           src.elements \cap c.deliverable \subseteq c.coverage
  BY <1>3, TestCoverageStep
<1>5. Normalized(p, src) = c
  BY <1>4 DEF Normalized, Grounded, t, u, b
<1> HIDE DEF c
<1>6. Normalized(c, src) = c
  <2>1. Terminology(c, src) = c
    BY <1>3, <1>4 DEF Terminology, Prose
  <2>2. TestPatterns(c, src) = c
    BY <1>2, <1>3, <1>4 DEF TestPatterns
  <2>3. BalanceAccess(c, src) = c
    BY <1>3, <1>4 DEF BalanceAccess
  <2>4. TestCoverage(c, src) = c
    <3>1. CASE p.task = "smart-contract-tests"
      <4> DEFINE d == TestCoverage(c, src)
      <4>1. d = [c EXCEPT !.coverage = c.coverage \cup (src.elements \cap c.deliverable)]
        BY <3>1, <1>4 DEF TestCoverage, Exercised
      <4>2. c.coverage \cup (src.elements \cap c.deliverable) = c.coverage
        BY <3>1, <1>4
      <4>3. d = [c EXCEPT !.coverage = c.coverage]
        BY <4>1, <4>2
      <4> QED BY <4>3, <1>4 DEF Product
    <3>2. CASE p.task # "smart-contract-tests"
      BY <3>2, <1>4 DEF TestCoverage
    <3> QED BY <3>1, <3>2
  <2>5. Grounded(c, src) = c
    BY <1>4 DEF Grounded
  <2> QED BY <2>1, <2>2, <2>3, <2>4, <2>5 DEF Normalized
<1>7. Discloses(p, c, src)
  <2>1. FromSource(c.task, src) = {}
    BY <1>4 DEF FromSource, ContractTasks
  <2>2. CASE t # p \/ u # t \/ b # u
    <3>1. Caveats \cap c.caveats # {}
      BY <2>2, <1>1, <1>2, <1>3, <1>4 DEF KeepsDisclosures, Caveats
    <3> QED BY <2>1, <3>1 DEF Discloses
  <2>3. CASE t = p /\ u = t /\ b = u
    <3>1. Lost(p, c) = {}
      BY <2>3, <1>4 DEF Lost, Texts
    <3> QED BY <2>1, <3>1 DEF Discloses
  <2> QED BY <2>2, <2>3
<1> QED BY <1>4, <1>5, <1>6, <1>7

-----------------------------------------------------------------------------
(* Solidity reviews.                                                       *)

LEMMA UncontradictedStep ==
  ASSUME NEW p \in Product, NEW src \in Source
  PROVE  LET u == Uncontradicted(p, src)
             S == ReviewRefuted(src) \ CutInSentences
         IN
         /\ u \in Product
         /\ u.task = p.task /\ u.coverage = src.elements
         /\ u.summary = p.summary \ S /\ u.deliverable = p.deliverable \ S
         /\ u.actionItems = p.actionItems \ ReviewRefuted(src)
         /\ u.caveats = p.caveats \ ReviewRefuted(src)
<1> DEFINE R == ReviewRefuted(src)
           S == R \ CutInSentences
<1>1. /\ p.summary \ S \in Text /\ p.deliverable \ S \in Text
      /\ p.actionItems \ R \in Text /\ p.caveats \ R \in Text
  BY FieldsAreTexts DEF Text
<1>2. src.elements \in Text
  BY StatementsIncluded DEF Text, Source
<1>3. Uncontradicted(p, src) =
        [p EXCEPT !.summary = p.summary \ S, !.deliverable = p.deliverable \ S,
                  !.actionItems = p.actionItems \ R, !.caveats = p.caveats \ R,
                  !.coverage = src.elements]
  BY DEF Uncontradicted, Sentences, Items
<1> HIDE DEF R, S
<1> QED BY <1>1, <1>2, <1>3, FieldsAreTexts DEF Product, R, S

LEMMA GroundedStep ==
  ASSUME NEW p \in Product, NEW src \in Source,
         p.task = "code-review", IsSolidity(src)
  PROVE  LET g == Grounded(p, src)
             S == ReviewRefuted(src) \ CutInSentences
             C == p.caveats \ ReviewRefuted(src)
         IN
         /\ g \in Product
         /\ g.task = p.task /\ g.coverage = src.elements
         /\ g.summary = IF "unprotected" \in src.facts THEN {"saysUnrestricted"}
                        ELSE p.summary \ S
         /\ g.deliverable = WithFindings(p.deliverable \ S, src)
         /\ g.actionItems = p.actionItems \ ReviewRefuted(src)
         /\ g.caveats = IF Corrected(p, src) THEN C \cup {"groundingCaveat"} ELSE C
<1> DEFINE u == Uncontradicted(p, src)
           s == IF "unprotected" \in src.facts THEN {"saysUnrestricted"} ELSE u.summary
           d == WithFindings(u.deliverable, src)
           c == IF Corrected(p, src) THEN u.caveats \cup {"groundingCaveat"} ELSE u.caveats
<1>1. u \in Product
  BY UncontradictedStep
<1>2. Grounded(p, src) = [u EXCEPT !.summary = s, !.deliverable = d, !.caveats = c]
  BY DEF Grounded
<1> HIDE DEF u
<1>3. Findings(src) \in Text /\ {"findingsHeading", "leadingBlank"} \in Text
      /\ {"saysUnrestricted"} \in Text /\ {"groundingCaveat"} \in Text
  BY FindingsAreReports, StatementsIncluded DEF Text, Reports, Caveats
<1>4. s \in Text /\ d \in Text /\ c \in Text
  BY <1>1, <1>3, FieldsAreTexts DEF Text, WithFindings
<1> HIDE DEF s, d, c
<1>5. LET g == [u EXCEPT !.summary = s, !.deliverable = d, !.caveats = c] IN
      /\ g \in Product
      /\ g.task = u.task /\ g.coverage = u.coverage /\ g.summary = s
      /\ g.deliverable = d /\ g.actionItems = u.actionItems /\ g.caveats = c
  BY <1>1, <1>4, FieldsAreTexts DEF Product
<1> QED BY <1>2, <1>5, UncontradictedStep DEF u, s, d, c

LEMMA ReviewPass ==
  ASSUME NEW p \in Product, NEW src \in Source,
         p.task = "code-review", IsSolidity(src)
  PROVE  LET q == Grounded(p, src) IN
         /\ q \in Product /\ q.task = p.task
         /\ Grounded(q, src) = q
         /\ Discloses(p, q, src)
<1> DEFINE R == ReviewRefuted(src)
           S == R \ CutInSentences
           D == p.deliverable \ S
           C == p.caveats \ R
           q == Grounded(p, src)
           g == Grounded(q, src)
<1>1. R \subseteq Claims
  BY RefutedAreClaims
<1>2. /\ Findings(src) \subseteq Reports
      /\ "saysUnrestricted" \in Reports /\ "findingsHeading" \in Reports
      /\ "groundingCaveat" \in Caveats
  BY FindingsAreReports DEF Reports, Caveats
<1>3. /\ q \in Product
      /\ q.task = p.task /\ q.coverage = src.elements
      /\ q.summary = IF "unprotected" \in src.facts THEN {"saysUnrestricted"}
                     ELSE p.summary \ S
      /\ q.deliverable = WithFindings(D, src)
      /\ q.actionItems = p.actionItems \ R
      /\ q.caveats = IF Corrected(p, src) THEN C \cup {"groundingCaveat"} ELSE C
  BY GroundedStep
<1>4. /\ g \in Product
      /\ g.task = q.task /\ g.coverage = src.elements
      /\ g.summary = IF "unprotected" \in src.facts THEN {"saysUnrestricted"}
                     ELSE q.summary \ S
      /\ g.deliverable = WithFindings(q.deliverable \ S, src)
      /\ g.actionItems = q.actionItems \ R
      /\ g.caveats = IF Corrected(q, src) THEN (q.caveats \ R) \cup {"groundingCaveat"}
                     ELSE q.caveats \ R
  <2>1. q \in Product /\ q.task = "code-review"
    BY <1>3
  <2> HIDE DEF q
  <2> QED BY <2>1, GroundedStep
<1>5. /\ D \subseteq q.deliverable /\ "findingsHeading" \in q.deliverable
      /\ q.deliverable \subseteq D \cup Reports \cup {"leadingBlank"}
  BY <1>2, <1>3 DEF WithFindings
<1> HIDE DEF R, q
<1>6. /\ q.summary \ S = q.summary /\ q.deliverable \ S = q.deliverable
      /\ q.actionItems \ R = q.actionItems /\ q.caveats \ R = q.caveats
  <2>1. q.summary \ S = q.summary
    BY <1>1, <1>2, <1>3, ReportsAreNoClaims
  <2>2. q.deliverable \cap S = {}
    BY <1>1, <1>5, ReportsAreNoClaims
  <2>3. q.caveats \cap R = {}
    BY <1>1, <1>2, <1>3, ReportsAreNoClaims
  <2> QED BY <1>3, <2>1, <2>2, <2>3
<1>7. ~Corrected(q, src)
  <2> DEFINE v == Uncontradicted(q, src)
  <2>1. /\ v.summary = q.summary /\ v.deliverable = q.deliverable
        /\ v.actionItems = q.actionItems /\ v.caveats = q.caveats
    BY <1>3, <1>6, UncontradictedStep DEF R
  <2> QED BY <2>1 DEF Corrected
<1>8. WithFindings(q.deliverable, src) = q.deliverable
  BY <1>5 DEF WithFindings
<1>9. g = q
  <2>1. /\ g.task = q.task /\ g.summary = q.summary /\ g.deliverable = q.deliverable
        /\ g.actionItems = q.actionItems /\ g.caveats = q.caveats
        /\ g.coverage = q.coverage
    BY <1>3, <1>4, <1>6, <1>7, <1>8
  <2> QED BY <2>1, <1>3, <1>4, SameProduct
<1>10. Discloses(p, q, src)
  <2>1. /\ FromSource(q.task, src) =
             {"coverage"} \cup (IF "unprotected" \in src.facts THEN {"summary"} ELSE {})
        /\ q.coverage = Analysis(src).coverage
        /\ "unprotected" \in src.facts => q.summary = Analysis(src).summary
    BY <1>3 DEF FromSource, Analysis
  <2>2. \A f \in FromSource(q.task, src) : q[f] = Analysis(src)[f]
    BY <2>1
  <2>3. CASE Corrected(p, src)
    <3>1. Caveats \cap q.caveats # {}
      BY <2>3, <1>2, <1>3
    <3> QED BY <2>2, <3>1 DEF Discloses
  <2>4. CASE ~Corrected(p, src)
    <3>1. /\ p.summary \ S = p.summary /\ D = p.deliverable
          /\ p.actionItems \ R = p.actionItems /\ C = p.caveats
      BY <2>4, UncontradictedStep DEF Corrected, R
    <3>2. /\ p.deliverable \subseteq q.deliverable
          /\ p.actionItems \subseteq q.actionItems /\ p.caveats \subseteq q.caveats
          /\ "unprotected" \notin src.facts => p.summary \subseteq q.summary
      BY <2>4, <3>1, <1>3, <1>5
    <3>3. Lost(p, q) \subseteq FromSource(q.task, src)
      BY <2>1, <3>2 DEF Lost, Texts
    <3> QED BY <2>2, <3>3 DEF Discloses
  <2> QED BY <2>3, <2>4
<1> QED BY <1>3, <1>9, <1>10 DEF q

-----------------------------------------------------------------------------
(* One pass over any product.                                              *)

LEMMA OnePass ==
  ASSUME NEW p \in Product, NEW src \in Source
  PROVE  LET q == Normalized(p, src) IN
         /\ q \in Product /\ q.task = p.task
         /\ Normalized(q, src) = q
         /\ p.task = "smart-contract-tests" =>
              src.elements \cap q.deliverable \subseteq q.coverage
         /\ Discloses(p, q, src)
<1>1. CASE p.task \in ContractTasks
  BY <1>1, ContractPass
<1>2. CASE p.task \notin ContractTasks
  <2>1. \A r \in Product : r.task = p.task => Normalized(r, src) = Grounded(r, src)
    <3> SUFFICES ASSUME NEW r \in Product, r.task = p.task
                 PROVE  Normalized(r, src) = Grounded(r, src)
      OBVIOUS
    <3>1. Terminology(r, src) = r
      BY <1>2 DEF Terminology
    <3>2. TestPatterns(r, src) = r
      BY <1>2 DEF TestPatterns
    <3>3. BalanceAccess(r, src) = r
      BY <1>2 DEF BalanceAccess
    <3>4. TestCoverage(r, src) = r
      BY <1>2 DEF TestCoverage
    <3> QED BY <3>1, <3>2, <3>3, <3>4 DEF Normalized
  <2>2. CASE p.task = "code-review" /\ IsSolidity(src)
    BY <1>2, <2>1, <2>2, ReviewPass
  <2>3. CASE ~(p.task = "code-review" /\ IsSolidity(src))
    <3>1. Normalized(p, src) = p
      BY <2>1, <2>3 DEF Grounded
    <3>2. FromSource(p.task, src) = {} /\ Lost(p, p) = {}
      BY <2>3 DEF FromSource, Lost
    <3> QED BY <1>2, <3>1, <3>2 DEF Discloses
  <2> QED BY <2>2, <2>3
<1> QED BY <1>1, <1>2

(* Work that nothing emptied is released as it was offered.                *)
LEMMA SecondPass ==
  ASSUME NEW d \in Product, NEW src \in Source,
         Acceptable(d, src), ~Emptied(Normalized(d, src))
  PROVE  Releasable(Normalized(d, src), src)
<1> DEFINE q == Normalized(d, src)
<1>1. q \in Product /\ Normalized(q, src) = q
  BY OnePass
<1>2. Valid(q, src) /\ q.summary # {} /\ "leadingBlank" \notin q.deliverable
  BY DEF Acceptable, Emptied
<1> HIDE DEF q
<1>3. q.deliverable # {}
  BY <1>2 DEF Valid, ContractValid, GeneralValid, Substantial
<1>4. Trimmed(q) = q
  <2>1. q.deliverable \ {"leadingBlank"} = q.deliverable
    BY <1>2
  <2>2. Trimmed(q) = [q EXCEPT !.deliverable = q.deliverable]
    BY <2>1 DEF Trimmed
  <2> QED BY <2>2, <1>1 DEF Product
<1>5. Revalidated(q, src) = q
  BY <1>1, <1>4 DEF Revalidated
<1> QED BY <1>2, <1>3, <1>4, <1>5 DEF Releasable, Complete, q

-----------------------------------------------------------------------------
(* The inductive invariant: work is the normal form of an acceptable draft.*)

WorkOfDraft(o) ==
  work[o] # NoProduct =>
    /\ draft[o] \in Drafts(request[o])
    /\ Acceptable(draft[o], request[o].src)
    /\ work[o] = Normalized(draft[o], request[o].src)

NothingYet(o) ==
  /\ Writing(o) => work[o] = NoProduct
  /\ stage[o] = "offered" => request[o].lane # "direct"

PaidInv ==
  /\ PaidTypeOK
  /\ RefusedWhenEmptied
  /\ \A o \in Orders : WorkOfDraft(o) /\ NothingYet(o)

LEMMA DraftsAreProducts ==
  ASSUME NEW q \in Requests, NEW d \in Drafts(q)
  PROVE  d \in Product /\ d.task = q.task /\ q.src \in Source
BY PaidWorkAssumption

LEMMA PaidInitInv == PaidInit => PaidInv
BY PaidWorkAssumption
DEF PaidInit, PaidInv, PaidTypeOK, RefusedWhenEmptied, WorkOfDraft, NothingYet, Stages

(* Every step of an order but the acceptance of a draft keeps its work.    *)
LEMMA AcceptedStep ==
  ASSUME PaidInv, NEW o \in Orders, NEW d \in Drafts(request[o]), DraftAccepted(o, d)
  PROVE  PaidInv'
<1> USE DEF PaidInv
<1> DEFINE w == Normalized(d, request[o].src)
           s == IF request[o].lane = "direct" THEN "settling" ELSE "offered"
<1>1. request[o] \in Requests
  BY DEF PaidTypeOK
<1>2. d \in Product /\ w \in Product
  BY <1>1, DraftsAreProducts, OnePass
<1>3. /\ Acceptable(d, request[o].src)
      /\ draft' = [draft EXCEPT ![o] = d]
      /\ work' = [work EXCEPT ![o] = w]
      /\ attempt' = [attempt EXCEPT ![o] = 0]
      /\ stage' = [stage EXCEPT ![o] = s]
      /\ request' = request
  BY DEF DraftAccepted, Goto
<1> HIDE DEF w
<1>4. PaidTypeOK'
  BY <1>2, <1>3, PaidWorkAssumption DEF PaidTypeOK, Stages
<1>5. RefusedWhenEmptied'
  BY <1>3 DEF RefusedWhenEmptied, PaidTypeOK
<1>6. \A r \in Orders : WorkOfDraft(r)'
  BY <1>3 DEF WorkOfDraft, PaidTypeOK, w
<1>7. \A r \in Orders : NothingYet(r)'
  BY <1>3 DEF NothingYet, Writing, PaidTypeOK
<1> QED BY <1>4, <1>5, <1>6, <1>7

LEMMA WorkKept ==
  ASSUME PaidInv, NEW o \in Orders, UNCHANGED <<request, draft, work>>,
         NEW s \in Stages, NEW n \in 0 .. MaxAttempts,
         stage' = [stage EXCEPT ![o] = s], attempt' = [attempt EXCEPT ![o] = n],
         s = "refused" => work[o] = NoProduct \/ Emptied(work[o]),
         s \in {"preparing", "offered"} => s = stage[o],
         s = "paying" => s = stage[o] \/ request[o].lane # "direct"
  PROVE  PaidInv'
<1> USE DEF PaidInv
<1>1. PaidTypeOK'
  BY DEF PaidTypeOK
<1>2. RefusedWhenEmptied'
  BY DEF RefusedWhenEmptied, PaidTypeOK
<1>3. \A r \in Orders : WorkOfDraft(r)'
  BY DEF WorkOfDraft
<1>4. \A r \in Orders : NothingYet(r)'
  BY DEF NothingYet, Writing, PaidTypeOK
<1> QED BY <1>1, <1>2, <1>3, <1>4

LEMMA PaidStep ==
  ASSUME PaidInv, [PaidNext]_paidVars
  PROVE  PaidInv'
<1> USE DEF PaidInv
<1>1. CASE UNCHANGED paidVars
  BY <1>1 DEF paidVars, PaidTypeOK, RefusedWhenEmptied, Emptied, WorkOfDraft, NothingYet, Writing
<1>2. ASSUME NEW o \in Orders, OrderNext(o) PROVE PaidInv'
  <2> DEFINE Kept(s, n) == /\ UNCHANGED <<request, draft, work>>
                           /\ stage' = [stage EXCEPT ![o] = s]
                           /\ attempt' = [attempt EXCEPT ![o] = n]
  <2>1. stage[o] \in Stages /\ attempt[o] \in 0 .. MaxAttempts /\ MaxAttempts \in Nat
    BY PaidWorkAssumption DEF PaidTypeOK
  <2>2. stage = [stage EXCEPT ![o] = stage[o]] /\ attempt = [attempt EXCEPT ![o] = attempt[o]]
    BY DEF PaidTypeOK
  <2>3. CASE ModelFails(o) \/ \E d \in Drafts(request[o]) : attempt[o] < MaxAttempts /\ DraftRejected(o, d)
    <3>1. Kept(stage[o], attempt[o] + 1) /\ attempt[o] + 1 \in 0 .. MaxAttempts
      BY <2>1, <2>2, <2>3 DEF ModelFails, DraftRejected
    <3> QED BY <2>1, <3>1, WorkKept DEF RefusedWhenEmptied
  <2>4. ASSUME NEW d \in Drafts(request[o]), DraftAccepted(o, d) PROVE PaidInv'
    BY <2>4, AcceptedStep
  <2>5. CASE GivesUp(o) \/ CallerLeaves(o)
    <3> DEFINE s == IF CallerLeaves(o) THEN "left"
                    ELSE IF request[o].lane = "direct" THEN "refused" ELSE "rejected"
    <3>1. \E t \in {"left", "refused", "rejected"} : Kept(t, 0) /\ work[o] = NoProduct
      BY <2>5 DEF GivesUp, CallerLeaves, Goto, NothingYet
    <3>2. 0 \in 0 .. MaxAttempts /\ {"left", "refused", "rejected"} \subseteq Stages
      BY <2>1 DEF Stages
    <3> QED BY <3>1, <3>2, WorkKept
  <2>10. CASE AnalysisFails(o)
    <3>1. Kept("refused", 0) /\ work[o] = NoProduct
      BY <2>2, <2>10 DEF AnalysisFails, Goto, NothingYet, Writing
    <3>2. 0 \in 0 .. MaxAttempts /\ "refused" \in Stages
      BY <2>1 DEF Stages
    <3> QED BY <3>1, <3>2, WorkKept
  <2>6. CASE Pay(o)
    <3>1. Kept("paying", attempt[o]) /\ request[o].lane # "direct" /\ "paying" \in Stages
      BY <2>2, <2>6 DEF Pay, Goto, NothingYet, Stages
    <3> QED BY <2>1, <3>1, WorkKept
  <2>7. CASE Release(o)
    <3>1. Kept("settling", attempt[o]) /\ "settling" \in Stages
      BY <2>2, <2>7 DEF Release, Goto, Stages
    <3> QED BY <2>1, <3>1, WorkKept
  <2>8. CASE RefuseRelease(o)
    <3>1. Kept("refused", attempt[o]) /\ "refused" \in Stages
      BY <2>2, <2>8 DEF RefuseRelease, Goto, Stages
    <3>2. work[o] = NoProduct \/ Emptied(work[o])
      <4>1. request[o] \in Requests
        BY DEF PaidTypeOK
      <4> QED BY <2>8, <4>1, SecondPass, DraftsAreProducts DEF RefuseRelease, WorkOfDraft
    <3> QED BY <2>1, <3>1, <3>2, WorkKept
  <2>9. ASSUME NEW ok \in BOOLEAN, Settle(o, ok) PROVE PaidInv'
    <3>1. \E t \in {"settled", "unsettled"} : Kept(t, attempt[o]) /\ t \in Stages
      BY <2>2, <2>9 DEF Settle, Goto, Stages
    <3> QED BY <2>1, <3>1, WorkKept
  <2> QED BY <1>2, <2>3, <2>4, <2>5, <2>6, <2>7, <2>8, <2>9, <2>10
     DEF OrderNext, ModelWrites
<1> QED BY <1>1, <1>2 DEF PaidNext

LEMMA PaidInvariant == PaidSpec => []PaidInv
BY PaidInitInv, PaidStep, PTL DEF PaidSpec

-----------------------------------------------------------------------------

(* Type correctness of an order, for any requests and drafts.              *)
THEOREM PaidTypeCorrect == PaidSpec => []PaidTypeOK
BY PaidInvariant, PTL DEF PaidInv

(* Prepared work that a wallet paid for is refused only when removing      *)
(* refuted statements emptied it: ValidatePreparedWork changes no other.   *)
THEOREM ReleaseIsFixed == PaidSpec => []RefusedWhenEmptied
BY PaidInvariant, PTL DEF PaidInv

(* Payable work that lost anything of its draft has a caveat; only in a    *)
(* Solidity review are the coverage, and the summary when functions are    *)
(* unrestricted, replaced without one, and they hold what the analysis of  *)
(* the source found.                                                       *)
THEOREM Disclosure == PaidSpec => []Disclosed
<1>1. PaidInv => Disclosed
  <2> SUFFICES ASSUME PaidInv, NEW o \in Orders, Payable(o)
               PROVE  Discloses(draft[o], work[o], request[o].src)
    BY DEF Disclosed, Discloses
  <2>1. request[o] \in Requests /\ draft[o] \in Drafts(request[o])
        /\ work[o] = Normalized(draft[o], request[o].src)
    BY DEF PaidInv, PaidTypeOK, WorkOfDraft, Payable
  <2> QED BY <2>1, OnePass, DraftsAreProducts
<1> QED BY <1>1, PaidInvariant, PTL

(* Payable contract work covers every element of its source, in the text   *)
(* and in the coverage, also the tests whose calls were corrected.         *)
THEOREM Coverage == PaidSpec => []SourceCovered
<1>1. PaidInv => SourceCovered
  <2> SUFFICES ASSUME PaidInv, NEW o \in Orders, Payable(o),
                      work[o].task \in ContractTasks \ {"smart-contract-generate"}
               PROVE  request[o].src.elements \subseteq work[o].deliverable \cap work[o].coverage
    BY DEF SourceCovered
  <2> DEFINE src == request[o].src
  <2>1. /\ request[o] \in Requests /\ draft[o] \in Drafts(request[o])
        /\ Acceptable(draft[o], src) /\ work[o] = Normalized(draft[o], src)
    BY DEF PaidInv, PaidTypeOK, WorkOfDraft, Payable
  <2>2. ContractValid(work[o], src)
    BY <2>1 DEF Acceptable, Valid
  <2>3. work[o].task = "smart-contract-tests" =>
          src.elements \cap work[o].deliverable \subseteq work[o].coverage
    BY <2>1, OnePass, DraftsAreProducts
  <2> QED BY <2>2, <2>3 DEF ContractValid
<1> QED BY <1>1, PaidInvariant, PTL
=============================================================================
