------------------------------ MODULE MCPaidWork ------------------------------
(* A small instance of PaidWork: every draft within two edits of a good one.*)
EXTENDS PaidWork

Names == {"constructor", "receive", "withdraw", "close"}

Vault == [facts |-> {"pragma", "contract", "unprotected", "pauseIgnored",
                     "manualBalance", "transfer"},
          elements |-> {"receive", "withdraw"}]
Owned == [facts |-> {"pragma", "contract", "foundry", "ownerCheck", "ownerNamed",
                     "transfer", "fixedTransfer"},
          elements |-> {"constructor", "receive", "withdraw"}]
Library == [facts |-> {"pragma", "contract", "safeMath", "nativeBalance"},
            elements |-> {"withdraw"}]
GoCode == [facts |-> {}, elements |-> {}]
Keyworded == [facts |-> {"pragma", "contract"}, elements |-> {"close"}]
Sketch == [facts |-> {"wantsDiagram", "wantsMockup"}, elements |-> {}]

Ask(l, t, s) == [lane |-> l, task |-> t, src |-> s]
Asked ==
  {Ask(l, "code-review", s) : l \in {"browser", "direct"},
                              s \in {Vault, Owned, Library, GoCode, Keyworded}}
    \cup {Ask("browser", t, s) : t \in ContractTasks, s \in {Owned, Vault}}
    \cup {Ask("browser", "general-assistant", Sketch)}

Base(q) ==
  [task |-> q.task, summary |-> {"body"},
   deliverable |-> {"body", "mermaid", "mockup"} \cup q.src.elements
     \cup (IF q.task = "smart-contract-tests"
             THEN {"import", "prank", "expectRevert"} ELSE {}),
   actionItems |-> {}, caveats |-> {}, coverage |-> q.src.elements]

Said(q) ==
  IF q.task = "smart-contract-tests"
    THEN {"class", "receiveCall", "legacyRevert", "balanceCall", "receiveNamed",
          "noAccessControl", "fuzzTest", "random"}
  ELSE IF q.task \in ContractTasks
    THEN {"class", "noAccessControl", "transferReenters", "anyRecipient",
          "receiveForwards"}
  ELSE {"restricted", "pauseEnforced", "balanceIsNative", "usesNative", "usesSafeMath",
        "safeMathGuards", "quotedReenters", "findingsHeading", "executed"}

Fields == {"summary", "deliverable", "actionItems", "caveats"}

(* An edit adds a statement to a field, or leaves nothing else in it; the  *)
(* second one only adds.                                                   *)
Edited(p, f, s, alone) == [p EXCEPT ![f] = IF alone THEN s ELSE @ \cup s]
Once(q) == {Edited(Base(q), f, {s}, alone) : f \in Fields, s \in Said(q), alone \in BOOLEAN}
Twice(q) == {Edited(p, f, {s}, FALSE) : p \in Once(q), f \in Fields, s \in Said(q)}
Blanked(q) == {Edited(Base(q), f, s, TRUE) : f \in Fields \cup {"coverage"},
                                             s \in {{}, {"close"}, {"receive"}}}
(* A draft that calls receive by name and lists no coverage.               *)
Uncovered(q) == [Base(q) EXCEPT !.coverage = {},
                                !.deliverable = Reworded(@, "receive", "receiveCall")]
VariantsOf == [q \in Asked |-> {Base(q), Uncovered(q)} \cup Once(q) \cup Twice(q) \cup Blanked(q)]
Variants(q) == VariantsOf[q]
=============================================================================
