--------------------------- MODULE MCPreparedWork ---------------------------
(* Instances of PreparedWork for TLC.                                      *)
EXTENDS PreparedWork

CONSTANTS p1, p2, x1, x2, w1, w2, j1, j2

(* Ids, payments and prompts are alike: of the behaviours that differ only *)
(* in their names, the one that uses them in this order is explored.       *)
InOrder ==
  /\ w2 \in used => w1 \in used
  /\ j2 \in used => j1 \in used
  /\ pay[x2].at # "new" => pay[x1].at # "new"
  /\ pay[x1].prompt # p2
=============================================================================
