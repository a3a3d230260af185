-------------------------- MODULE MCFacilitatorPool --------------------------
(* Instances of FacilitatorPool for TLC.                                   *)
EXTENDS FacilitatorPool, TLC

CONSTANTS r1, r2, r3, c1, p1, p2

ThreeRequests == {r1, r2, r3}
Presented == (r1 :> p1) @@ (r2 :> p2) @@ (r3 :> p1)

(* Two requests with payloads of their own beside a check, or, without     *)
(* them, one payload that is presented twice.                              *)
TwoAtATime ==
  call[r3].at # "new" =>
    call[r1].at # "new" /\ call[r2].at = "new" /\ call[c1].at = "new"
=============================================================================
