---------------------------- MODULE MCProofFiles ----------------------------
(* Instances of ProofFiles for TLC.                                        *)
EXTENDS ProofFiles, TLC

CONSTANTS t1, t2, h1, c1

=============================================================================
