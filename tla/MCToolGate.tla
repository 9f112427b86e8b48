----------------------------- MODULE MCToolGate -----------------------------
(***************************************************************************)
(* Instances of ToolGate for TLC.                                          *)
(***************************************************************************)
EXTENDS ToolGate, TLC

CONSTANTS p, q, s1, s2, s3

Symmetry == Permutations(Slots)
=============================================================================
