---------------------------- MODULE MCRunResume ----------------------------
(***************************************************************************)
(* Instances of RunResume for TLC.                                         *)
(***************************************************************************)
EXTENDS RunResume, TLC

CONSTANTS a, b, c, t1, t2, t3, u1, u2

Symmetry == Permutations(Sse) \cup Permutations(Subjects)
                \cup Permutations(Tokens \ Saved)
=============================================================================
