---------------------------- MODULE MCSpanMirror ----------------------------
(***************************************************************************)
(* An instance of SpanMirror for TLC.                                      *)
(***************************************************************************)
EXTENDS SpanMirror, TLC

CONSTANTS rest, sse, s1, s2, s3

SpanSymmetry == Permutations({s1, s2, s3})
=============================================================================
