---------------------------- MODULE ConsentLedger ----------------------------
(***************************************************************************)
(* What the service promises about consent to tool calls, however a        *)
(* conversation is cut into runs, its decisions into requests and its      *)
(* authentication into tokens: a call a human has to approve passes with   *)
(* an "approve" for that call only; a decision answers an open question,   *)
(* is given once, and holds unless a run fails; then what it let pass is   *)
(* taken back with it.                                                     *)
(*                                                                         *)
(* ToolGate implements this specification.                                 *)
(***************************************************************************)
EXTENDS Naturals

CONSTANTS Calls, None

VARIABLES
    human,      \* the calls a human has to approve
    asked,      \* the calls there is an open question about
    verdict,    \* the decision on a call
    passed,     \* the calls that are let through
    failures    \* how many runs have failed

vars == <<human, asked, verdict, passed, failures>>

Init ==
    /\ human = {} /\ asked = {} /\ passed = {}
    /\ verdict = [k \in Calls |-> None]
    /\ failures = 0

\* What a call needs is settled when it is made.
Make(H) ==
    /\ H \cap (asked \cup passed) = {}
    /\ \A k \in H : verdict[k] = None
    /\ human' = human \cup H
    /\ UNCHANGED <<asked, verdict, passed, failures>>

Ask(k) ==
    /\ verdict[k] = None /\ k \notin passed
    /\ asked' = asked \cup {k}
    /\ UNCHANGED <<human, verdict, passed, failures>>

\* Some of the questions Q are decided; the others have to be asked again.
Decide(Q) ==
    /\ \E D \in SUBSET Q : \E d \in [D -> {"approve", "reject"}] :
          verdict' = [k \in Calls |-> IF k \in D THEN d[k] ELSE verdict[k]]
    /\ asked' = asked \ Q
    /\ UNCHANGED <<human, passed, failures>>

Pass(k) ==
    /\ k \notin asked
    /\ verdict[k] # "reject"
    /\ k \in human => verdict[k] = "approve"
    /\ passed' = passed \cup {k}
    /\ UNCHANGED <<human, asked, verdict, failures>>

\* A run fails: the calls K are as if it had not been; some of them are asked
\* about again.
TakeBack(K) ==
    /\ failures' = failures + 1
    /\ verdict' = [k \in Calls |-> IF k \in K THEN None ELSE verdict[k]]
    /\ passed' = passed \ K
    /\ \E A \in SUBSET K : asked' = (asked \ K) \cup A
    /\ UNCHANGED human

Next ==
    \/ \E K \in SUBSET Calls : Make(K) \/ TakeBack(K)
    \/ \E k \in Calls : Ask(k) \/ Pass(k)
    \/ \E Q \in SUBSET asked : Decide(Q)

Spec == Init /\ [][Next]_vars
=============================================================================
