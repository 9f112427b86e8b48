-------------------------- MODULE CheckpointLedger --------------------------
(***************************************************************************)
(* What the service promises about checkpoints, whoever asks and whenever  *)
(* it dies: a token is issued once, to one owner; a checkpoint is spent    *)
(* only after its run ended or after a successor was issued to the same    *)
(* owner; what is spent does not come back.                                *)
(*                                                                         *)
(* RunResume implements this specification.                                *)
(***************************************************************************)
CONSTANTS Tokens, Subjects, None

VARIABLES
    owner,      \* the subject a token was issued to, None before
    live,       \* the tokens that can be resumed
    heirs,      \* heirs[t]: the tokens issued when t was resumed
    finished    \* the tokens whose resumption has led to a final answer

vars == <<owner, live, heirs, finished>>

Issued(t) == owner[t] # None

Init ==
    /\ owner \in [Tokens -> Subjects \cup {None}]
    /\ live = {t \in Tokens : Issued(t)}
    /\ heirs = [t \in Tokens |-> {}]
    /\ finished = {}

\* A run stops for approval: its checkpoint is saved under a new token.
Issue(t, u) ==
    /\ ~Issued(t)
    /\ owner' = [owner EXCEPT ![t] = u]
    /\ live' = live \cup {t}
    /\ UNCHANGED <<heirs, finished>>

\* It was t's run, resumed, that stopped again: s takes over.  s is fresh: it
\* descends from nothing else and nothing descends from it yet.
Succeed(t, s) ==
    /\ Issued(t) /\ s # t
    /\ s \in live /\ owner[s] = owner[t]
    /\ heirs[s] = {} /\ s \notin finished
    /\ \A p \in Tokens : s \notin heirs[p]
    /\ heirs' = [heirs EXCEPT ![t] = @ \cup {s}]
    /\ UNCHANGED <<owner, live, finished>>

\* t's run, resumed, has ended.
Finish(t) ==
    /\ Issued(t)
    /\ finished' = finished \cup {t}
    /\ UNCHANGED <<owner, live, heirs>>

Spend(t) ==
    /\ t \in live
    /\ t \in finished \/ heirs[t] # {}
    /\ live' = live \ {t}
    /\ UNCHANGED <<owner, heirs, finished>>

Next ==
    \E t \in Tokens :
        \/ \E u \in Subjects : Issue(t, u)
        \/ \E s \in Tokens : Succeed(t, s)
        \/ Finish(t)
        \/ Spend(t)

Spec == Init /\ [][Next]_vars
-----------------------------------------------------------------------------
\* No conversation is stranded: among tokens that are spent without a final
\* answer there is always one with an heir outside, so that their heirs, and
\* theirs, lead to a token that can be resumed or to an answer.
NoneStranded ==
    \A C \in SUBSET Tokens :
        /\ C # {}
        /\ \A t \in C : Issued(t) /\ t \notin live \cup finished
        => \E t \in C : ~(heirs[t] \subseteq C)

\* A token succeeds one other at most, of the same owner.
OnePredecessor ==
    \A t, p \in Tokens : \A s \in heirs[t] :
        /\ s \in Tokens \ {t} /\ owner[s] = owner[t]
        /\ s \in heirs[p] => p = t

\* What is spent cannot be resumed again.
SpentForGood ==
    [][\A t \in Tokens : Issued(t) /\ t \notin live => t \notin live']_vars
=============================================================================
