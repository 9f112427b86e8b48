--------------------------- MODULE SessionHistory ---------------------------
(***************************************************************************)
(* What the session store promises: a history per key, which changes by    *)
(* whole operations only and belongs to the owner who began it, until it   *)
(* is cleared.                                                             *)
(*                                                                         *)
(* JsonStore implements this specification.                                *)
(***************************************************************************)
EXTENDS Integers, Sequences

CONSTANTS Keys, Owners, Items, Batches, Nobody

VARIABLES
    history,    \* the items under a key
    holder      \* whose they are

vars == <<history, holder>>

Init ==
    /\ history = [k \in Keys |-> << >>]
    /\ holder = [k \in Keys |-> Nobody]

Claimed(k, o) ==
    /\ holder[k] \in {Nobody, o}
    /\ holder' = [holder EXCEPT ![k] = o]

Add(k, o, batch) ==
    /\ Claimed(k, o)
    /\ history' = [history EXCEPT ![k] = @ \o batch]

Pop(k, o) ==
    /\ Claimed(k, o) /\ history[k] # << >>
    /\ history' = [history EXCEPT ![k] = SubSeq(@, 1, Len(@) - 1)]

\* Whoever comes to a key may clear it, and has it then.
Clear(k, o) ==
    /\ holder' = [holder EXCEPT ![k] = o]
    /\ history' = [history EXCEPT ![k] = << >>]

Next ==
    \E k \in Keys, o \in Owners :
        Pop(k, o) \/ Clear(k, o) \/ \E batch \in Batches : Add(k, o, batch)

Spec == Init /\ [][Next]_vars
=============================================================================
