----------------------------- MODULE ServerPool -----------------------------
(***************************************************************************)
(* What the application promises about the connections that requests share,*)
(* however many ask at a time, fail or are cancelled: there is one to a    *)
(* server; who is given connections is given open ones; none is closed     *)
(* under its user, or before the application stops; none is opened after.  *)
(*                                                                         *)
(* AgentFactory implements this specification.                             *)
(***************************************************************************)
CONSTANTS Requests, Servers

VARIABLES
    open,       \* the connections: <<server, the request that opened it>>
    uses,       \* uses[r]: the connections that r's run has been given
    serving     \* until the application stops

vars == <<open, uses, serving>>

Init ==
    /\ open = {}
    /\ uses = [r \in Requests |-> {}]
    /\ serving = TRUE

\* r's run is given connections, those of this step included.
Give(r) ==
    /\ uses[r] = {}
    /\ \E S \in SUBSET open' : uses' = [uses EXCEPT ![r] = S]

\* The last connection that r wants is also the moment it is given them all.
Connect(s, r) ==
    /\ serving
    /\ \A c \in open : c[1] # s
    /\ open' = open \cup {<<s, r>>}
    /\ Give(r) \/ UNCHANGED uses
    /\ UNCHANGED serving

Reuse(r) ==
    /\ serving
    /\ UNCHANGED <<open, serving>>
    /\ Give(r)

Release(r) ==
    /\ uses' = [uses EXCEPT ![r] = {}]
    /\ UNCHANGED <<open, serving>>

Stop ==
    /\ \A r \in Requests : uses[r] = {}
    /\ serving' = FALSE
    /\ UNCHANGED <<open, uses>>

Disconnect(c) ==
    /\ ~serving
    /\ \A r \in Requests : c \notin uses[r]
    /\ open' = open \ {c}
    /\ UNCHANGED <<uses, serving>>

Next ==
    \/ \E r \in Requests :
          \/ \E s \in Servers : Connect(s, r)
          \/ Reuse(r) \/ Release(r)
    \/ Stop
    \/ \E c \in open : Disconnect(c)

Spec == Init /\ [][Next]_vars
=============================================================================
