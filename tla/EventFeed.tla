----------------------------- MODULE EventFeed -----------------------------
(***************************************************************************)
(* What a streaming caller is promised: the events of a run come as one    *)
(* feed, whoever emits them; a terminal event is the feed's last; they are *)
(* read in the feed's order, each once; and nobody goes on to a next feed  *)
(* without having read the whole of this one.                              *)
(*                                                                         *)
(* EventStream implements this specification.                              *)
(***************************************************************************)
EXTENDS Naturals, Sequences

CONSTANTS
    Terminal    \* the events that end a run

VARIABLES
    feed,       \* the events of the run so far
    seen        \* how many of them the caller has read

vars == <<feed, seen>>

Finished == feed # << >> /\ feed[Len(feed)] \in Terminal

Init == feed = << >> /\ seen = 0

\* Some event is appended.
Publish ==
    /\ ~Finished
    /\ Len(feed') = Len(feed) + 1 /\ SubSeq(feed', 1, Len(feed)) = feed
    /\ UNCHANGED seen

Read ==
    /\ seen < Len(feed)
    /\ seen' = seen + 1
    /\ UNCHANGED feed

\* The caller resumes the run that the terminal event has interrupted.
Renew ==
    /\ Finished /\ seen = Len(feed)
    /\ feed' = << >> /\ seen' = 0

Next == Publish \/ Read \/ Renew

Spec == Init /\ [][Next]_vars
=============================================================================
