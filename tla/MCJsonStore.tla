----------------------------- MODULE MCJsonStore -----------------------------
(***************************************************************************)
(* An instance of JsonStore for TLC.                                       *)
(***************************************************************************)
EXTENDS JsonStore, TLC

CONSTANTS p1, p2, bob, bob_chat, work, chat_work

\* The session "chat:work" of the subject "bob" and the session "work" of the
\* subject "bob:chat" come under one key.
CollidingKeys ==
    <<bob, work>>      :> "bob:work"      @@ <<bob, chat_work>>      :> "bob:chat:work" @@
    <<bob_chat, work>> :> "bob:chat:work" @@ <<bob_chat, chat_work>> :> "bob:chat:chat:work"
=============================================================================
