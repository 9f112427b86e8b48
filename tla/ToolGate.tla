------------------------------ MODULE ToolGate ------------------------------
(***************************************************************************)
(* What stands between a tool call of the model and its execution:         *)
(* needs_approval (a plain True, auth_required or hitl_auth_required), the *)
(* caller's decisions on the interruptions of a checkpoint, and the        *)
(* auth_guardrail, which looks the caller's token up in the vault.         *)
(*                                                                         *)
(* Some conversations of one subject go on side by side and share that     *)
(* subject's vault file.  Each is a chain of runs: a run stops with        *)
(* interruptions and a checkpoint, and is resumed with decisions, or fails *)
(* and is resumed from the same checkpoint again.  Locks, ownership and    *)
(* the checkpoint files themselves are the matter of RunResume.            *)
(***************************************************************************)
EXTENDS Naturals

CONSTANTS
    Convs,      \* conversations of one subject
    Rest,       \* those that use REST, the others stream
    Careful,    \* those whose caller does as the interruptions say, as the CLI
    Slots,      \* the tool calls a conversation's model makes, at most
    Catalog,    \* the tools the agent has, see Tools
    MaxFails,   \* bound: how many runs fail
    None

ASSUME ConvsNamed == Rest \subseteq Convs /\ Careful \subseteq Convs
ASSUME FailsBounded == MaxFails \in Nat

(***************************************************************************)
(* Tools by their needs_approval:                                          *)
(*   free    False                                                         *)
(*   plain   True, or a callable without a policy tag                      *)
(*   auth    auth_required, and auth_guardrail                             *)
(*   hitl    hitl_auth_required, and auth_guardrail                        *)
(* A tool's service in the vault bears its name.                           *)
(***************************************************************************)
Tools    == {"free", "plain", "auth", "hitl"}
Services == {"auth", "hitl"}

ASSUME CatalogOfTools == Catalog \subseteq Tools
ASSUME NoneIsNoAnswer == None \notin {"approve", "reject"} \cup Tools

Calls == Convs \X Slots
CallsOf(c) == {c} \X Slots

VARIABLES
    pc,         \* each conversation: "new", "running", "asked", "done", "failed"
    tool,       \* the tool a call is for
    st,         \* how far a call has come, see Statuses
    kept,       \* st as in the conversation's last checkpoint
    dec,        \* the approvals recorded in the run's state
    answer,     \* what the caller has sent for the call, in this chain of runs
    flagged,    \* the asked calls whose interruption says "authenticated"
    prompted,   \* the asked calls whose caller has stored a token as told
    vault,      \* the services the subject has a token for
    heard,      \* the calls whose AuthRequired event has reached the caller
    fails       \* runs that failed

asking == <<flagged, prompted>>
vars   == <<pc, tool, st, kept, dec, answer, asking, vault, heard, fails>>

(***************************************************************************)
(*   none        not made yet                                              *)
(*   proposed    the model asks for it, needs_approval not evaluated yet   *)
(*   pending     it waits for a decision                                   *)
(*   cleared     needs_approval lets it pass, or it is approved            *)
(*   guarded     the guardrail lets it pass, its body is to run            *)
(*   ran         executed                                                  *)
(*   rejected    answered with the caller's rejection                      *)
(*   challenged  answered by the guardrail, for want of a token            *)
(*   broken      its body raised AuthTokenMissingError                     *)
(*   void        made by a run that failed; its ID does not come back      *)
(***************************************************************************)
Moving   == {"proposed", "cleared", "guarded"}
Settled  == {"ran", "rejected", "challenged", "broken"}
Statuses == {"none", "pending", "void"} \cup Moving \cup Settled

NeedsToken(k) == tool[k] \in Services
HasToken(k)   == tool[k] \in vault
InState(c, s) == {k \in CallsOf(c) : st[k] = s}
Pending(c)    == InState(c, "pending")
AtRest(c)     == \A k \in CallsOf(c) : st[k] \notin Moving

Init ==
    /\ pc = [c \in Convs |-> "new"]
    /\ tool = [k \in Calls |-> None]
    /\ st = [k \in Calls |-> "none"]
    /\ kept = st
    /\ dec = [k \in Calls |-> None]
    /\ answer = dec
    /\ flagged = {} /\ prompted = {}
    /\ vault \in SUBSET Services
    /\ heard = {}
    /\ fails = 0
-----------------------------------------------------------------------------
(***************************************************************************)
(* A run.                                                                  *)
(***************************************************************************)
Begin(c) ==
    /\ pc[c] = "new"
    /\ pc' = [pc EXCEPT ![c] = "running"]
    /\ UNCHANGED <<tool, st, kept, dec, answer, asking, vault, heard, fails>>

\* The model answers with tool calls, any number of them at a time.
Propose(c) ==
    /\ pc[c] = "running" /\ AtRest(c) /\ Pending(c) = {}
    /\ \E K \in SUBSET InState(c, "none") \ {{}} : \E f \in [K -> Catalog] :
          /\ tool' = [k \in Calls |-> IF k \in K THEN f[k] ELSE tool[k]]
          /\ st' = [k \in Calls |-> IF k \in K THEN "proposed" ELSE st[k]]
    /\ UNCHANGED <<pc, kept, dec, answer, asking, vault, heard, fails>>

\* Or with the final output.
Complete(c) ==
    /\ pc[c] = "running" /\ AtRest(c) /\ Pending(c) = {}
    /\ pc' = [pc EXCEPT ![c] = "done"]
    /\ UNCHANGED <<tool, st, kept, dec, answer, asking, vault, heard, fails>>

\* Mutated: a token in the vault stands for the approval.
TokenSuffices(k) ==
    \/ tool[k] = "plain"
    \/ NeedsToken(k) /\ ~HasToken(k)

\* The tool's needs_approval.
NeedsApproval(k) ==
    \/ tool[k] = "plain"
    \/ tool[k] = "hitl" /\ dec[k] # "approve"
    \/ NeedsToken(k) /\ ~HasToken(k)

\* The runner: a recorded decision counts first, needs_approval where there is
\* none.  needs_approval reads the vault, and other tasks run between a call's
\* steps.
Gate(k) ==
    /\ pc[k[1]] = "running" /\ st[k] = "proposed"
    /\ st' = [st EXCEPT ![k] =
                CASE dec[k] = "reject"  -> "rejected"
                  [] dec[k] = "approve" -> "cleared"
                  [] OTHER -> IF NeedsApproval(k) THEN "pending" ELSE "cleared"]
    /\ UNCHANGED <<pc, tool, kept, dec, answer, asking, vault, heard, fails>>

\* The tool has no guardrail, or its guardrail finds a token.
GuardAllows(k) ==
    /\ pc[k[1]] = "running" /\ st[k] = "cleared"
    /\ NeedsToken(k) => HasToken(k)
    /\ st' = [st EXCEPT ![k] = "guarded"]
    /\ UNCHANGED <<pc, tool, kept, dec, answer, asking, vault, heard, fails>>

\* The guardrail finds no token: it emits AuthRequired, which reaches a caller
\* who streams and goes to the NoOpEventSink of a REST run, and the model gets
\* AUTH_REJECT_MESSAGE for an answer.
GuardRejects(k) ==
    /\ pc[k[1]] = "running" /\ st[k] = "cleared"
    /\ NeedsToken(k) /\ ~HasToken(k)
    /\ st' = [st EXCEPT ![k] = "challenged"]
    /\ heard' = IF k[1] \in Rest THEN heard ELSE heard \cup {k}
    /\ UNCHANGED <<pc, tool, kept, dec, answer, asking, vault, fails>>

\* The tool's body; those that need a token call get_access_token first.
Body(k) ==
    /\ pc[k[1]] = "running" /\ st[k] = "guarded"
    /\ st' = [st EXCEPT ![k] =
                IF NeedsToken(k) /\ ~HasToken(k) THEN "broken" ELSE "ran"]
    /\ UNCHANGED <<pc, tool, kept, dec, answer, asking, vault, heard, fails>>
-----------------------------------------------------------------------------
(***************************************************************************)
(* Interruption and resumption.                                            *)
(***************************************************************************)
\* Mutated: "authenticated" as soon as the tool has a service.
FlaggedAny(c) == {k \in Pending(c) : NeedsToken(k)}

\* map_approvals peeks into the vault.
Flagged(c) == {k \in Pending(c) : NeedsToken(k) /\ HasToken(k)}

\* save_run_state and map_approvals: the checkpoint has the calls as they are,
\* the interruptions say whose token the vault holds at this moment.
Interrupt(c) ==
    /\ pc[c] = "running" /\ AtRest(c) /\ Pending(c) # {}
    /\ pc' = [pc EXCEPT ![c] = "asked"]
    /\ kept' = [k \in Calls |-> IF k \in CallsOf(c) THEN st[k] ELSE kept[k]]
    /\ flagged' = (flagged \ CallsOf(c)) \cup Flagged(c)
    /\ prompted' = prompted \ CallsOf(c)
    /\ UNCHANGED <<tool, st, dec, answer, vault, heard, fails>>

\* Mutated: the file is written without what it held.
PutOnly(s) == {s}

\* TokenVault.put: the subject's file is read, extended and written back.
Put(s) == vault \cup {s}

\* store_vault_token: the subject stores a token, whenever it likes.
StoreToken(s) ==
    /\ s \notin vault
    /\ vault' = Put(s)
    /\ UNCHANGED <<pc, tool, st, kept, dec, answer, asking, heard, fails>>

\* The calls whose interruption asks for authentication first.
Unauthenticated(c) == {k \in Pending(c) : NeedsToken(k)} \ flagged

\* The client authenticates its user, as the interruption says: _decisions
\* goes through the interruptions and stores a token.
Authenticate(k) ==
    /\ k[1] \in Careful /\ pc[k[1]] = "asked"
    /\ k \in Unauthenticated(k[1]) \ prompted
    /\ vault' = Put(tool[k])
    /\ prompted' = prompted \cup {k}
    /\ UNCHANGED <<pc, tool, st, kept, dec, answer, flagged, heard, fails>>

\* What a caller may send: one decision at least, for some of the calls.  A
\* careful one decides them all, once it has authenticated, and it approves
\* what requires no approval.
MaySend(c, D, d) ==
    /\ D # {}
    /\ c \in Careful =>
          /\ D = Pending(c)
          /\ Unauthenticated(c) \subseteq prompted
          /\ \A k \in D : tool[k] = "auth" => d[k] = "approve"

\* Mutated: a rejection is not recorded.
ApplyApprovals(D, d) ==
    [k \in Calls |-> IF k \in D /\ d[k] = "approve" THEN d[k] ELSE dec[k]]

\* Mutated: a missing decision is recorded as well.
ApplyBlank(D, d) ==
    [k \in Calls |-> IF k \in D THEN d[k]
                     ELSE IF st[k] = "pending" THEN "undecided" ELSE dec[k]]

\* apply_decisions: undecided interruptions stay as they are.
ApplyDecisions(D, d) ==
    [k \in Calls |-> IF k \in D THEN d[k] ELSE dec[k]]

\* The checkpoint is loaded, the decisions are applied and the run goes on: all
\* its pending calls are gated again.
Resume(c) ==
    /\ pc[c] = "asked"
    /\ \E D \in SUBSET Pending(c) : \E d \in [D -> {"approve", "reject"}] :
          /\ MaySend(c, D, d)
          /\ dec' = ApplyDecisions(D, d)
          /\ answer' = [k \in Calls |-> IF k \in D THEN d[k] ELSE answer[k]]
    /\ pc' = [pc EXCEPT ![c] = "running"]
    /\ st' = [k \in Calls |-> IF k \in Pending(c) THEN "proposed" ELSE st[k]]
    /\ UNCHANGED <<tool, kept, asking, vault, heard, fails>>

\* Mutated: what the failed run has settled stays settled.
RestoredAsRun(k) == IF st[k] \in Settled THEN st[k] ELSE kept[k]

\* The call as it comes out of the checkpoint when a run has failed.
Restored(k) ==
    IF kept[k] = "none" /\ st[k] # "none" THEN "void" ELSE kept[k]

\* The run fails: its checkpoint, if it was resumed from one, is the last word
\* on its calls, and what was pending there is undecided again.
Fail(c) ==
    /\ pc[c] = "running" /\ fails < MaxFails
    /\ fails' = fails + 1
    /\ IF \A k \in CallsOf(c) : kept[k] # "pending"
       THEN /\ pc' = [pc EXCEPT ![c] = "failed"]
            /\ UNCHANGED <<st, dec, answer>>
       ELSE /\ pc' = [pc EXCEPT ![c] = "asked"]
            /\ st' = [k \in Calls |-> IF k \in CallsOf(c) THEN Restored(k) ELSE st[k]]
            /\ LET open == {k \in CallsOf(c) : kept[k] \in {"none", "pending"}}
               IN /\ dec' = [k \in Calls |-> IF k \in open THEN None ELSE dec[k]]
                  /\ answer' = [k \in Calls |-> IF k \in open THEN None ELSE answer[k]]
    /\ UNCHANGED <<tool, kept, asking, vault, heard>>
-----------------------------------------------------------------------------
Work(c) ==
    \/ Propose(c) \/ Complete(c) \/ Interrupt(c)
    \/ \E k \in CallsOf(c) : Gate(k) \/ GuardAllows(k) \/ GuardRejects(k) \/ Body(k)

Answer(c) == Resume(c) \/ \E k \in CallsOf(c) : Authenticate(k)

Over ==
    /\ \A c \in Convs : pc[c] \in {"done", "failed"}
    /\ UNCHANGED vars

Next ==
    \/ \E c \in Convs : Begin(c) \/ Work(c) \/ Answer(c) \/ Fail(c)
    \/ \E s \in Services : StoreToken(s)
    \/ Over

Spec == Init /\ [][Next]_vars

\* A run proceeds, and a careful caller answers when it is asked.
FairSpec ==
    /\ Spec
    /\ \A c \in Convs : WF_vars(Work(c))
    /\ \A c \in Careful : WF_vars(Answer(c))
-----------------------------------------------------------------------------
TypeOK ==
    /\ pc \in [Convs -> {"new", "running", "asked", "done", "failed"}]
    /\ tool \in [Calls -> Tools \cup {None}]
    /\ st \in [Calls -> Statuses]
    /\ kept \in [Calls -> Statuses]
    /\ dec \in [Calls -> {"approve", "reject", None}]
    /\ answer \in [Calls -> {"approve", "reject", None}]
    /\ flagged \subseteq Calls /\ prompted \subseteq Calls
    /\ vault \subseteq Services
    /\ heard \subseteq Calls
    /\ fails \in 0..MaxFails
-----------------------------------------------------------------------------
\* Past the gate for good: nothing but a failed run takes it back.
Passed == {"cleared", "guarded", "ran", "challenged", "broken"}

\* A tool that a human has to approve gets past the gate only with the caller's
\* "approve" for that very call, however the decisions came in: a few at a
\* time, over several checkpoints, repeated after a failed run.
HumanConsent ==
    \A k \in Calls : st[k] \in Passed /\ tool[k] \in {"plain", "hitl"}
                        => answer[k] = "approve"

\* A decision is final within the chain of runs that it went into: a rejected
\* call does not pass, and no later checkpoint asks for a decided call again.
AnswersAreFinal ==
    \A k \in Calls :
        /\ answer[k] = "reject" => st[k] \notin Passed
        /\ answer[k] # None => st[k] # "pending"

\* Between the guardrail and get_access_token in the tool's body, and between
\* all other reads of the vault, tokens are stored by other requests and other
\* conversations: a token once seen is still there.
TokenOutlivesCheck == \A k \in Calls : st[k] # "broken"

\* The interruptions tell a client all it needs: whoever authenticates where
\* they say so and then decides is never turned down by a guardrail, though
\* "authenticated" may be stale by the time the decision arrives.
MetadataSuffices ==
    \A c \in Careful : \A k \in CallsOf(c) : st[k] # "challenged"

\* Whoever does so gets to the end: no interruption comes back for ever.
CarefulConversationEnds ==
    \A c \in Careful : pc[c] # "new" ~> pc[c] \in {"done", "failed"}

\* auth_guardrail: "we need to send an AuthRequired event / the caller is
\* responsible for receiving and parsing the AuthRequired event".  When a run
\* has ended, its caller has received one for each call that was turned down.
ChallengeReachesCaller ==
    \A k \in Calls :
        pc[k[1]] \in {"done", "asked"} /\ st[k] = "challenged" => k \in heard
-----------------------------------------------------------------------------
(***************************************************************************)
(* ToolGate implements ConsentLedger.                                      *)
(***************************************************************************)
Human == {k \in Calls : tool[k] \in {"plain", "hitl"}}

Ledger == INSTANCE ConsentLedger WITH
    human    <- Human,
    asked    <- {k \in Calls : st[k] = "pending"},
    verdict  <- answer,
    passed   <- {k \in Calls : st[k] \in Passed},
    failures <- fails

\* Decisions come a few at a time and over several checkpoints, runs fail and are
\* resumed, tokens are stored meanwhile: consent is given, used and taken back
\* as ConsentLedger says.
ImplementsConsent == Ledger!Spec
=============================================================================
