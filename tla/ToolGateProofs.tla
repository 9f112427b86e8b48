--------------------------- MODULE ToolGateProofs ---------------------------
(***************************************************************************)
(* Proofs about ToolGate, for any conversations, catalog of tools and      *)
(* number of failing runs.                                                 *)
(***************************************************************************)
EXTENDS ToolGate, TLAPS

\* A checkpoint has no call half way; what is settled in it stays as it is.
KeptInv ==
    \A k \in Calls :
        /\ kept[k] \notin Moving
        /\ kept[k] \in Settled \cup {"void"} => st[k] = kept[k]

\* The state's record of the decisions is what the caller sent; a call that
\* was not made has none, and no tool.
RecordInv ==
    \A k \in Calls :
        /\ dec[k] = answer[k]
        /\ st[k] = "none" => dec[k] = None /\ tool[k] = None

\* What has been read from the vault is still in it.
VaultInv ==
    /\ \A k \in Calls :
          /\ st[k] = "guarded" /\ NeedsToken(k) => HasToken(k)
          /\ st[k] # "broken"
    /\ \A k \in flagged \cup prompted :
          st[k] # "none" /\ (NeedsToken(k) => HasToken(k))

\* A careful caller approves a call only with its token in the vault.
CarefulInv ==
    \A k \in Calls : k[1] \in Careful =>
        /\ dec[k] = "approve" /\ NeedsToken(k) => HasToken(k)
        /\ st[k] = "cleared" /\ NeedsToken(k) => HasToken(k)
        /\ st[k] # "challenged"

IInv ==
    /\ TypeOK /\ KeptInv /\ RecordInv /\ VaultInv /\ CarefulInv
    /\ HumanConsent /\ AnswersAreFinal
-----------------------------------------------------------------------------
LEMMA CallsByConversation ==
    ASSUME NEW c \in Convs
    PROVE  /\ CallsOf(c) \subseteq Calls
           /\ \A k \in CallsOf(c) : k[1] = c
           /\ \A k \in Calls : k[1] = c => k \in CallsOf(c)
    BY DEF Calls, CallsOf

LEMMA CallHasConversation == \A k \in Calls : k[1] \in Convs /\ k \in CallsOf(k[1])
    BY DEF Calls, CallsOf

LEMMA InitOK == Init => IInv
    BY FailsBounded, NoneIsNoAnswer
    DEF Init, IInv, TypeOK, KeptInv, RecordInv, VaultInv, CarefulInv, HumanConsent,
        AnswersAreFinal, Passed, Moving, Settled, Statuses, Tools, Services,
        NeedsToken, HasToken

(***************************************************************************)
(* The steps that leave every call as it is.                               *)
(***************************************************************************)
LEMMA BeginOK == ASSUME IInv, NEW c \in Convs, Begin(c) PROVE IInv'
    BY DEF Begin, asking, IInv, TypeOK, KeptInv, RecordInv, VaultInv, CarefulInv,
        HumanConsent, AnswersAreFinal, NeedsToken, HasToken

LEMMA CompleteOK == ASSUME IInv, NEW c \in Convs, Complete(c) PROVE IInv'
    BY DEF Complete, asking, IInv, TypeOK, KeptInv, RecordInv, VaultInv, CarefulInv,
        HumanConsent, AnswersAreFinal, NeedsToken, HasToken

LEMMA StoreTokenOK == ASSUME IInv, NEW s \in Services, StoreToken(s) PROVE IInv'
    <1> USE DEF StoreToken, asking, IInv
    <1>1. vault \subseteq vault' /\ vault' \subseteq Services
        BY DEF Put, TypeOK
    <1>2. TypeOK'
        BY <1>1 DEF TypeOK
    <1>3. KeptInv' /\ RecordInv' /\ HumanConsent' /\ AnswersAreFinal'
        BY DEF KeptInv, RecordInv, HumanConsent, AnswersAreFinal
    <1>4. VaultInv' /\ CarefulInv'
        BY <1>1 DEF VaultInv, CarefulInv, NeedsToken, HasToken
    <1> QED BY <1>2, <1>3, <1>4

LEMMA AuthenticateOK ==
    ASSUME IInv, NEW k \in Calls, Authenticate(k) PROVE IInv'
    <1> USE DEF Authenticate, IInv
    <1>1. /\ vault \subseteq vault' /\ vault' \subseteq Services
          /\ NeedsToken(k) /\ tool[k] \in vault' /\ st[k] = "pending"
        BY DEF Put, TypeOK, Unauthenticated, NeedsToken, Pending, InState
    <1>2. TypeOK'
        BY <1>1 DEF TypeOK
    <1>3. KeptInv' /\ RecordInv' /\ HumanConsent' /\ AnswersAreFinal'
        BY DEF KeptInv, RecordInv, HumanConsent, AnswersAreFinal
    <1>4. VaultInv' /\ CarefulInv'
        BY <1>1 DEF VaultInv, CarefulInv, NeedsToken, HasToken
    <1> QED BY <1>2, <1>3, <1>4

(***************************************************************************)
(* A call's way through the gate.                                          *)
(***************************************************************************)
LEMMA ProposeOK == ASSUME IInv, NEW c \in Convs, Propose(c) PROVE IInv'
    <1> USE DEF IInv
    <1>1. PICK K \in SUBSET InState(c, "none") \ {{}} : \E f \in [K -> Catalog] :
            /\ tool' = [k \in Calls |-> IF k \in K THEN f[k] ELSE tool[k]]
            /\ st' = [k \in Calls |-> IF k \in K THEN "proposed" ELSE st[k]]
        BY DEF Propose
    <1>2. PICK f \in [K -> Catalog] :
            /\ tool' = [k \in Calls |-> IF k \in K THEN f[k] ELSE tool[k]]
            /\ st' = [k \in Calls |-> IF k \in K THEN "proposed" ELSE st[k]]
        BY <1>1
    <1>3. \A k \in K : k \in Calls /\ st[k] = "none" /\ st'[k] = "proposed"
        BY <1>2, CallsByConversation DEF InState
    <1>4. \A k \in Calls \ K : st'[k] = st[k] /\ tool'[k] = tool[k]
        BY <1>2
    <1>5. UNCHANGED <<pc, kept, dec, answer, flagged, prompted, vault, heard, fails>>
        BY DEF Propose, asking
    <1>6. TypeOK'
        <2>1. \A k \in K : f[k] \in Tools
            BY CatalogOfTools
        <2> QED BY <1>2, <1>5, <2>1 DEF TypeOK, Statuses, Moving
    <1>7. KeptInv'
        BY <1>3, <1>4, <1>5 DEF KeptInv, Settled
    <1>8. RecordInv'
        BY <1>3, <1>4, <1>5 DEF RecordInv
    <1>9. VaultInv'
        BY <1>3, <1>4, <1>5 DEF VaultInv, NeedsToken, HasToken, TypeOK
    <1>10. CarefulInv'
        BY <1>3, <1>4, <1>5, NoneIsNoAnswer
        DEF CarefulInv, RecordInv, NeedsToken, HasToken
    <1>11. HumanConsent' /\ AnswersAreFinal'
        BY <1>3, <1>4, <1>5 DEF HumanConsent, AnswersAreFinal, Passed
    <1> QED BY <1>6, <1>7, <1>8, <1>9, <1>10, <1>11

LEMMA GateOK == ASSUME IInv, NEW k \in Calls, Gate(k) PROVE IInv'
    <1> USE DEF Gate, asking, IInv
    <1>1. /\ st[k] = "proposed"
          /\ st'[k] \in {"rejected", "cleared", "pending"}
          /\ \A j \in Calls \ {k} : st'[j] = st[j]
          /\ st'[k] = "rejected" => dec[k] = "reject"
          /\ st'[k] = "pending" => dec[k] = None
          /\ st'[k] = "cleared" => dec[k] # "reject"
          /\ st'[k] = "cleared" /\ dec[k] # "approve" => ~NeedsApproval(k)
        BY NoneIsNoAnswer DEF TypeOK
    <1>2. TypeOK'
        BY <1>1 DEF TypeOK, Statuses, Moving, Settled
    <1>3. KeptInv'
        BY <1>1 DEF KeptInv, Settled
    <1>4. RecordInv'
        BY <1>1 DEF RecordInv
    <1>5. VaultInv'
        BY <1>1 DEF VaultInv, NeedsToken, HasToken
    <1>6. CarefulInv'
        BY <1>1 DEF CarefulInv, NeedsToken, HasToken, NeedsApproval
    <1>7. HumanConsent'
        BY <1>1 DEF HumanConsent, Passed, NeedsApproval, RecordInv
    <1>8. AnswersAreFinal'
        BY <1>1, NoneIsNoAnswer DEF AnswersAreFinal, Passed, RecordInv
    <1> QED BY <1>2, <1>3, <1>4, <1>5, <1>6, <1>7, <1>8

LEMMA GuardAllowsOK == ASSUME IInv, NEW k \in Calls, GuardAllows(k) PROVE IInv'
    <1> USE DEF GuardAllows, asking, IInv
    <1>1. /\ st[k] = "cleared" /\ st'[k] = "guarded"
          /\ \A j \in Calls \ {k} : st'[j] = st[j]
        BY DEF TypeOK
    <1>2. TypeOK'
        BY <1>1 DEF TypeOK, Statuses, Moving
    <1>3. KeptInv' /\ RecordInv'
        BY <1>1 DEF KeptInv, RecordInv, Settled
    <1>4. VaultInv' /\ CarefulInv'
        BY <1>1 DEF VaultInv, CarefulInv, NeedsToken, HasToken
    <1>5. HumanConsent' /\ AnswersAreFinal'
        BY <1>1 DEF HumanConsent, AnswersAreFinal, Passed
    <1> QED BY <1>2, <1>3, <1>4, <1>5

LEMMA GuardRejectsOK == ASSUME IInv, NEW k \in Calls, GuardRejects(k) PROVE IInv'
    <1> USE DEF GuardRejects, asking, IInv
    <1>1. /\ st[k] = "cleared" /\ st'[k] = "challenged"
          /\ \A j \in Calls \ {k} : st'[j] = st[j]
        BY DEF TypeOK
    <1>2. TypeOK'
        BY <1>1 DEF TypeOK, Statuses, Settled
    <1>3. KeptInv' /\ RecordInv'
        BY <1>1 DEF KeptInv, RecordInv, Settled
    <1>4. VaultInv' /\ CarefulInv'
        BY <1>1 DEF VaultInv, CarefulInv, NeedsToken, HasToken
    <1>5. HumanConsent' /\ AnswersAreFinal'
        BY <1>1 DEF HumanConsent, AnswersAreFinal, Passed
    <1> QED BY <1>2, <1>3, <1>4, <1>5

LEMMA BodyOK == ASSUME IInv, NEW k \in Calls, Body(k) PROVE IInv'
    <1> USE DEF Body, asking, IInv
    <1>1. /\ st[k] = "guarded" /\ st'[k] = "ran"
          /\ \A j \in Calls \ {k} : st'[j] = st[j]
        BY DEF TypeOK, VaultInv
    <1>2. TypeOK'
        BY <1>1 DEF TypeOK, Statuses, Settled
    <1>3. KeptInv' /\ RecordInv'
        BY <1>1 DEF KeptInv, RecordInv, Settled
    <1>4. VaultInv' /\ CarefulInv'
        BY <1>1 DEF VaultInv, CarefulInv, NeedsToken, HasToken
    <1>5. HumanConsent' /\ AnswersAreFinal'
        BY <1>1 DEF HumanConsent, AnswersAreFinal, Passed
    <1> QED BY <1>2, <1>3, <1>4, <1>5

(***************************************************************************)
(* Checkpoints and decisions.                                              *)
(***************************************************************************)
LEMMA InterruptOK == ASSUME IInv, NEW c \in Convs, Interrupt(c) PROVE IInv'
    <1> USE DEF Interrupt, IInv
    <1>1. \A k \in Flagged(c) : k \in Calls /\ st[k] = "pending" /\ HasToken(k)
        BY CallsByConversation DEF Flagged, Pending, InState
    <1>2. TypeOK'
        BY <1>1 DEF TypeOK
    <1>3. KeptInv'
        <2>1. \A k \in CallsOf(c) : st[k] \notin Moving
            BY DEF AtRest
        <2> QED BY <2>1 DEF KeptInv
    <1>4. VaultInv'
        BY <1>1 DEF VaultInv, NeedsToken, HasToken
    <1>5. RecordInv' /\ CarefulInv' /\ HumanConsent' /\ AnswersAreFinal'
        BY DEF RecordInv, CarefulInv, HumanConsent, AnswersAreFinal, NeedsToken, HasToken
    <1> QED BY <1>2, <1>3, <1>4, <1>5

LEMMA ResumeOK == ASSUME IInv, NEW c \in Convs, Resume(c) PROVE IInv'
    <1> USE DEF IInv
    <1>1. PICK D \in SUBSET Pending(c) : \E d \in [D -> {"approve", "reject"}] :
            /\ MaySend(c, D, d)
            /\ dec' = ApplyDecisions(D, d)
            /\ answer' = [k \in Calls |-> IF k \in D THEN d[k] ELSE answer[k]]
        BY DEF Resume
    <1>2. PICK d \in [D -> {"approve", "reject"}] :
            /\ MaySend(c, D, d)
            /\ dec' = ApplyDecisions(D, d)
            /\ answer' = [k \in Calls |-> IF k \in D THEN d[k] ELSE answer[k]]
        BY <1>1
    <1>3. \A k \in Pending(c) :
            k \in Calls /\ k[1] = c /\ st[k] = "pending" /\ st'[k] = "proposed"
        BY CallsByConversation DEF Pending, InState, Resume
    <1>4. \A k \in Calls \ Pending(c) : st'[k] = st[k]
        BY DEF Resume
    <1>5. \A k \in D : dec'[k] = d[k] /\ answer'[k] = d[k]
        BY <1>2, <1>3 DEF ApplyDecisions
    <1>6. \A k \in Calls \ D : dec'[k] = dec[k] /\ answer'[k] = answer[k]
        BY <1>2 DEF ApplyDecisions
    <1>7. UNCHANGED <<tool, kept, flagged, prompted, vault, heard, fails>>
        BY DEF Resume, asking
    <1>8. TypeOK'
        BY <1>2, <1>7 DEF TypeOK, Resume, ApplyDecisions, Statuses, Moving
    <1>9. KeptInv'
        BY <1>3, <1>4, <1>7 DEF KeptInv, Settled
    <1>10. RecordInv'
        BY <1>3, <1>4, <1>5, <1>6, <1>7 DEF RecordInv
    <1>11. VaultInv'
        BY <1>3, <1>4, <1>7 DEF VaultInv, NeedsToken, HasToken, TypeOK
    <1>12. CarefulInv'
        <2>1. ASSUME NEW k \in D, k[1] \in Careful, NeedsToken(k) PROVE HasToken(k)
            <3>1. k \in flagged \cup prompted
                BY <1>2, <1>3, <2>1 DEF MaySend, Unauthenticated
            <3> QED BY <3>1, <2>1 DEF VaultInv
        <2> QED BY <1>3, <1>4, <1>6, <1>7, <2>1 DEF CarefulInv, NeedsToken, HasToken
    <1>13. HumanConsent' /\ AnswersAreFinal'
        BY <1>3, <1>4, <1>6, <1>7 DEF HumanConsent, AnswersAreFinal, Passed
    <1> QED BY <1>8, <1>9, <1>10, <1>11, <1>12, <1>13

LEMMA FailOK == ASSUME IInv, NEW c \in Convs, Fail(c) PROVE IInv'
    <1> USE DEF IInv
    <1>1. UNCHANGED <<tool, kept, flagged, prompted, vault, heard>>
        BY DEF Fail, asking
    <1>2. fails' \in 0..MaxFails
        BY FailsBounded DEF Fail, TypeOK
    <1>3. CASE \A k \in CallsOf(c) : kept[k] # "pending"
        <2>1. UNCHANGED <<st, dec, answer>> /\ pc' = [pc EXCEPT ![c] = "failed"]
            BY <1>3 DEF Fail
        <2> QED BY <1>1, <1>2, <2>1
            DEF TypeOK, KeptInv, RecordInv, VaultInv, CarefulInv, HumanConsent,
                AnswersAreFinal, NeedsToken, HasToken
    <1>4. CASE ~\A k \in CallsOf(c) : kept[k] # "pending"
        <2> DEFINE open == {k \in CallsOf(c) : kept[k] \in {"none", "pending"}}
        <2>1. /\ pc' = [pc EXCEPT ![c] = "asked"]
              /\ st' = [k \in Calls |-> IF k \in CallsOf(c) THEN Restored(k) ELSE st[k]]
              /\ dec' = [k \in Calls |-> IF k \in open THEN None ELSE dec[k]]
              /\ answer' = [k \in Calls |-> IF k \in open THEN None ELSE answer[k]]
            BY <1>4 DEF Fail
        <2>2. \A k \in open :
                /\ k \in Calls /\ dec'[k] = None /\ answer'[k] = None
                /\ st'[k] \in {"none", "void", "pending"}
                /\ st'[k] = "none" => st[k] = "none"
            BY <2>1, CallsByConversation DEF Restored
        <2>3. \A k \in Calls \ open :
                /\ dec'[k] = dec[k] /\ answer'[k] = answer[k] /\ st'[k] = st[k]
            BY <2>1 DEF Restored, KeptInv, TypeOK, Statuses
        <2> HIDE DEF open
        <2>4. TypeOK'
            BY <1>1, <1>2, <2>1, <2>2, <2>3 DEF TypeOK, Statuses
        <2>5. KeptInv'
            BY <1>1, <2>1, <2>3 DEF KeptInv, Restored, open
        <2>6. RecordInv'
            BY <1>1, <2>2, <2>3 DEF RecordInv
        <2>7. VaultInv'
            BY <1>1, <2>2, <2>3 DEF VaultInv, NeedsToken, HasToken, TypeOK
        <2>8. CarefulInv'
            BY <1>1, <2>2, <2>3, NoneIsNoAnswer DEF CarefulInv, NeedsToken, HasToken
        <2>9. HumanConsent' /\ AnswersAreFinal'
            BY <1>1, <2>2, <2>3, NoneIsNoAnswer DEF HumanConsent, AnswersAreFinal, Passed
        <2> QED BY <2>4, <2>5, <2>6, <2>7, <2>8, <2>9
    <1> QED BY <1>3, <1>4
-----------------------------------------------------------------------------
LEMMA StepOK == IInv /\ [Next]_vars => IInv'
    <1> SUFFICES ASSUME IInv, [Next]_vars PROVE IInv'
        OBVIOUS
    <1>1. CASE UNCHANGED vars
        BY <1>1 DEF vars, asking, IInv, TypeOK, KeptInv, RecordInv, VaultInv, CarefulInv,
            HumanConsent, AnswersAreFinal, NeedsToken, HasToken
    <1>2. CASE \E c \in Convs : Begin(c) \/ Work(c) \/ Answer(c) \/ Fail(c)
        <2> PICK c \in Convs : Begin(c) \/ Work(c) \/ Answer(c) \/ Fail(c)
            BY <1>2
        <2>1. CASE Begin(c) \/ Fail(c)
            BY <2>1, BeginOK, FailOK
        <2>2. CASE Work(c)
            <3>1. CASE Propose(c) \/ Complete(c) \/ Interrupt(c)
                BY <3>1, ProposeOK, CompleteOK, InterruptOK
            <3>2. CASE \E k \in CallsOf(c) :
                         Gate(k) \/ GuardAllows(k) \/ GuardRejects(k) \/ Body(k)
                BY <3>2, CallsByConversation, GateOK, GuardAllowsOK, GuardRejectsOK, BodyOK
            <3> QED BY <2>2, <3>1, <3>2 DEF Work
        <2>3. CASE Answer(c)
            BY <2>3, CallsByConversation, ResumeOK, AuthenticateOK DEF Answer
        <2> QED BY <2>1, <2>2, <2>3
    <1>3. CASE \E s \in Services : StoreToken(s)
        BY <1>3, StoreTokenOK
    <1>4. CASE Over
        BY <1>1, <1>4 DEF Over
    <1> QED BY <1>1, <1>2, <1>3, <1>4 DEF Next

\* The inductive invariant holds of every run of every set of conversations.
THEOREM GateInvariant == Spec => []IInv
    BY InitOK, StepOK, PTL DEF Spec

\* needs_approval, apply_decisions and the checkpoints keep to their types.
THEOREM GateTypes == Spec => []TypeOK
    <1>1. IInv => TypeOK
        BY DEF IInv
    <1> QED BY <1>1, GateInvariant, PTL

\* No tool that a human has to approve gets past the gate without an "approve"
\* for that very call, however many checkpoints and failed runs lie between.
THEOREM Consent == Spec => []HumanConsent
    <1>1. IInv => HumanConsent
        BY DEF IInv
    <1> QED BY <1>1, GateInvariant, PTL

\* apply_decisions is final: a rejected call does not run later in the chain,
\* a decided one is not asked for again.
THEOREM Finality == Spec => []AnswersAreFinal
    <1>1. IInv => AnswersAreFinal
        BY DEF IInv
    <1> QED BY <1>1, GateInvariant, PTL

\* get_access_token never raises in a tool whose auth_guardrail let it pass,
\* whatever other requests do to the vault in between.
THEOREM TokenStays == Spec => []TokenOutlivesCheck
    <1>1. IInv => TokenOutlivesCheck
        BY DEF IInv, VaultInv, TokenOutlivesCheck
    <1> QED BY <1>1, GateInvariant, PTL

\* A client that does as the ApprovalRequests say is never turned down by the
\* auth_guardrail.
THEOREM Metadata == Spec => []MetadataSuffices
    <1>1. IInv => MetadataSuffices
        BY CallsByConversation, ConvsNamed DEF IInv, CarefulInv, MetadataSuffices
    <1> QED BY <1>1, GateInvariant, PTL
-----------------------------------------------------------------------------
(***************************************************************************)
(* ToolGate implements ConsentLedger.                                      *)
(***************************************************************************)
AskedIn(s)  == {k \in Calls : s[k] = "pending"}
PassedIn(s) == {k \in Calls : s[k] \in Passed}
HumanIn(t)  == {k \in Calls : t[k] \in {"plain", "hitl"}}

LEMMA LedgerIs ==
    UNCHANGED Ledger!vars <=>
        /\ HumanIn(tool') = HumanIn(tool) /\ AskedIn(st') = AskedIn(st)
        /\ answer' = answer /\ PassedIn(st') = PassedIn(st) /\ fails' = fails
    BY DEF Ledger!vars, Human, AskedIn, PassedIn, HumanIn

LEMMA LedgerInit == Init => Ledger!Init
    BY NoneIsNoAnswer DEF Init, Ledger!Init, Human, Passed, Tools

LEMMA ProposeInLedger ==
    ASSUME IInv, NEW c \in Convs, Propose(c) PROVE Ledger!Next
    <1>1. PICK K \in SUBSET InState(c, "none") \ {{}} : \E f \in [K -> Catalog] :
            /\ tool' = [k \in Calls |-> IF k \in K THEN f[k] ELSE tool[k]]
            /\ st' = [k \in Calls |-> IF k \in K THEN "proposed" ELSE st[k]]
        BY DEF Propose
    <1>2. \A k \in K : k \in Calls /\ st[k] = "none" /\ st'[k] = "proposed"
        BY <1>1, CallsByConversation DEF InState
    <1>3. \A k \in Calls \ K : st'[k] = st[k] /\ tool'[k] = tool[k]
        BY <1>1
    <1>4. UNCHANGED <<answer, fails>>
        BY DEF Propose
    <1>5. \A k \in K : answer[k] = None /\ tool[k] = None
        BY <1>2 DEF IInv, RecordInv
    <1>6. AskedIn(st') = AskedIn(st) /\ PassedIn(st') = PassedIn(st)
        BY <1>2, <1>3 DEF AskedIn, PassedIn, Passed
    <1> DEFINE H == K \cap HumanIn(tool')
    <1>7. HumanIn(tool') = HumanIn(tool) \cup H
        BY <1>2, <1>3, <1>5, NoneIsNoAnswer DEF HumanIn, Tools
    <1>8. H \cap (AskedIn(st) \cup PassedIn(st)) = {} /\ H \in SUBSET Calls
        BY <1>2 DEF AskedIn, PassedIn, Passed
    <1>9. \A k \in H : answer[k] = None
        BY <1>5
    <1> HIDE DEF H
    <1>10. Ledger!Make(H)
        BY <1>4, <1>6, <1>7, <1>8, <1>9
        DEF Ledger!Make, Human, AskedIn, PassedIn, HumanIn
    <1> QED BY <1>8, <1>10 DEF Ledger!Next

LEMMA GateInLedger ==
    ASSUME IInv, IInv', NEW k \in Calls, Gate(k)
    PROVE  Ledger!Next \/ UNCHANGED Ledger!vars
    <1>1. UNCHANGED <<tool, answer, fails>> /\ st[k] = "proposed"
        BY DEF Gate
    <1>2. /\ st'[k] \in {"rejected", "cleared", "pending"}
          /\ \A j \in Calls \ {k} : st'[j] = st[j]
        BY NoneIsNoAnswer DEF Gate, IInv, TypeOK
    <1>3. CASE st'[k] = "rejected"
        <2>1. AskedIn(st') = AskedIn(st) /\ PassedIn(st') = PassedIn(st)
            BY <1>1, <1>2, <1>3 DEF AskedIn, PassedIn, Passed
        <2> QED BY <1>1, <2>1, LedgerIs
    <1>4. CASE st'[k] = "cleared"
        <2>1. AskedIn(st') = AskedIn(st) /\ PassedIn(st') = PassedIn(st) \cup {k}
            BY <1>1, <1>2, <1>4 DEF AskedIn, PassedIn, Passed
        <2>2. k \notin AskedIn(st)
            BY <1>1 DEF AskedIn
        <2>3. answer[k] # "reject" /\ (k \in HumanIn(tool) => answer[k] = "approve")
            BY <1>1, <1>4 DEF IInv, AnswersAreFinal, HumanConsent, Passed, HumanIn
        <2>4. Ledger!Pass(k)
            BY <1>1, <2>1, <2>2, <2>3
            DEF Ledger!Pass, Human, AskedIn, PassedIn, HumanIn
        <2> QED BY <2>4 DEF Ledger!Next
    <1>5. CASE st'[k] = "pending"
        <2>1. AskedIn(st') = AskedIn(st) \cup {k} /\ PassedIn(st') = PassedIn(st)
            BY <1>1, <1>2, <1>5 DEF AskedIn, PassedIn, Passed
        <2>2. k \notin PassedIn(st)
            BY <1>1 DEF PassedIn, Passed
        <2>3. answer[k] = None
            BY <1>1, <1>5 DEF IInv, AnswersAreFinal
        <2>4. Ledger!Ask(k)
            BY <1>1, <2>1, <2>2, <2>3 DEF Ledger!Ask, Human, AskedIn, PassedIn
        <2> QED BY <2>4 DEF Ledger!Next
    <1> QED BY <1>2, <1>3, <1>4, <1>5

\* Behind the gate a call stays let through.
LEMMA BehindGateInLedger ==
    ASSUME IInv, NEW k \in Calls, GuardAllows(k) \/ GuardRejects(k) \/ Body(k)
    PROVE  UNCHANGED Ledger!vars
    <1>1. UNCHANGED <<tool, answer, fails>> /\ st[k] \in {"cleared", "guarded"}
        BY DEF GuardAllows, GuardRejects, Body
    <1>2. /\ st'[k] \in {"guarded", "challenged", "broken", "ran"}
          /\ \A j \in Calls \ {k} : st'[j] = st[j]
        BY DEF GuardAllows, GuardRejects, Body, IInv, TypeOK
    <1>3. AskedIn(st') = AskedIn(st) /\ PassedIn(st') = PassedIn(st)
        BY <1>1, <1>2 DEF AskedIn, PassedIn, Passed
    <1> QED BY <1>1, <1>3, LedgerIs

LEMMA ResumeInLedger ==
    ASSUME IInv, NEW c \in Convs, Resume(c) PROVE Ledger!Next
    <1>1. PICK D \in SUBSET Pending(c) : \E d \in [D -> {"approve", "reject"}] :
            answer' = [k \in Calls |-> IF k \in D THEN d[k] ELSE answer[k]]
        BY DEF Resume
    <1>2. /\ UNCHANGED <<tool, fails>>
          /\ st' = [k \in Calls |-> IF k \in Pending(c) THEN "proposed" ELSE st[k]]
        BY DEF Resume
    <1>3. Pending(c) \subseteq AskedIn(st)
        BY CallsByConversation DEF Pending, InState, AskedIn
    <1>4. AskedIn(st') = AskedIn(st) \ Pending(c)
        BY <1>2 DEF AskedIn
    <1>5. PassedIn(st') = PassedIn(st)
        BY <1>2, <1>3 DEF AskedIn, PassedIn, Passed
    <1>6. PICK Q \in SUBSET AskedIn(st) : Q = Pending(c)
        BY <1>3
    <1>7. Ledger!Decide(Q)
        BY <1>1, <1>2, <1>4, <1>5, <1>6 DEF Ledger!Decide, Human, AskedIn, PassedIn
    <1> QED BY <1>6, <1>7 DEF Ledger!Next, AskedIn

LEMMA FailInLedger ==
    ASSUME IInv, NEW c \in Convs, Fail(c) PROVE Ledger!Next
    <1>1. UNCHANGED <<tool, kept>> /\ fails' = fails + 1
        BY DEF Fail
    <1>2. CASE \A k \in CallsOf(c) : kept[k] # "pending"
        <2>1. UNCHANGED <<st, answer>>
            BY <1>2 DEF Fail
        <2>2. answer = [k \in Calls |-> IF k \in {} THEN None ELSE answer[k]]
            BY DEF IInv, TypeOK
        <2>3. Ledger!TakeBack({})
            BY <1>1, <2>1, <2>2 DEF Ledger!TakeBack, Human
        <2> QED BY <2>3 DEF Ledger!Next
    <1>3. CASE ~\A k \in CallsOf(c) : kept[k] # "pending"
        <2> DEFINE open == {k \in CallsOf(c) : kept[k] \in {"none", "pending"}}
                   again == {k \in open : st'[k] = "pending"}
        <2>1. /\ st' = [k \in Calls |-> IF k \in CallsOf(c) THEN Restored(k) ELSE st[k]]
              /\ answer' = [k \in Calls |-> IF k \in open THEN None ELSE answer[k]]
            BY <1>3 DEF Fail
        <2>2. \A k \in open : k \in Calls /\ st'[k] \in {"none", "void", "pending"}
            BY <2>1, CallsByConversation DEF Restored
        <2>3. \A k \in Calls \ open : st'[k] = st[k]
            BY <2>1 DEF Restored, IInv, KeptInv, TypeOK, Statuses
        <2> HIDE DEF open
        <2>4. PassedIn(st') = PassedIn(st) \ open
            BY <2>2, <2>3 DEF PassedIn, Passed
        <2>5. AskedIn(st') = (AskedIn(st) \ open) \cup again
            BY <2>2, <2>3 DEF AskedIn
        <2>6. open \in SUBSET Calls /\ again \in SUBSET open
            BY <2>2
        <2> HIDE DEF again
        <2>7. PICK K \in SUBSET Calls : K = open
            BY <2>6
        <2>8. Ledger!TakeBack(K)
            BY <1>1, <2>1, <2>4, <2>5, <2>6, <2>7
            DEF Ledger!TakeBack, Human, AskedIn, PassedIn
        <2> QED BY <2>7, <2>8 DEF Ledger!Next
    <1> QED BY <1>2, <1>3

LEMMA LedgerStep ==
    ASSUME IInv, IInv', [Next]_vars PROVE Ledger!Next \/ UNCHANGED Ledger!vars
    <1>1. ASSUME UNCHANGED <<tool, st, answer, fails>> PROVE UNCHANGED Ledger!vars
        BY <1>1, LedgerIs
    <1>2. ASSUME NEW c \in Convs, Begin(c) \/ Complete(c) \/ Interrupt(c)
          PROVE  UNCHANGED Ledger!vars
        BY <1>1, <1>2 DEF Begin, Complete, Interrupt
    <1>3. ASSUME NEW k \in Calls, Authenticate(k) PROVE UNCHANGED Ledger!vars
        BY <1>1, <1>3 DEF Authenticate
    <1>4. ASSUME NEW s \in Services, StoreToken(s) PROVE UNCHANGED Ledger!vars
        BY <1>1, <1>4 DEF StoreToken
    <1>5. ASSUME UNCHANGED vars PROVE UNCHANGED Ledger!vars
        BY <1>1, <1>5 DEF vars
    <1>6. ASSUME NEW c \in Convs, Work(c) PROVE Ledger!Next \/ UNCHANGED Ledger!vars
        BY <1>2, <1>6, CallsByConversation, ProposeInLedger, GateInLedger,
           BehindGateInLedger DEF Work
    <1>7. ASSUME NEW c \in Convs, Answer(c) PROVE Ledger!Next \/ UNCHANGED Ledger!vars
        BY <1>3, <1>7, CallsByConversation, ResumeInLedger DEF Answer
    <1> QED BY <1>2, <1>4, <1>5, <1>6, <1>7, FailInLedger DEF Next, Over

\* apply_decisions, needs_approval and the checkpoints implement ConsentLedger,
\* for any conversations and tools: what passes, passes by a decision on that
\* call, and only a failing run takes a decision back, with all it let pass.
THEOREM GateImplementsLedger == Spec => ImplementsConsent
    <1>1. Spec => Ledger!Spec
        BY LedgerInit, LedgerStep, GateInvariant, PTL DEF Spec, Ledger!Spec
    <1> QED BY <1>1 DEF ImplementsConsent

\* The step undoes a decision on k, or k's passing of the gate.
Undone(k) ==
    \/ answer[k] # None /\ answer'[k] # answer[k]
    \/ st[k] \in Passed /\ st'[k] \notin Passed

\* A decision is never overwritten, nor a call that passed held up again, but by
\* a failing run of the same conversation; and even that does not reach what was
\* settled in the checkpoint the run was resumed from.
OnlyOwnFailureUndoes ==
    [][\A k \in Calls : Undone(k) =>
          /\ pc[k[1]] = "running" /\ pc'[k[1]] = "asked" /\ fails' = fails + 1
          /\ kept[k] \in {"none", "pending"}]_vars

LEMMA UndoneBy ==
    ASSUME IInv, [Next]_vars, NEW k \in Calls, Undone(k)
    PROVE  /\ pc[k[1]] = "running" /\ pc'[k[1]] = "asked" /\ fails' = fails + 1
           /\ kept[k] \in {"none", "pending"}
    <1> DEFINE Goal == /\ pc[k[1]] = "running" /\ pc'[k[1]] = "asked"
                       /\ fails' = fails + 1 /\ kept[k] \in {"none", "pending"}
    <1>1. ASSUME UNCHANGED <<st, answer>> PROVE FALSE
        BY <1>1 DEF Undone
    <1>2. ASSUME NEW c \in Convs, Begin(c) \/ Complete(c) \/ Interrupt(c) PROVE FALSE
        BY <1>1, <1>2 DEF Begin, Complete, Interrupt
    <1>3. ASSUME NEW j \in Calls, Authenticate(j) PROVE FALSE
        BY <1>1, <1>3 DEF Authenticate
    <1>4. ASSUME NEW s \in Services, StoreToken(s) PROVE FALSE
        BY <1>1, <1>4 DEF StoreToken
    <1>5. ASSUME NEW c \in Convs, Propose(c) PROVE FALSE
        BY <1>5, CallsByConversation
        DEF Propose, InState, Undone, IInv, TypeOK, Passed
    <1>6. ASSUME NEW j \in Calls,
                 Gate(j) \/ GuardAllows(j) \/ GuardRejects(j) \/ Body(j)
          PROVE  FALSE
        BY <1>6 DEF Gate, GuardAllows, GuardRejects, Body, Undone, IInv, TypeOK, Passed
    <1>7. ASSUME NEW c \in Convs, Resume(c) PROVE FALSE
        <2>1. PICK D \in SUBSET Pending(c) : \E d \in [D -> {"approve", "reject"}] :
                  answer' = [j \in Calls |-> IF j \in D THEN d[j] ELSE answer[j]]
            BY <1>7 DEF Resume
        <2>2. st' = [j \in Calls |-> IF j \in Pending(c) THEN "proposed" ELSE st[j]]
            BY <1>7 DEF Resume
        <2>3. k \in Pending(c) => st[k] = "pending" /\ answer[k] = None
            BY NoneIsNoAnswer DEF Pending, InState, IInv, AnswersAreFinal, TypeOK
        <2>4. k \notin D => answer'[k] = answer[k]
            BY <2>1
        <2> QED BY <2>2, <2>3, <2>4 DEF Undone, Passed
    <1>8. ASSUME NEW c \in Convs, Fail(c) PROVE Goal
        <2>1. /\ pc[c] = "running" /\ fails' = fails + 1 /\ pc' = [pc EXCEPT ![c] = "asked"]
              /\ st' = [j \in Calls |-> IF j \in CallsOf(c) THEN Restored(j) ELSE st[j]]
              /\ LET open == {j \in CallsOf(c) : kept[j] \in {"none", "pending"}}
                 IN  answer' = [j \in Calls |-> IF j \in open THEN None ELSE answer[j]]
            BY <1>1, <1>8 DEF Fail
        <2>2. k \in CallsOf(c) /\ k[1] = c
            BY <2>1, CallsByConversation DEF Undone
        <2>3. pc'[c] = "asked"
            BY <2>1 DEF IInv, TypeOK
        <2>4. CASE answer'[k] # answer[k]
            BY <2>1, <2>2, <2>3, <2>4
        <2>5. CASE st[k] \in Passed /\ Restored(k) \notin Passed
            <3>1. kept[k] \in Statuses /\ kept[k] \notin Moving
                  /\ (kept[k] \in Settled \cup {"void"} => st[k] = kept[k])
                BY DEF IInv, TypeOK, KeptInv
            <3>2. kept[k] \notin Settled \cup {"void"}
                BY <2>5, <3>1 DEF Restored, Settled, Passed
            <3> QED BY <2>1, <2>2, <2>3, <3>1, <3>2 DEF Statuses
        <2> QED BY <2>1, <2>4, <2>5 DEF Undone
    <1>9. ASSUME UNCHANGED vars PROVE FALSE
        BY <1>1, <1>9 DEF vars
    <1> QED BY <1>2, <1>3, <1>4, <1>5, <1>6, <1>7, <1>8, <1>9, CallsByConversation
            DEF Next, Over, Work, Answer

\* However many conversations go on and fail side by side, one does not undo
\* what was decided or let pass in another, nor in its own earlier checkpoints.
THEOREM UndoneByOwnFailure == Spec => OnlyOwnFailureUndoes
    <1>1. IInv /\ [Next]_vars =>
            [\A k \in Calls : Undone(k) =>
                /\ pc[k[1]] = "running" /\ pc'[k[1]] = "asked" /\ fails' = fails + 1
                /\ kept[k] \in {"none", "pending"}]_vars
        BY UndoneBy
    <1> QED BY <1>1, GateInvariant, PTL DEF Spec, OnlyOwnFailureUndoes
=============================================================================
