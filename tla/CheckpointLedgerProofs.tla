----------------------- MODULE CheckpointLedgerProofs -----------------------
(***************************************************************************)
(* What CheckpointLedger gives to whoever implements it, for any tokens    *)
(* and any subjects.                                                       *)
(***************************************************************************)
EXTENDS CheckpointLedger, TLAPS

\* Only issued tokens are about.
KnownTokens ==
    /\ owner \in [Tokens -> Subjects \cup {None}]
    /\ heirs \in [Tokens -> SUBSET Tokens]
    /\ live \cup finished \subseteq {t \in Tokens : Issued(t)}
    /\ \A t \in Tokens : \A s \in heirs[t] : Issued(t) /\ Issued(s)

\* What is spent has led to something.
Accounted ==
    \A t \in Tokens : Issued(t) /\ t \notin live => t \in finished \/ heirs[t] # {}

\* No heir leads back: in every set of tokens one has no heir within.
NoCycle ==
    \A C \in SUBSET Tokens : C # {} => \E t \in C : heirs[t] \cap C = {}

IInv == KnownTokens /\ OnePredecessor /\ Accounted /\ NoCycle

LEMMA InitOK == ASSUME Init PROVE IInv
    <1>1. KnownTokens /\ OnePredecessor /\ Accounted
        BY DEF Init, KnownTokens, OnePredecessor, Accounted, Issued
    <1>2. ASSUME NEW C \in SUBSET Tokens, NEW t \in C PROVE heirs[t] \cap C = {}
        BY DEF Init
    <1>3. NoCycle
        BY <1>2 DEF NoCycle
    <1> QED BY <1>1, <1>3 DEF IInv

LEMMA IssueOK ==
    ASSUME None \notin Subjects, IInv, NEW t \in Tokens, NEW u \in Subjects, Issue(t, u)
    PROVE  IInv'
    <1>1. /\ ~Issued(t) /\ UNCHANGED <<heirs, finished>>
          /\ live' = live \cup {t} /\ owner' = [owner EXCEPT ![t] = u]
        BY DEF Issue
    <1>2. owner'[t] = u /\ \A p \in Tokens \ {t} : owner'[p] = owner[p]
        BY <1>1 DEF IInv, KnownTokens
    <1>3. \A s \in heirs[t] : FALSE
        BY <1>1 DEF IInv, KnownTokens
    <1>4. \A p \in Tokens : t \notin heirs[p]
        BY <1>1 DEF IInv, KnownTokens
    <1>5. KnownTokens'
        BY <1>1, <1>2 DEF IInv, KnownTokens, Issued
    <1>6. OnePredecessor'
        BY <1>1, <1>2, <1>3, <1>4 DEF IInv, OnePredecessor
    <1>7. Accounted'
        BY <1>1, <1>2 DEF IInv, Accounted, Issued
    <1>8. NoCycle'
        BY <1>1 DEF IInv, NoCycle
    <1> QED BY <1>5, <1>6, <1>7, <1>8 DEF IInv

LEMMA SucceedOK ==
    ASSUME IInv, NEW t \in Tokens, NEW s \in Tokens, Succeed(t, s)
    PROVE  IInv'
    <1>1. /\ UNCHANGED <<owner, live, finished>> /\ heirs' = [heirs EXCEPT ![t] = @ \cup {s}]
          /\ Issued(t) /\ s # t /\ s \in live /\ owner[s] = owner[t] /\ heirs[s] = {}
          /\ \A p \in Tokens : s \notin heirs[p]
        BY DEF Succeed
    <1>2. /\ heirs'[t] = heirs[t] \cup {s}
          /\ \A p \in Tokens \ {t} : heirs'[p] = heirs[p]
        BY <1>1 DEF IInv, KnownTokens
    <1>3. KnownTokens'
        BY <1>1, <1>2 DEF IInv, KnownTokens, Issued
    <1>4. OnePredecessor'
        BY <1>1, <1>2 DEF IInv, OnePredecessor
    <1>5. Accounted'
        BY <1>1, <1>2 DEF IInv, Accounted, Issued
    <1>6. NoCycle'
        <2> SUFFICES ASSUME NEW C \in SUBSET Tokens, C # {}
                     PROVE  \E p \in C : heirs'[p] \cap C = {}
            BY DEF NoCycle
        <2>1. CASE s \in C
            BY <1>1, <1>2, <2>1
        <2>2. CASE s \notin C
            <3>1. PICK p \in C : heirs[p] \cap C = {}
                BY DEF IInv, NoCycle
            <3>2. heirs'[p] \cap C = {}
                BY <1>2, <2>2, <3>1
            <3> QED BY <3>2
        <2> QED BY <2>1, <2>2
    <1> QED BY <1>3, <1>4, <1>5, <1>6 DEF IInv

LEMMA FinishOK == ASSUME IInv, NEW t \in Tokens, Finish(t) PROVE IInv'
    BY DEF Finish, IInv, KnownTokens, OnePredecessor, Accounted, NoCycle, Issued

LEMMA SpendOK == ASSUME IInv, NEW t \in Tokens, Spend(t) PROVE IInv'
    BY DEF Spend, IInv, KnownTokens, OnePredecessor, Accounted, NoCycle, Issued

LEMMA StepOK == None \notin Subjects /\ IInv /\ [Next]_vars => IInv'
    <1> SUFFICES ASSUME None \notin Subjects, IInv, [Next]_vars PROVE IInv'
        OBVIOUS
    <1>1. CASE UNCHANGED vars
        BY <1>1 DEF vars, IInv, KnownTokens, OnePredecessor, Accounted, NoCycle, Issued
    <1> QED BY <1>1, IssueOK, SucceedOK, FinishOK, SpendOK DEF Next

\* Spent tokens are accounted for, and heirs never lead in a circle.
THEOREM LedgerInvariant == ASSUME None \notin Subjects PROVE Spec => []IInv
    BY InitOK, StepOK, PTL DEF Spec

\* No set of tokens is spent for nothing: out of it leads an heir.
THEOREM LeadsOut == ASSUME None \notin Subjects PROVE Spec => []NoneStranded
    <1>1. IInv => NoneStranded
        <2> SUFFICES ASSUME IInv, NEW C \in SUBSET Tokens, C # {},
                            \A t \in C : Issued(t) /\ t \notin live \cup finished,
                            \A t \in C : heirs[t] \subseteq C
                     PROVE  FALSE
            BY DEF NoneStranded
        <2>1. PICK t \in C : heirs[t] \cap C = {}
            BY DEF IInv, NoCycle
        <2> QED BY <2>1 DEF IInv, Accounted
    <1> QED BY <1>1, LedgerInvariant, PTL

\* A token has one predecessor at most, and its owner's.
THEOREM SinglePredecessor == ASSUME None \notin Subjects PROVE Spec => []OnePredecessor
    <1>1. IInv => OnePredecessor
        BY DEF IInv
    <1> QED BY <1>1, LedgerInvariant, PTL

\* A token that is spent stays so.
THEOREM NoRevival == ASSUME None \notin Subjects PROVE Spec => SpentForGood
    <1>1. IInv /\ [Next]_vars =>
            [\A t \in Tokens : Issued(t) /\ t \notin live => t \notin live']_vars
        BY DEF Next, Issue, Succeed, Finish, Spend, Issued, vars
    <1> QED BY <1>1, LedgerInvariant, PTL DEF Spec, SpentForGood
=============================================================================
