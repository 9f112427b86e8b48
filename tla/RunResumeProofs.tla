-------------------------- MODULE RunResumeProofs --------------------------
(***************************************************************************)
(* Proofs about RunResume, for any number of requests, tokens and callers. *)
(*                                                                         *)
(* IInv is the inductive invariant: where the lock, the stages, the files  *)
(* and the tokens stand to each other.  The invariants that the model      *)
(* checker checks on an instance, the deletion rule and the implementation *)
(* of CheckpointLedger follow from it.                                     *)
(***************************************************************************)
EXTENDS RunResume, TLAPS

\* Where a run's progress and the request's stage can be together.
StageInv == \A r \in Requests :
    /\ pc[r] = "new" => tok[r] = None
    /\ pc[r] \in {"new", "open", "wait", "held", "refused", "broken"} =>
          exec[r] = "idle"
    /\ pc[r] = "stream" => exec[r] \in {"running", "saved", "over"}
    /\ pc[r] \in {"closing", "reaping"} => exec[r] = "running"
    /\ pc[r] \in {"terminal", "reply", "answered", "unheard"} => exec[r] = "over"
    /\ exec[r] = "running" =>
          pc[r] \in {"stream", "closing", "dropped", "unlocked", "reaping"}
    /\ exec[r] = "saved" => pc[r] \in {"stream", "dropped", "unlocked"}
    /\ pc[r] \in {"reply", "unheard"} => r \in Rest
    /\ pc[r] \in {"terminal", "closing", "dropped", "unlocked", "reaping"} =>
          r \notin Rest

\* What a run has brought about, by its progress.
OutcomeInv == \A r \in Requests :
    /\ exec[r] # "over" <=> out[r] = None
    /\ exec[r] \in {"idle", "running"} => succ[r] = None
    /\ exec[r] = "saved" \/ out[r] = "interrupt" => succ[r] # None
    /\ pc[r] = "terminal" => SuccOf(r) \subseteq sent

\* Only issued tokens are about, and each checkpoint was saved by one run, for
\* the run's subject.
TokenInv ==
    /\ files \subseteq {t \in Tokens : Issued(t)}
    /\ sent \subseteq {t \in Tokens : Issued(t)}
    /\ \A r \in Requests : tok[r] # None => tok[r] \in sent
    /\ \A r \in Requests : succ[r] # None =>
          Issued(succ[r]) /\ owner[succ[r]] = who[r]
    /\ \A r, q \in Requests : succ[r] # None /\ succ[r] = succ[q] => r = q

\* Until it is written to the caller, nobody can resume a new checkpoint.
Unwritten(r) ==
    \/ exec[r] = "saved"
    \/ pc[r] \in {"stream", "reply", "unheard"}
    \/ r \in Rest /\ pc[r] = "lost"

FreshInv == \A r \in Requests :
    succ[r] # None /\ Unwritten(r) => succ[r] \in files /\ succ[r] \notin sent

\* The lock's holder is known by its stage, and the checkpoint it was admitted
\* to stays in place.
LockInv == \A r \in Requests :
    Holding(r) => holder[tok[r]] = r /\ Admissible(r, tok[r])

\* Runs are started for the owner only, and effects come from started runs.
StartedInv ==
    /\ \A r \in Requests : tok[r] # None /\ exec[r] # "idle" => owner[tok[r]] = who[r]
    /\ \A t \in Tokens : \A r \in effects[t] : tok[r] = t /\ exec[r] # "idle"

\* The request has consumed the checkpoint it resumed.
Done(r) ==
    tok[r] # None /\ pc[r] \in {"reply", "answered", "unheard"} /\ out[r] # "error"

\* A checkpoint is consumed once.
DoneInv ==
    /\ \A r \in Requests : Done(r) => tok[r] \notin files
    /\ \A r, q \in Requests : Done(r) /\ Done(q) /\ tok[r] = tok[q] => r = q

\* r has consumed t, and t's outcome is out, or did not get out over REST.
Spender(r, t) ==
    /\ tok[r] = t /\ Consumed(r)
    /\ \/ pc[r] = "answered" /\ SuccOf(r) \subseteq sent
       \/ r \in Rest /\ pc[r] \in {"reply", "unheard", "lost"}

\* A checkpoint that is gone was spent by a run.
SpentInv == \A t \in Tokens : Issued(t) /\ t \notin files =>
    \E r \in Requests : Spender(r, t)

IInv ==
    /\ TypeOK /\ StageInv /\ OutcomeInv /\ TokenInv /\ FreshInv
    /\ LockInv /\ StartedInv /\ DoneInv /\ SpentInv
-----------------------------------------------------------------------------
LEMMA TypeInit == ASSUME Init PROVE TypeOK
<1>1. PICK o \in [Saved -> Subjects] :
         owner = [t \in Tokens |-> IF t \in Saved THEN o[t] ELSE None]
  BY DEF Init
<1>2. owner \in [Tokens -> Subjects \cup {None}]
  BY <1>1
<1>3. waiters \in [Tokens -> Seq(Requests)]
  BY DEF Init
<1> QED BY <1>2, <1>3, SavedTokens DEF Init, TypeOK, Stages, Final

LEMMA EnterTypes ==
    ASSUME TypeOK, NEW r \in Requests, NEW t, Enter(r, t)
    PROVE  /\ pc' \in [Requests -> Stages]
           /\ holder' \in [Tokens -> Requests \cup {None}]
<1>1. CASE Admissible(r, t)
  BY <1>1 DEF Enter, TypeOK, Stages, Final
<1>2. CASE ~Admissible(r, t)
  BY <1>2 DEF Enter, TypeOK, Stages, Final
<1> QED BY <1>1, <1>2

LEMMA LockTypes ==
    ASSUME TypeOK, NEW r \in Requests, NEW t \in Tokens, LockOrWait(r, t)
    PROVE  /\ pc' \in [Requests -> Stages]
           /\ holder' \in [Tokens -> Requests \cup {None}]
           /\ waiters' \in [Tokens -> Seq(Requests)]
<1>1. CASE holder[t] = None /\ waiters[t] = << >>
  BY <1>1, EnterTypes DEF LockOrWait, TypeOK
<1>2. CASE ~(holder[t] = None /\ waiters[t] = << >>)
  <2>1. Append(waiters[t], r) \in Seq(Requests)
    BY DEF TypeOK
  <2> QED BY <1>2, <2>1 DEF LockOrWait, Enqueue, TypeOK, Stages, Final
<1> QED BY <1>1, <1>2

\* What SequencesExt's RemoveAt leaves of a queue.
LEMMA RemoveAtType ==
    ASSUME NEW S, NEW s \in Seq(S), NEW i \in DOMAIN s
    PROVE  RemoveAt(s, i) \in Seq(S)
<1>1. i \in 1..Len(s) /\ Len(s) \in Nat
  OBVIOUS
<1>2. SubSeq(s, 1, i - 1) \in Seq(S) /\ SubSeq(s, i + 1, Len(s)) \in Seq(S)
  BY <1>1
<1> QED BY <1>2 DEF RemoveAt

LEMMA ReleaseType ==
    ASSUME TypeOK, NEW r \in Requests
    PROVE  Release(r) \in [Tokens -> Requests \cup {None}]
BY DEF TypeOK, Release

LEMMA TypeNext == ASSUME TypeOK, OutcomeInv, [Next]_vars PROVE TypeOK'
<1> USE DEF request, run, store, locks
<1>1. ASSUME NEW r \in Requests, RunRequest(r) PROVE TypeOK'
  BY <1>1 DEF RunRequest, TypeOK, Stages
<1>2. ASSUME NEW r \in Requests, RefuseDuplicates(r) PROVE TypeOK'
  BY <1>2 DEF RefuseDuplicates, TypeOK, Stages, Final
<1>3. ASSUME NEW r \in Requests, NEW t \in Tokens, ResumeRequest(r, t)
      PROVE  TypeOK'
  <2>1. tok' \in [Requests -> Tokens \cup {None}]
        /\ dec' \in [Requests -> {"known", "unknown"}]
    BY <1>3 DEF ResumeRequest, TypeOK
  <2>2. CASE r \in Rest
    BY <1>3, <2>1, <2>2, LockTypes DEF ResumeRequest, TypeOK
  <2>3. CASE r \notin Rest
    <3>1. pc' = [pc EXCEPT ![r] = IF Admissible(r, t) THEN "open" ELSE "refused"]
      BY <1>3, <2>3 DEF ResumeRequest, AdmitSse
    <3>2. pc' \in [Requests -> Stages]
      BY <3>1 DEF TypeOK, Stages, Final
    <3>3. UNCHANGED <<who, run, store, locks, sent, effects>>
      BY <1>3, <2>3 DEF ResumeRequest, AdmitSse
    <3> QED BY <2>1, <3>2, <3>3 DEF TypeOK
  <2> QED BY <2>2, <2>3
<1>4. ASSUME NEW r \in Requests, OpenStream(r) PROVE TypeOK'
  <2>1. CASE tok[r] = None
    BY <1>4, <2>1 DEF OpenStream, TypeOK, Stages
  <2>2. CASE tok[r] # None
    <3>1. tok[r] \in Tokens
      BY <2>2 DEF TypeOK
    <3>2. LockOrWait(r, tok[r])
          /\ UNCHANGED <<request, run, store, sent, effects>>
      BY <1>4, <2>2 DEF OpenStream
    <3> QED BY <3>1, <3>2, LockTypes DEF TypeOK
  <2> QED BY <2>1, <2>2
<1>5. ASSUME NEW r \in Requests, Acquire(r) PROVE TypeOK'
  <2>1. Tail(waiters[tok[r]]) \in Seq(Requests) \/ tok[r] \notin Tokens
    BY <1>5 DEF Acquire, TypeOK
  <2>2. waiters' \in [Tokens -> Seq(Requests)]
    BY <1>5, <2>1 DEF Acquire, TypeOK
  <2> QED BY <1>5, <2>2, EnterTypes DEF Acquire, TypeOK
<1>6. ASSUME NEW r \in Requests, PrepareFails(r) PROVE TypeOK'
  BY <1>6, ReleaseType DEF PrepareFails, Abort, TypeOK, Stages, Final
<1>7. ASSUME NEW r \in Requests, StartRun(r) PROVE TypeOK'
  <2>1. CASE Start(r)
    BY <1>7, <2>1 DEF StartRun, Start, TypeOK, Stages
  <2>2. ASSUME NEW s \in {"refused", "broken"}, Abort(r, s) PROVE TypeOK'
    <3>1. UNCHANGED <<request, store, sent, effects>>
      BY <1>7 DEF StartRun
    <3>2. s \in Stages
      BY DEF Stages, Final
    <3>3. pc' \in [Requests -> Stages]
      BY <2>2, <3>2 DEF Abort, TypeOK
    <3>4. holder' \in [Tokens -> Requests \cup {None}]
      BY <2>2, ReleaseType DEF Abort
    <3> QED BY <2>2, <3>1, <3>3, <3>4 DEF Abort, TypeOK
  <2> QED BY <1>7, <2>1, <2>2 DEF StartRun
<1>8. ASSUME NEW r \in Requests, ToolPhase(r) PROVE TypeOK'
  BY <1>8 DEF ToolPhase, TypeOK
<1>9. ASSUME NEW r \in Requests, FinishComplete(r) \/ FinishError(r) \/ Publish(r)
      PROVE  TypeOK'
  <2>1. CASE FinishComplete(r)
    BY <2>1 DEF FinishComplete, Finish, TypeOK
  <2>2. CASE FinishError(r)
    BY <2>2 DEF FinishError, Finish, TypeOK
  <2>3. CASE Publish(r)
    BY <2>3 DEF Publish, Finish, TypeOK
  <2> QED BY <1>9, <2>1, <2>2, <2>3
<1>10. ASSUME NEW r \in Requests, NEW t \in Tokens, SaveState(r, t) PROVE TypeOK'
  BY <1>10 DEF SaveState, TypeOK
<1>11. ASSUME NEW r \in Requests, Settle(r) \/ CloseStream(r) PROVE TypeOK'
  <2>1. FilesAfter(r) \subseteq files
    BY DEF FilesAfter
  <2>2. CASE Settle(r)
    BY <2>1, <2>2, ReleaseType DEF Settle, TypeOK, Stages, Final
  <2>3. CASE CloseStream(r)
    BY <2>1, <2>3, ReleaseType DEF CloseStream, TypeOK, Stages, Final
  <2> QED BY <1>11, <2>2, <2>3
<1>12. ASSUME NEW r \in Requests, Respond(r) \/ RespondInVain(r) \/ PullTerminal(r)
       PROVE  TypeOK'
  <2>1. SuccOf(r) \subseteq Tokens
    BY DEF SuccOf, TypeOK, OutcomeInv
  <2> QED
    BY <1>12, <2>1 DEF Respond, RespondInVain, PullTerminal, TypeOK, Stages, Final
<1>13. ASSUME NEW r \in Requests,
              LeaveEarly(r) \/ ReapResume(r) \/ ProducerCancelled(r)
       PROVE  TypeOK'
  <2>1. holder' \in [Tokens -> Requests \cup {None}]
    BY <1>13, ReleaseType DEF LeaveEarly, ReapResume, ProducerCancelled, TypeOK
  <2>2. CASE LeaveEarly(r)
    BY <2>1, <2>2 DEF LeaveEarly, TypeOK, Stages, Final
  <2>3. CASE ReapResume(r)
    BY <2>1, <2>3 DEF ReapResume, TypeOK, Stages
  <2>4. CASE ProducerCancelled(r)
    BY <2>1, <2>4 DEF ProducerCancelled, TypeOK, Stages, Final
  <2> QED BY <1>13, <2>2, <2>3, <2>4
<1>14. ASSUME NEW r \in Requests, LeaveQueue(r) PROVE TypeOK'
  <2>1. PICK i \in DOMAIN waiters[tok[r]] :
           waiters' = [waiters EXCEPT ![tok[r]] = RemoveAt(@, i)]
    BY <1>14 DEF LeaveQueue
  <2>2. waiters' \in [Tokens -> Seq(Requests)]
    BY <2>1, RemoveAtType DEF TypeOK
  <2> QED BY <1>14, <2>2 DEF LeaveQueue, TypeOK, Stages, Final
<1>15. ASSUME NEW r \in Requests, CancelAtReceive(r) \/ Drop(r) \/ ReapProducer(r)
       PROVE  TypeOK'
  BY <1>15 DEF CancelAtReceive, Drop, ReapProducer, TypeOK, Stages, Final
<1>16. ASSUME Crash PROVE TypeOK'
  <2>1. waiters' \in [Tokens -> Seq(Requests)]
    BY <1>16 DEF Crash
  <2> QED BY <1>16, <2>1 DEF Crash, TypeOK, Stages, Final
<1>17. CASE UNCHANGED vars
  BY <1>17 DEF vars, TypeOK
<1>18. ASSUME NEW r \in Requests, NextOf(r) PROVE TypeOK'
  BY <1>18, <1>1, <1>2, <1>3, <1>4, <1>5, <1>6, <1>7, <1>8, <1>9, <1>10,
     <1>11, <1>12, <1>13, <1>14, <1>15
  DEF NextOf, Arrive, Serve, Execute, Read, Leave, Reap
<1> QED BY <1>16, <1>17, <1>18 DEF Next, Idle
-----------------------------------------------------------------------------
(***************************************************************************)
(* What the steps before and after a run have in common.                   *)
(***************************************************************************)
Admission(r) == Arrive(r) \/ OpenStream(r) \/ Acquire(r)

\* A request is admitted to a checkpoint with the lock free, the checkpoint in
\* place and its owner asking; nothing else changes but its stage.
LEMMA AdmissionStep ==
    ASSUME TypeOK, StageInv, NEW r \in Requests, Admission(r)
    PROVE  /\ pc[r] \in {"new", "open", "wait"}
           /\ UNCHANGED <<who, exec, out, succ, files, owner, sent, effects>>
           /\ \E s \in {"open", "wait", "held", "refused", "broken"} :
                 pc' = [pc EXCEPT ![r] = s]
           /\ tok' = tok \/ /\ pc[r] = "new"
                            /\ \E t \in sent : tok' = [tok EXCEPT ![r] = t]
           /\ \/ /\ pc'[r] = "held" /\ tok'[r] # None
                 /\ holder[tok'[r]] = None
                 /\ holder' = [holder EXCEPT ![tok'[r]] = r]
                 /\ Admissible(r, tok'[r])
              \/ /\ pc'[r] # "held" \/ tok'[r] = None
                 /\ holder' = holder
<1> USE DEF request, run, store, locks
<1> DEFINE Goal == /\ \E s \in {"open", "wait", "held", "refused", "broken"} :
                        pc' = [pc EXCEPT ![r] = s]
                   /\ \/ /\ pc'[r] = "held" /\ tok'[r] # None
                         /\ holder[tok'[r]] = None
                         /\ holder' = [holder EXCEPT ![tok'[r]] = r]
                         /\ Admissible(r, tok'[r])
                      \/ /\ pc'[r] # "held" \/ tok'[r] = None
                         /\ holder' = holder
<1>1. ASSUME NEW t \in Tokens, Enter(r, t), holder[t] = None, tok'[r] = t
      PROVE  Goal
  BY <1>1, NoneIsNeither DEF Enter, TypeOK
<1>2. ASSUME NEW t \in Tokens, LockOrWait(r, t), tok'[r] = t
      PROVE  Goal
  <2>1. CASE holder[t] = None /\ waiters[t] = << >>
    BY <1>1, <1>2, <2>1 DEF LockOrWait
  <2>2. CASE ~(holder[t] = None /\ waiters[t] = << >>)
    BY <1>2, <2>2 DEF LockOrWait, Enqueue, TypeOK
  <2> QED BY <2>1, <2>2
<1>3. CASE RunRequest(r) \/ RefuseDuplicates(r)
  <2>1. /\ pc[r] = "new" /\ tok' = tok /\ holder' = holder /\ tok[r] = None
        /\ UNCHANGED <<who, exec, out, succ, files, owner, sent, effects>>
        /\ pc' = [pc EXCEPT ![r] = "held"] \/ pc' = [pc EXCEPT ![r] = "open"]
           \/ pc' = [pc EXCEPT ![r] = "refused"]
    BY <1>3 DEF RunRequest, RefuseDuplicates, StageInv
  <2> QED BY <2>1 DEF TypeOK
<1>4. ASSUME NEW t \in Tokens, ResumeRequest(r, t)
      PROVE  Goal /\ pc[r] = "new" /\ t \in sent /\ tok' = [tok EXCEPT ![r] = t]
             /\ UNCHANGED <<who, exec, out, succ, files, owner, sent, effects>>
  <2>1. /\ pc[r] = "new" /\ t \in sent /\ tok' = [tok EXCEPT ![r] = t]
        /\ UNCHANGED <<who, exec, out, succ, files, owner, sent, effects>>
        /\ tok'[r] = t
    BY <1>4 DEF ResumeRequest, TypeOK
  <2>2. CASE r \in Rest
    BY <1>2, <1>4, <2>1, <2>2 DEF ResumeRequest
  <2>3. CASE r \notin Rest
    BY <1>4, <2>1, <2>3 DEF ResumeRequest, AdmitSse, TypeOK
  <2> QED BY <2>1, <2>2, <2>3
<1>5. CASE OpenStream(r)
  <2>1. /\ pc[r] = "open" /\ tok' = tok
        /\ UNCHANGED <<who, exec, out, succ, files, owner, sent, effects>>
    BY <1>5 DEF OpenStream
  <2>2. CASE tok[r] = None
    BY <1>5, <2>1, <2>2 DEF OpenStream, TypeOK
  <2>3. CASE tok[r] # None
    BY <1>2, <1>5, <2>1, <2>3 DEF OpenStream, TypeOK
  <2> QED BY <2>1, <2>2, <2>3
<1>6. CASE Acquire(r)
  <2>1. /\ pc[r] = "wait" /\ tok' = tok
        /\ UNCHANGED <<who, exec, out, succ, files, owner, sent, effects>>
        /\ Enter(r, tok[r]) /\ holder[tok[r]] = None
    BY <1>6 DEF Acquire
  <2>2. CASE tok[r] \in Tokens
    BY <1>1, <2>1, <2>2
  <2>3. CASE tok[r] \notin Tokens
    BY <2>1, <2>3, NoneIsNeither DEF Enter, Admissible, TypeOK
  <2> QED BY <2>1, <2>2, <2>3
<1>7. CASE \E t \in Tokens : ResumeRequest(r, t)
  <2>1. PICK t \in Tokens : ResumeRequest(r, t)
    BY <1>7
  <2> QED BY <1>4, <2>1
<1> QED BY <1>3, <1>5, <1>6, <1>7 DEF Admission, Arrive

Departure(r) == Leave(r) \/ ReapResume(r) \/ ReapProducer(r)

\* Where a departure from stage pc[r] leads, and what becomes of the lock.
DepartureTo(r, s) ==
    /\ pc' = [pc EXCEPT ![r] = s]
    /\ s = "closing" => pc[r] = "stream"
    /\ s = "dropped" => pc[r] \in {"stream", "terminal"}
    /\ s \in {"closing", "reaping"} => exec[r] = "running"
    /\ s \in {"closing", "dropped"} => r \notin Rest
    /\ s = "unlocked" => pc[r] = "dropped"
    /\ s = "reaping" => pc[r] = "unlocked"
    /\ s = "gone" => pc[r] \in {"open", "wait", "held"}
                     \/ (pc[r] = "unlocked" /\ exec[r] # "running")
    /\ \/ holder' = holder /\ (s \in {"gone", "unlocked"} => ~Holding(r))
       \/ holder' = Release(r) /\ s \in {"gone", "unlocked"}
                               /\ pc[r] \in {"held", "dropped"}

LEMMA DepartureStep ==
    ASSUME NEW r \in Requests, Departure(r)
    PROVE  /\ UNCHANGED <<tok, who, exec, out, succ, files, owner, sent, effects>>
           /\ exec[r] # "saved"
           /\ \/ DepartureTo(r, "gone") \/ DepartureTo(r, "closing")
              \/ DepartureTo(r, "dropped") \/ DepartureTo(r, "unlocked")
              \/ DepartureTo(r, "reaping")
<1> USE TransportsDisjoint DEF request, run, store, locks, Holding, HoldingStages
<1>1. UNCHANGED <<tok, who, exec, out, succ, files, owner, sent, effects>>
      /\ LoopFree
  BY DEF Departure, Leave, LeaveEarly, LeaveQueue, CancelAtReceive, Drop,
         ReapResume, ReapProducer
<1>2. exec[r] # "saved"
  BY <1>1 DEF LoopFree, MidStep
<1>3. CASE LeaveEarly(r) \/ LeaveQueue(r)
  <2>1. DepartureTo(r, "gone")
    BY <1>3 DEF LeaveEarly, LeaveQueue, DepartureTo
  <2> QED BY <1>1, <1>2, <2>1
<1>4. CASE CancelAtReceive(r)
  <2>1. DepartureTo(r, "closing")
    BY <1>4 DEF CancelAtReceive, DepartureTo
  <2> QED BY <1>1, <1>2, <2>1
<1>5. CASE Drop(r)
  <2>1. DepartureTo(r, "dropped")
    BY <1>5 DEF Drop, DepartureTo
  <2> QED BY <1>1, <1>2, <2>1
<1>6. CASE ReapResume(r)
  <2>1. DepartureTo(r, "unlocked")
    BY <1>6 DEF ReapResume, DepartureTo
  <2> QED BY <1>1, <1>2, <2>1
<1>7. CASE ReapProducer(r)
  <2>1. DepartureTo(r, "reaping") \/ DepartureTo(r, "gone")
    BY <1>7 DEF ReapProducer, DepartureTo
  <2> QED BY <1>1, <1>2, <2>1
<1> QED BY <1>3, <1>4, <1>5, <1>6, <1>7 DEF Departure, Leave

\* Whoever is admitted, nobody else's request changes.
LEMMA AdmissionAlone ==
    ASSUME TypeOK, StageInv, NEW r \in Requests, Admission(r)
    PROVE  \A q \in Requests : q # r => pc'[q] = pc[q] /\ tok'[q] = tok[q]
<1> DEFINE Same == \A q \in Requests : q # r => tok'[q] = tok[q]
<1>1. ASSUME tok' = tok PROVE Same
  BY <1>1
<1>2. ASSUME NEW t \in sent, tok' = [tok EXCEPT ![r] = t] PROVE Same
  BY <1>2 DEF TypeOK
<1>3. ASSUME NEW s, pc' = [pc EXCEPT ![r] = s]
      PROVE  \A q \in Requests : q # r => pc'[q] = pc[q]
  BY <1>3 DEF TypeOK
<1>4. \E s : pc' = [pc EXCEPT ![r] = s]
  BY AdmissionStep
<1>5. tok' = tok \/ \E t \in sent : tok' = [tok EXCEPT ![r] = t]
  BY AdmissionStep
<1>6. Same
  BY <1>1, <1>2, <1>5
<1> QED BY <1>3, <1>4, <1>6

LEMMA StageNext == ASSUME TypeOK, StageInv, [Next]_vars PROVE StageInv'
<1> USE DEF request, run, store, locks, StageInv
<1>1. ASSUME NEW r \in Requests, Admission(r) PROVE StageInv'
  <2>1. PICK s \in {"open", "wait", "held", "refused", "broken"} :
           pc' = [pc EXCEPT ![r] = s]
    BY <1>1, AdmissionStep
  <2>2. exec[r] = "idle" /\ exec' = exec
    BY <1>1, AdmissionStep
  <2>3. \A q \in Requests : q # r => pc'[q] = pc[q] /\ tok'[q] = tok[q]
    BY <1>1, AdmissionAlone
  <2>4. pc'[r] = s
    BY <2>1 DEF TypeOK
  <2> QED BY <2>2, <2>3, <2>4
<1>2. ASSUME NEW r \in Requests, NEW s \in {"refused", "broken"},
             pc[r] = "held", Abort(r, s), tok' = tok
      PROVE  StageInv'
  BY <1>2 DEF Abort, TypeOK
<1>3. ASSUME NEW r \in Requests, PrepareFails(r) PROVE StageInv'
  BY <1>2, <1>3 DEF PrepareFails
<1>4. ASSUME NEW r \in Requests, StartRun(r) PROVE StageInv'
  <2>1. CASE Start(r)
    BY <1>4, <2>1 DEF StartRun, Start, TypeOK
  <2>2. CASE ~Start(r)
    BY <1>2, <1>4, <2>2 DEF StartRun
  <2> QED BY <2>1, <2>2
<1>5. ASSUME NEW r \in Requests, ToolPhase(r) PROVE StageInv'
  BY <1>5 DEF ToolPhase
<1>6. ASSUME NEW r \in Requests, Execute(r) PROVE StageInv'
  BY <1>6 DEF Execute, FinishComplete, FinishError, Publish, SaveState,
              Finish, MayFinish, TypeOK
<1>7. ASSUME NEW r \in Requests, Settle(r) \/ CloseStream(r) PROVE StageInv'
  BY <1>7 DEF Settle, CloseStream, TypeOK
<1>8. ASSUME NEW r \in Requests, Respond(r) \/ RespondInVain(r) \/ PullTerminal(r)
      PROVE  StageInv'
  BY <1>8, TransportsDisjoint DEF Respond, RespondInVain, PullTerminal, TypeOK
<1>9. ASSUME NEW r \in Requests, Departure(r) PROVE StageInv'
  BY <1>9, DepartureStep DEF DepartureTo, TypeOK
<1>10. ASSUME NEW r \in Requests, ProducerCancelled(r) PROVE StageInv'
  BY <1>10 DEF ProducerCancelled, TypeOK
<1>11. ASSUME Crash PROVE StageInv'
  BY <1>11 DEF Crash, Final, TypeOK
<1>12. CASE UNCHANGED vars
  BY <1>12 DEF vars
<1> QED
  BY <1>1, <1>3, <1>4, <1>5, <1>6, <1>7, <1>8, <1>9, <1>10, <1>11, <1>12
  DEF Next, NextOf, Idle, Serve, Read, Reap, Admission, Departure

LEMMA OutcomeNext ==
    ASSUME TypeOK, StageInv, OutcomeInv, [Next]_vars PROVE OutcomeInv'
<1> USE DEF request, run, store, locks, OutcomeInv, SuccOf
<1>1. ASSUME NEW r \in Requests, Admission(r) PROVE OutcomeInv'
  BY <1>1, AdmissionStep DEF TypeOK
<1>2. ASSUME NEW r \in Requests, PrepareFails(r) PROVE OutcomeInv'
  BY <1>2 DEF PrepareFails, Abort, TypeOK
<1>3. ASSUME NEW r \in Requests, StartRun(r) PROVE OutcomeInv'
  BY <1>3 DEF StartRun, Start, Abort, TypeOK, StageInv
<1>4. ASSUME NEW r \in Requests, ToolPhase(r) PROVE OutcomeInv'
  BY <1>4 DEF ToolPhase
<1>5. ASSUME NEW r \in Requests, Execute(r) PROVE OutcomeInv'
  <2>1. out[r] = None /\ pc[r] # "terminal"
    BY <1>5 DEF Execute, FinishComplete, FinishError, Publish, SaveState,
                MayFinish, StageInv
  <2>2. CASE FinishComplete(r) \/ FinishError(r)
    BY <2>1, <2>2, NoneIsNeither
    DEF FinishComplete, FinishError, Finish, MayFinish, TypeOK
  <2>3. CASE Publish(r)
    BY <2>1, <2>3, NoneIsNeither DEF Publish, Finish, TypeOK
  <2>4. CASE \E t \in Tokens : SaveState(r, t)
    BY <2>1, <2>4, NoneIsNeither DEF SaveState, MayFinish, TypeOK
  <2> QED BY <1>5, <2>2, <2>3, <2>4 DEF Execute
<1>6. ASSUME NEW r \in Requests, Settle(r) \/ CloseStream(r) PROVE OutcomeInv'
  BY <1>6 DEF Settle, CloseStream, TypeOK
<1>7. ASSUME NEW r \in Requests, Respond(r) \/ RespondInVain(r) \/ PullTerminal(r)
      PROVE  OutcomeInv'
  BY <1>7 DEF Respond, RespondInVain, PullTerminal, TypeOK
<1>8. ASSUME NEW r \in Requests, Departure(r) PROVE OutcomeInv'
  <2>1. UNCHANGED <<exec, out, succ, sent>>
    BY <1>8, DepartureStep
  <2>2. \E s \in {"gone", "closing", "dropped", "unlocked", "reaping"} :
           pc' = [pc EXCEPT ![r] = s]
    BY <1>8, DepartureStep DEF DepartureTo
  <2>3. \A q \in Requests : pc'[q] = "terminal" => pc[q] = "terminal"
    BY <2>2 DEF TypeOK
  <2> QED BY <2>1, <2>3
<1>9. ASSUME NEW r \in Requests, ProducerCancelled(r) PROVE OutcomeInv'
  BY <1>9 DEF ProducerCancelled, TypeOK, StageInv
<1>10. ASSUME Crash PROVE OutcomeInv'
  BY <1>10 DEF Crash, Final, TypeOK
<1>11. CASE UNCHANGED vars
  BY <1>11 DEF vars
<1> QED
  BY <1>1, <1>2, <1>3, <1>4, <1>5, <1>6, <1>7, <1>8, <1>9, <1>10, <1>11
  DEF Next, NextOf, Idle, Serve, Read, Reap, Admission, Departure

LEMMA TokenNext ==
    ASSUME TypeOK, StageInv, OutcomeInv, TokenInv, [Next]_vars PROVE TokenInv'
<1> USE DEF request, run, store, locks, TokenInv, Issued
<1>1. ASSUME UNCHANGED <<tok, who, succ, files, owner, sent>> PROVE TokenInv'
  BY <1>1
<1>2. ASSUME NEW r \in Requests, Admission(r) PROVE TokenInv'
  <2>1. UNCHANGED <<who, succ, files, owner, sent>>
    BY <1>2, AdmissionStep
  <2>2. CASE tok' = tok
    BY <2>1, <2>2
  <2>3. CASE \E t \in sent : tok' = [tok EXCEPT ![r] = t]
    BY <2>1, <2>3 DEF TypeOK
  <2> QED BY <1>2, <2>2, <2>3, AdmissionStep
<1>3. ASSUME NEW r \in Requests, NEW t \in Tokens, SaveState(r, t)
      PROVE  TokenInv'
  BY <1>3, NoneIsNeither DEF SaveState, MayFinish, OutcomeInv, TypeOK
<1>4. ASSUME NEW r \in Requests, Settle(r) \/ CloseStream(r) PROVE TokenInv'
  BY <1>4 DEF Settle, CloseStream, FilesAfter
<1>5. ASSUME NEW r \in Requests, Respond(r) \/ RespondInVain(r) \/ PullTerminal(r)
      PROVE  TokenInv'
  BY <1>5 DEF Respond, RespondInVain, PullTerminal, SuccOf, OutcomeInv, TypeOK
<1>6. ASSUME NEW r \in Requests, Departure(r) PROVE TokenInv'
  BY <1>1, <1>6, DepartureStep
<1>7. ASSUME NEW r \in Requests,
             \/ PrepareFails(r) \/ StartRun(r) \/ ToolPhase(r) \/ FinishComplete(r)
             \/ FinishError(r) \/ Publish(r) \/ ProducerCancelled(r)
      PROVE  TokenInv'
  BY <1>1, <1>7 DEF PrepareFails, StartRun, Start, Abort, ToolPhase,
                    FinishComplete, FinishError, Publish, Finish, ProducerCancelled
<1>8. CASE Crash
  BY <1>1, <1>8 DEF Crash
<1>9. CASE UNCHANGED vars
  BY <1>1, <1>9 DEF vars
<1> QED
  BY <1>2, <1>3, <1>4, <1>5, <1>6, <1>7, <1>8, <1>9
  DEF Next, NextOf, Idle, Serve, Execute, Read, Reap, Admission, Departure

LEMMA FreshNext ==
    ASSUME TypeOK, StageInv, OutcomeInv, TokenInv, FreshInv, [Next]_vars
    PROVE  FreshInv'
<1> USE DEF request, run, store, locks, FreshInv
<1>0. ASSUME UNCHANGED <<succ, files, sent>>,
             \A q \in Requests : succ[q] # None /\ Unwritten(q)' => Unwritten(q)
      PROVE  FreshInv'
  BY <1>0
<1>1. ASSUME NEW r \in Requests, Admission(r) PROVE FreshInv'
  BY <1>1, AdmissionStep DEF TypeOK, Unwritten
<1>2. ASSUME NEW r \in Requests, PrepareFails(r) PROVE FreshInv'
  BY <1>2 DEF PrepareFails, Abort, TypeOK, Unwritten
<1>3. ASSUME NEW r \in Requests, StartRun(r) PROVE FreshInv'
  BY <1>3 DEF StartRun, Start, Abort, TypeOK, StageInv, OutcomeInv, Unwritten
<1>4. ASSUME NEW r \in Requests, ToolPhase(r) PROVE FreshInv'
  BY <1>4 DEF ToolPhase, Unwritten
<1>5. ASSUME NEW r \in Requests, FinishComplete(r) \/ FinishError(r) \/ Publish(r)
      PROVE  FreshInv'
  BY <1>5 DEF FinishComplete, FinishError, Publish, Finish, TypeOK, Unwritten
<1>6. ASSUME NEW r \in Requests, NEW t \in Tokens, SaveState(r, t)
      PROVE  FreshInv'
  BY <1>6 DEF SaveState, TypeOK, TokenInv, Unwritten
<1>7. ASSUME NEW r \in Requests, Settle(r) \/ CloseStream(r) PROVE FreshInv'
  <2>1. UNCHANGED <<succ, exec, sent>> /\ files' = FilesAfter(r)
    BY <1>7 DEF Settle, CloseStream
  <2>2. \A q \in Requests : Unwritten(q)' => Unwritten(q)
    BY <1>7 DEF Settle, CloseStream, Unwritten, TypeOK
  <2>3. \A q \in Requests : succ[q] # None /\ succ[q] \notin sent => succ[q] # tok[r]
    BY <1>7 DEF TokenInv
  <2> QED BY <2>1, <2>2, <2>3 DEF FilesAfter
<1>8. ASSUME NEW r \in Requests, Respond(r) \/ RespondInVain(r) \/ PullTerminal(r)
      PROVE  FreshInv'
  <2>1. UNCHANGED <<succ, exec, files>> /\ exec[r] = "over"
    BY <1>8 DEF Respond, RespondInVain, PullTerminal, StageInv
  <2>2. \A q \in Requests : Unwritten(q)' => Unwritten(q)
    BY <1>8 DEF Respond, RespondInVain, PullTerminal, Unwritten, TypeOK
  <2>3. sent' = sent \/ (sent' = sent \cup SuccOf(r) /\ ~Unwritten(r)')
    <3>1. CASE Respond(r)
      BY <2>1, <3>1 DEF Respond, Unwritten, TypeOK
    <3>2. CASE RespondInVain(r)
      BY <3>2 DEF RespondInVain
    <3>3. CASE PullTerminal(r)
      <4>1. r \notin Rest /\ pc'[r] = "terminal" /\ sent' = sent \cup SuccOf(r)
        BY <3>3, TransportsDisjoint DEF PullTerminal, TypeOK
      <4> QED BY <2>1, <4>1 DEF Unwritten
    <3> QED BY <1>8, <3>1, <3>2, <3>3
  <2>4. \A q \in Requests : q # r /\ succ[q] # None => succ[q] \notin SuccOf(r)
    BY DEF SuccOf, TokenInv
  <2> QED BY <2>1, <2>2, <2>3, <2>4
<1>9. ASSUME NEW r \in Requests, Departure(r) PROVE FreshInv'
  <2>1. UNCHANGED <<succ, files, sent, exec>>
    BY <1>9, DepartureStep
  <2>2. PICK s \in {"gone", "closing", "dropped", "unlocked", "reaping"} :
           pc' = [pc EXCEPT ![r] = s]
    BY <1>9, DepartureStep DEF DepartureTo
  <2>3. \A q \in Requests : Unwritten(q)' => Unwritten(q)
    BY <2>1, <2>2 DEF Unwritten, TypeOK
  <2> QED BY <1>0, <2>1, <2>3
<1>10. ASSUME NEW r \in Requests, ProducerCancelled(r) PROVE FreshInv'
  <2>1. UNCHANGED <<succ, files, sent>>
    BY <1>10 DEF ProducerCancelled
  <2>2. \A q \in Requests : Unwritten(q)' => Unwritten(q)
    BY <1>10 DEF ProducerCancelled, Unwritten, TypeOK
  <2> QED BY <1>0, <2>1, <2>2
<1>11. CASE Crash
  <2>1. UNCHANGED <<succ, files, sent>>
    BY <1>11 DEF Crash
  <2>2. ASSUME NEW q \in Requests, succ[q] # None, Unwritten(q)'
        PROVE  Unwritten(q)
    <3>1. exec[q] \notin {"idle", "running"}
      BY <2>2 DEF OutcomeInv
    <3>2. pc[q] \notin {"new", "open", "wait", "held", "refused", "broken",
                         "terminal", "closing", "dropped", "unlocked", "reaping"}
          \/ q \notin Rest
      BY <3>1 DEF StageInv
    <3>3. exec'[q] # "saved" /\ pc'[q] \notin {"stream", "reply"}
      BY <1>11 DEF Crash, Final
    <3>4. pc'[q] = pc[q] \/ (pc'[q] = "lost" /\ pc[q] \notin Final)
      BY <1>11 DEF Crash
    <3> QED BY <2>2, <3>2, <3>3, <3>4 DEF Unwritten, TypeOK, Stages, Final
  <2> QED BY <1>0, <2>1, <2>2
<1>12. CASE UNCHANGED vars
  BY <1>12 DEF vars, Unwritten
<1> QED
  BY <1>1, <1>2, <1>3, <1>4, <1>5, <1>6, <1>7, <1>8, <1>9, <1>10, <1>11, <1>12
  DEF Next, NextOf, Idle, Serve, Execute, Read, Reap, Admission, Departure

\* The lock excludes: what one request holds no other one does.
LEMMA OneHolder ==
    ASSUME LockInv, NEW r \in Requests, NEW q \in Requests,
           Holding(r), Holding(q), tok[r] = tok[q]
    PROVE  r = q
BY DEF LockInv

LEMMA LockNext ==
    ASSUME TypeOK, StageInv, OutcomeInv, TokenInv, LockInv, [Next]_vars
    PROVE  LockInv'
<1> USE DEF request, run, store, locks, Holding, HoldingStages, Admissible
\* r keeps its place, or moves on without the lock.
<1>1. ASSUME NEW r \in Requests, NEW s, pc' = [pc EXCEPT ![r] = s],
             UNCHANGED <<tok, who, owner>>,
             \/ holder' = holder /\ (s \in HoldingStages => pc[r] \in HoldingStages)
             \/ holder' = Release(r) /\ s \notin HoldingStages
                                     /\ pc[r] \in HoldingStages,
             \/ files' = files
             \/ files' = files \ {tok[r]} /\ holder' = Release(r)
                                         /\ pc[r] \in HoldingStages
      PROVE  LockInv'
  <2> HIDE DEF HoldingStages
  <2>1. ASSUME NEW q \in Requests, q # r, Holding(q)
        PROVE  holder'[tok[q]] = q /\ tok[q] \in files' /\ owner[tok[q]] = who[q]
    <3>1. holder[tok[q]] = q /\ tok[q] \in files /\ owner[tok[q]] = who[q]
      BY <2>1 DEF LockInv
    <3>2. CASE holder' = holder /\ files' = files
      BY <3>1, <3>2
    <3>3. CASE tok[r] = None /\ holder' = Release(r)
      BY <1>1, <3>1, <3>3, NoneIsNeither DEF Release, TypeOK
    <3>4. CASE tok[r] # None /\ holder' = Release(r) /\ pc[r] \in HoldingStages
      <4>1. tok[r] # tok[q]
        BY <1>1, <2>1, <3>4, OneHolder
      <4> QED BY <1>1, <3>1, <3>4, <4>1 DEF Release, TypeOK
    <3> QED BY <1>1, <3>2, <3>3, <3>4
  <2>2. ASSUME NEW q \in Requests, q # r, Holding(q)' PROVE Holding(q)
    BY <1>1, <2>2 DEF TypeOK
  <2>3. ASSUME Holding(r)'
        PROVE  holder'[tok[r]] = r /\ tok[r] \in files' /\ owner[tok[r]] = who[r]
    <3>1. pc'[r] = s /\ s \in HoldingStages /\ tok[r] # None
      BY <1>1, <2>3 DEF TypeOK
    <3>2. holder' = holder /\ pc[r] \in HoldingStages
      BY <1>1, <3>1
    <3>3. holder[tok[r]] = r /\ tok[r] \in files /\ owner[tok[r]] = who[r]
      BY <3>1, <3>2 DEF LockInv
    <3>4. files' = files
      BY <1>1, <3>1, <3>2, <3>3, NoneIsNeither DEF Release, TypeOK
    <3> QED BY <3>2, <3>3, <3>4
  <2> QED BY <1>1, <2>1, <2>2, <2>3 DEF LockInv
<1>2. ASSUME NEW r \in Requests, Admission(r) PROVE LockInv'
  <2>1. ASSUME NEW q \in Requests, q # r, Holding(q)'
        PROVE  holder'[tok'[q]] = q /\ tok'[q] \in files' /\ owner'[tok'[q]] = who'[q]
    <3>1. pc'[q] = pc[q] /\ tok'[q] = tok[q]
      BY <1>2, <2>1, AdmissionAlone
    <3>2. holder[tok[q]] = q /\ Admissible(q, tok[q])
      BY <2>1, <3>1 DEF LockInv
    <3>3. UNCHANGED <<who, files, owner>>
      BY <1>2, AdmissionStep
    <3>4. holder'[tok[q]] = holder[tok[q]]
      <4>1. CASE holder' = holder
        BY <4>1
      <4>2. CASE holder[tok'[r]] = None /\ holder' = [holder EXCEPT ![tok'[r]] = r]
        BY <3>2, <4>2, NoneIsNeither DEF TypeOK
      <4> QED BY <1>2, <4>1, <4>2, AdmissionStep
    <3> QED BY <3>1, <3>2, <3>3, <3>4
  <2>2. ASSUME Holding(r)'
        PROVE  holder'[tok'[r]] = r /\ tok'[r] \in files' /\ owner'[tok'[r]] = who'[r]
    <3>1. pc'[r] = "held" /\ tok'[r] # None
      BY <1>2, <2>2, AdmissionStep DEF TypeOK
    <3>2. tok'[r] \in Tokens
      BY <1>2, <3>1, AdmissionStep DEF TypeOK
    <3> QED BY <1>2, <3>1, <3>2, AdmissionStep DEF TypeOK
  <2> QED BY <2>1, <2>2 DEF LockInv
<1>3. ASSUME NEW r \in Requests, PrepareFails(r) PROVE LockInv'
  BY <1>1, <1>3 DEF PrepareFails, Abort
<1>4. ASSUME NEW r \in Requests, StartRun(r) PROVE LockInv'
  BY <1>1, <1>4 DEF StartRun, Start, Abort
<1>5. ASSUME NEW r \in Requests,
             \/ ToolPhase(r) \/ FinishComplete(r) \/ FinishError(r) \/ Publish(r)
      PROVE  LockInv'
  BY <1>5 DEF ToolPhase, FinishComplete, FinishError, Publish, Finish, LockInv
<1>6. ASSUME NEW r \in Requests, NEW t \in Tokens, SaveState(r, t)
      PROVE  LockInv'
  BY <1>6 DEF SaveState, TokenInv, LockInv, TypeOK
<1>7. ASSUME NEW r \in Requests, Settle(r) \/ CloseStream(r) PROVE LockInv'
  BY <1>1, <1>7 DEF Settle, CloseStream, FilesAfter
<1>8. ASSUME NEW r \in Requests, Respond(r) \/ RespondInVain(r) \/ PullTerminal(r)
      PROVE  LockInv'
  BY <1>1, <1>8 DEF Respond, RespondInVain, PullTerminal
<1>9. ASSUME NEW r \in Requests, Departure(r) PROVE LockInv'
  BY <1>1, <1>9, DepartureStep DEF DepartureTo
<1>10. ASSUME NEW r \in Requests, ProducerCancelled(r) PROVE LockInv'
  BY <1>1, <1>10 DEF ProducerCancelled
<1>11. CASE Crash
  BY <1>11 DEF Crash, Final, LockInv, TypeOK
<1>12. CASE UNCHANGED vars
  BY <1>12 DEF vars, LockInv
<1> QED
  BY <1>2, <1>3, <1>4, <1>5, <1>6, <1>7, <1>8, <1>9, <1>10, <1>11, <1>12
  DEF Next, NextOf, Idle, Serve, Execute, Read, Reap, Admission, Departure

LEMMA StartedNext ==
    ASSUME TypeOK, StageInv, TokenInv, StartedInv, [Next]_vars
    PROVE  StartedInv'
<1> USE DEF request, run, store, locks, StartedInv
<1>1. ASSUME NEW r \in Requests, Admission(r) PROVE StartedInv'
  <2>0. pc[r] \in {"new", "open", "wait"} /\ UNCHANGED <<who, exec, owner, effects>>
    BY <1>1, AdmissionStep
  <2>1. exec[r] = "idle"
    BY <2>0 DEF StageInv
  <2>2. \A q \in Requests : q # r => tok'[q] = tok[q]
    BY <1>1, AdmissionAlone
  <2>3. \A q \in Requests : exec[q] # "idle" => tok'[q] = tok[q]
    BY <2>1, <2>2
  <2>4. \A t \in Tokens : effects[t] \subseteq Requests
    BY DEF TypeOK
  <2> QED BY <2>0, <2>3, <2>4
<1>2. ASSUME UNCHANGED <<tok, who, owner, effects>>,
             \A q \in Requests : exec'[q] # "idle" <=> exec[q] # "idle"
      PROVE  StartedInv'
  BY <1>2 DEF TypeOK
<1>3. ASSUME NEW r \in Requests, PrepareFails(r) PROVE StartedInv'
  BY <1>2, <1>3 DEF PrepareFails, Abort
<1>4. ASSUME NEW r \in Requests, StartRun(r) PROVE StartedInv'
  <2>1. CASE Start(r) /\ (tok[r] = None \/ Admissible(r, tok[r]))
    BY <1>4, <2>1 DEF StartRun, Start, Admissible, TypeOK
  <2>2. CASE \E s \in {"refused", "broken"} : Abort(r, s)
    BY <1>2, <1>4, <2>2 DEF StartRun, Abort
  <2> QED BY <1>4, <2>1, <2>2 DEF StartRun
<1>5. ASSUME NEW r \in Requests, ToolPhase(r) PROVE StartedInv'
  BY <1>5 DEF ToolPhase, TypeOK
<1>6. ASSUME NEW r \in Requests, FinishComplete(r) \/ FinishError(r) \/ Publish(r)
      PROVE  StartedInv'
  BY <1>2, <1>6 DEF FinishComplete, FinishError, Publish, Finish, MayFinish, TypeOK
<1>7. ASSUME NEW r \in Requests, NEW t \in Tokens, SaveState(r, t)
      PROVE  StartedInv'
  BY <1>7 DEF SaveState, MayFinish, TokenInv, TypeOK
<1>8. ASSUME NEW r \in Requests,
             \/ Settle(r) \/ CloseStream(r)
             \/ Respond(r) \/ RespondInVain(r) \/ PullTerminal(r)
      PROVE  StartedInv'
  BY <1>2, <1>8 DEF Settle, CloseStream, Respond, RespondInVain, PullTerminal
<1>9. ASSUME NEW r \in Requests, Departure(r) PROVE StartedInv'
  BY <1>2, <1>9, DepartureStep
<1>10. ASSUME NEW r \in Requests, ProducerCancelled(r) PROVE StartedInv'
  BY <1>2, <1>10 DEF ProducerCancelled, StageInv, TypeOK
<1>11. CASE Crash
  BY <1>2, <1>11 DEF Crash, TypeOK
<1>12. CASE UNCHANGED vars
  BY <1>12 DEF vars
<1> QED
  BY <1>1, <1>3, <1>4, <1>5, <1>6, <1>7, <1>8, <1>9, <1>10, <1>11, <1>12
  DEF Next, NextOf, Idle, Serve, Execute, Read, Reap, Admission, Departure

LEMMA DoneNext ==
    ASSUME TypeOK, StageInv, OutcomeInv, TokenInv, LockInv, DoneInv, [Next]_vars
    PROVE  DoneInv'
<1> USE DEF request, run, store, locks
\* Nobody gets done, and no checkpoint that somebody is done with comes back.
<1>1. ASSUME \A q \in Requests : Done(q)' => Done(q) /\ tok'[q] = tok[q],
             \A q \in Requests : Done(q) => tok[q] \notin files'
      PROVE  DoneInv'
  BY <1>1 DEF DoneInv
<1>2. ASSUME NEW r \in Requests, NEW s \in Stages, pc' = [pc EXCEPT ![r] = s],
             s \in {"reply", "answered", "unheard"} => pc[r] = "reply",
             UNCHANGED <<tok, out, files>>
      PROVE  DoneInv'
  BY <1>1, <1>2 DEF Done, DoneInv, TypeOK
<1>3. ASSUME NEW r \in Requests, Admission(r) PROVE DoneInv'
  <2>1. UNCHANGED <<out, files>>
    BY <1>3, AdmissionStep
  <2>2. \A q \in Requests : q # r => pc'[q] = pc[q] /\ tok'[q] = tok[q]
    BY <1>3, AdmissionAlone
  <2>3. pc'[r] \notin {"reply", "answered", "unheard"}
    BY <1>3, AdmissionStep DEF TypeOK
  <2>4. \A q \in Requests : Done(q)' => Done(q) /\ tok'[q] = tok[q]
    BY <2>1, <2>2, <2>3 DEF Done
  <2> QED BY <1>1, <2>1, <2>4 DEF DoneInv
<1>4. ASSUME NEW r \in Requests, PrepareFails(r) PROVE DoneInv'
  BY <1>2, <1>4 DEF PrepareFails, Abort, Stages, Final
<1>5. ASSUME NEW r \in Requests, StartRun(r) PROVE DoneInv'
  BY <1>2, <1>5 DEF StartRun, Start, Abort, Stages, Final
<1>6. ASSUME NEW r \in Requests, ToolPhase(r) PROVE DoneInv'
  BY <1>6 DEF ToolPhase, Done, DoneInv
<1>7. ASSUME NEW r \in Requests, FinishComplete(r) \/ FinishError(r) \/ Publish(r)
      PROVE  DoneInv'
  BY <1>1, <1>7
  DEF FinishComplete, FinishError, Publish, Finish, MayFinish,
      Done, DoneInv, StageInv, TypeOK
<1>8. ASSUME NEW r \in Requests, NEW t \in Tokens, SaveState(r, t)
      PROVE  DoneInv'
  BY <1>1, <1>8 DEF SaveState, Done, DoneInv, TokenInv, TypeOK
<1>9. ASSUME NEW r \in Requests, Settle(r) \/ CloseStream(r) PROVE DoneInv'
  <2>1. /\ pc[r] \in {"stream", "terminal"} /\ UNCHANGED <<tok, out>>
        /\ files' = FilesAfter(r)
        /\ \A q \in Requests : q # r => pc'[q] = pc[q]
    BY <1>9 DEF Settle, CloseStream, TypeOK
  <2>2. tok[r] # None => tok[r] \in files
    BY <2>1 DEF LockInv, Holding, HoldingStages, Admissible
  <2>3. \A q \in Requests : q # r => (Done(q)' <=> Done(q))
    BY <2>1 DEF Done
  <2>4. Done(r)' => tok[r] # None /\ files' = files \ {tok[r]}
    BY <2>1 DEF Done, FilesAfter
  <2>5. files' \subseteq files
    BY <2>1 DEF FilesAfter
  <2> QED BY <2>1, <2>2, <2>3, <2>4, <2>5 DEF DoneInv
<1>10. ASSUME NEW r \in Requests, Respond(r) \/ RespondInVain(r) \/ PullTerminal(r)
      PROVE  DoneInv'
  BY <1>2, <1>10 DEF Respond, RespondInVain, PullTerminal, Stages, Final
<1>11. ASSUME NEW r \in Requests, Departure(r) PROVE DoneInv'
  BY <1>2, <1>11, DepartureStep DEF DepartureTo, Stages, Final
<1>12. ASSUME NEW r \in Requests, ProducerCancelled(r) PROVE DoneInv'
  BY <1>2, <1>12 DEF ProducerCancelled, Stages, Final
<1>13. CASE Crash
  BY <1>1, <1>13 DEF Crash, Final, Done, DoneInv, TypeOK
<1>14. CASE UNCHANGED vars
  BY <1>14 DEF vars, Done, DoneInv
<1> QED
  BY <1>3, <1>4, <1>5, <1>6, <1>7, <1>8, <1>9, <1>10, <1>11, <1>12, <1>13, <1>14
  DEF Next, NextOf, Idle, Serve, Execute, Read, Reap, Admission, Departure

LEMMA SpentNext ==
    ASSUME TypeOK, StageInv, OutcomeInv, TokenInv, LockInv, SpentInv,
           [Next]_vars
    PROVE  SpentInv'
<1> USE DEF request, run, store, locks
<1>1. \A t \in Tokens : Issued(t) /\ t \notin files =>
         \E r \in Requests : Spender(r, t)
  BY DEF SpentInv
\* Nothing is deleted, and those who are past their runs stay where they are.
<1>2. ASSUME \A t \in Tokens : (Issued(t) /\ t \notin files)' => Issued(t) /\ t \notin files,
             \A q \in Requests : \A t \in Tokens : Spender(q, t) => Spender(q, t)'
      PROVE  SpentInv'
  BY <1>1, <1>2 DEF SpentInv
<1>3. ASSUME NEW r \in Requests, NEW s, pc' = [pc EXCEPT ![r] = s],
             pc[r] \notin {"answered", "reply", "unheard", "lost"},
             UNCHANGED <<out, succ, files, owner>>, sent \subseteq sent',
             \A q \in Requests : q # r => tok'[q] = tok[q]
      PROVE  SpentInv'
  BY <1>2, <1>3 DEF Spender, Consumed, SuccOf, Issued, TypeOK
<1>4. ASSUME NEW r \in Requests, Admission(r) PROVE SpentInv'
  BY <1>3, <1>4, AdmissionStep, AdmissionAlone
<1>5. ASSUME NEW r \in Requests, PrepareFails(r) \/ StartRun(r)
      PROVE  SpentInv'
  BY <1>3, <1>5 DEF PrepareFails, StartRun, Start, Abort
<1>6. ASSUME NEW r \in Requests, ToolPhase(r) PROVE SpentInv'
  BY <1>6 DEF ToolPhase, SpentInv, Spender, Consumed, SuccOf, Issued
<1>7. ASSUME NEW r \in Requests, FinishComplete(r) \/ FinishError(r) \/ Publish(r)
      PROVE  SpentInv'
  <2>1. pc[r] \notin {"answered", "reply", "unheard", "lost"} /\ UNCHANGED <<pc, tok, succ, files, owner, sent>>
    BY <1>7 DEF FinishComplete, FinishError, Publish, MayFinish, StageInv
  <2>2. \A q \in Requests : q # r => out'[q] = out[q]
    BY <1>7 DEF FinishComplete, FinishError, Publish, Finish, TypeOK
  <2> QED BY <1>2, <2>1, <2>2 DEF Spender, Consumed, SuccOf, Issued
<1>8. ASSUME NEW r \in Requests, NEW t \in Tokens, SaveState(r, t)
      PROVE  SpentInv'
  <2>1. /\ pc[r] \notin {"answered", "reply", "unheard", "lost"} /\ UNCHANGED <<pc, tok, out, sent>>
        /\ \A q \in Requests : q # r => succ'[q] = succ[q]
    BY <1>8 DEF SaveState, MayFinish, StageInv, TypeOK
  <2>2. \A u \in Tokens : (Issued(u) /\ u \notin files)' => Issued(u) /\ u \notin files
    BY <1>8 DEF SaveState, Issued, TypeOK
  <2> QED BY <1>2, <2>1, <2>2 DEF Spender, Consumed, SuccOf
<1>9. ASSUME NEW r \in Requests, Settle(r) \/ CloseStream(r)
      PROVE  SpentInv'
  <2>1. /\ pc[r] \in {"stream", "terminal"} /\ exec[r] = "over"
        /\ UNCHANGED <<tok, out, succ, owner, sent>> /\ files' = FilesAfter(r)
        /\ \A q \in Requests : q # r => pc'[q] = pc[q]
        /\ (r \in Rest /\ pc'[r] = "reply") \/ (pc[r] = "terminal" /\ pc'[r] = "answered")
    BY <1>9 DEF Settle, CloseStream, TypeOK, StageInv
  <2>2. \A q \in Requests : \A t \in Tokens : Spender(q, t) => Spender(q, t)'
    BY <2>1 DEF Spender, Consumed, SuccOf
  <2>3. out[r] # "error" => Consumed(r)
    BY <2>1 DEF Consumed, OutcomeInv, TypeOK
  <2>4. out[r] # "error" /\ tok[r] # None => Spender(r, tok[r])'
    BY <2>1, <2>3 DEF Spender, Consumed, SuccOf, OutcomeInv
  <2>5. ASSUME NEW t \in Tokens, (Issued(t) /\ t \notin files)'
        PROVE  \E q \in Requests : Spender(q, t)'
    <3>1. CASE t \in files
      BY <2>1, <2>4, <2>5, <3>1, NoneIsNeither DEF FilesAfter
    <3>2. CASE t \notin files
      BY <1>1, <2>1, <2>2, <2>5, <3>2 DEF Issued
    <3> QED BY <3>1, <3>2
  <2> QED BY <2>5 DEF SpentInv
<1>10. ASSUME NEW r \in Requests, Respond(r) \/ RespondInVain(r) PROVE SpentInv'
  <2>1. /\ UNCHANGED <<tok, out, succ, files, owner>> /\ sent \subseteq sent'
        /\ \/ pc'[r] = "answered" /\ SuccOf(r) \subseteq sent'
           \/ pc'[r] = "unheard" /\ r \in Rest
        /\ \A q \in Requests : q # r => pc'[q] = pc[q]
    BY <1>10 DEF Respond, RespondInVain, TypeOK, StageInv
  <2>2. \A q \in Requests : \A t \in Tokens : Spender(q, t) => Spender(q, t)'
    BY <2>1 DEF Spender, Consumed, SuccOf
  <2> QED BY <1>2, <2>1, <2>2 DEF Issued
<1>11. ASSUME NEW r \in Requests, PullTerminal(r) PROVE SpentInv'
  BY <1>3, <1>11 DEF PullTerminal
<1>12. ASSUME NEW r \in Requests, Departure(r) PROVE SpentInv'
  BY <1>3, <1>12, DepartureStep DEF DepartureTo, Leave, LeaveEarly, LeaveQueue,
     CancelAtReceive, Drop, ReapResume, ReapProducer, Departure
<1>13. ASSUME NEW r \in Requests, ProducerCancelled(r) PROVE SpentInv'
  BY <1>3, <1>13 DEF ProducerCancelled
<1>14. CASE Crash
  <2>1. /\ UNCHANGED <<tok, out, succ, files, owner, sent>>
        /\ \A q \in Requests : pc[q] \in {"answered", "unheard", "lost"} => pc'[q] = pc[q]
        /\ \A q \in Requests : pc[q] = "reply" => pc'[q] = "lost"
    BY <1>14 DEF Crash, Final, TypeOK
  <2>2. \A q \in Requests : \A t \in Tokens : Spender(q, t) => Spender(q, t)'
    BY <2>1 DEF Spender, Consumed, SuccOf
  <2> QED BY <1>2, <2>1, <2>2 DEF Issued
<1>15. CASE UNCHANGED vars
  BY <1>15 DEF vars, SpentInv, Spender, Consumed, SuccOf, Issued
<1> QED
  BY <1>4, <1>5, <1>6, <1>7, <1>8, <1>9, <1>10, <1>11, <1>12, <1>13, <1>14, <1>15
  DEF Next, NextOf, Idle, Serve, Execute, Read, Reap, Admission, Departure
-----------------------------------------------------------------------------
(***************************************************************************)
(* The invariant and what follows from it.                                 *)
(***************************************************************************)
LEMMA InvInit == ASSUME Init PROVE IInv
<1>1. /\ files = Saved /\ sent = Saved
      /\ \A t \in Tokens : Issued(t) <=> t \in Saved
  <2>1. PICK o \in [Saved -> Subjects] :
           owner = [t \in Tokens |-> IF t \in Saved THEN o[t] ELSE None]
    BY DEF Init
  <2> QED BY <2>1, NoneIsNeither DEF Init, Issued
<1>2. TypeOK
  BY TypeInit
<1>3. StageInv /\ OutcomeInv
  BY NoneIsNeither DEF Init, StageInv, OutcomeInv, SuccOf
<1>6. FreshInv /\ LockInv
  BY DEF Init, FreshInv, LockInv, Holding
<1>7. StartedInv /\ DoneInv
  BY DEF Init, StartedInv, DoneInv, Done
<1>4. TokenInv
  BY <1>1, SavedTokens DEF Init, TokenInv
<1>5. SpentInv
  BY <1>1 DEF SpentInv
<1> QED BY <1>2, <1>3, <1>4, <1>5, <1>6, <1>7 DEF IInv

LEMMA InvNext == ASSUME IInv, [Next]_vars PROVE IInv'
BY TypeNext, StageNext, OutcomeNext, TokenNext, FreshNext, LockNext,
   StartedNext, DoneNext, SpentNext DEF IInv

\* The inductive invariant holds of every state of the service.
THEOREM Invariant == Spec => []IInv
<1>1. Init => IInv
  BY InvInit
<1>2. IInv /\ [Next]_vars => IInv'
  BY InvNext
<1> QED BY <1>1, <1>2, PTL DEF Spec

\* Every variable keeps to the values it was declared for.
THEOREM TypeCorrect == Spec => []TypeOK
<1>1. IInv => TypeOK
  BY DEF IInv
<1> QED BY <1>1, Invariant, PTL

\* A run that executes a checkpoint, and whose stream nobody has abandoned,
\* holds the checkpoint's lock, however many requests resume it.
THEOREM Exclusion == Spec => []ExecutionExclusive
<1>1. IInv => ExecutionExclusive
  BY DEF IInv, ExecutionExclusive, Abandoned, StageInv, LockInv, Holding, HoldingStages
<1> QED BY <1>1, Invariant, PTL

\* load_run_state finds the checkpoint that run_state_session_id has found.
THEOREM CheckpointStays == Spec => []StillThere
<1>1. IInv => StillThere
  BY DEF IInv, StillThere, LockInv, Holding, HoldingStages
<1> QED BY <1>1, Invariant, PTL

\* Two executions of one checkpoint's tool calls never both reach their callers.
THEOREM NoNeedlessRepeat == Spec => []RepeatOnlyAfterFailure
<1>1. ASSUME IInv, NEW t \in Tokens, NEW r \in effects[t], NEW q \in effects[t],
             ~Unsettled(r), ~Unsettled(q)
      PROVE  r = q
  <2>1. /\ r \in Requests /\ q \in Requests
        /\ tok[r] = t /\ tok[q] = t /\ t # None
        /\ exec[r] # "idle" /\ exec[q] # "idle"
    BY <1>1, NoneIsNeither DEF IInv, TypeOK, StartedInv
  <2>2. ASSUME NEW p \in Requests, tok[p] = t, exec[p] # "idle", ~Unsettled(p)
        PROVE  Done(p) \/ pc[p] \in {"stream", "terminal"}
    BY <1>1, <2>1, <2>2
    DEF IInv, TypeOK, Stages, Final, StageInv, Unsettled, Abandoned, Done
  <2>3. ASSUME NEW p \in Requests, tok[p] = t, pc[p] \in {"stream", "terminal"}
        PROVE  Holding(p) /\ t \in files
    BY <1>1, <2>1, <2>3 DEF IInv, LockInv, Holding, HoldingStages, Admissible
  <2>4. CASE Done(r) /\ Done(q)
    BY <1>1, <2>1, <2>4 DEF IInv, DoneInv
  <2>5. CASE Done(r) /\ ~Done(q)
    BY <1>1, <2>1, <2>2, <2>3, <2>5 DEF IInv, DoneInv
  <2>6. CASE ~Done(r) /\ Done(q)
    BY <1>1, <2>1, <2>2, <2>3, <2>6 DEF IInv, DoneInv
  <2>7. CASE ~Done(r) /\ ~Done(q)
    BY <1>1, <2>1, <2>2, <2>3, <2>7, OneHolder DEF IInv
  <2> QED BY <2>4, <2>5, <2>6, <2>7
<1>2. IInv => RepeatOnlyAfterFailure
  BY <1>1 DEF RepeatOnlyAfterFailure
<1> QED BY <1>2, Invariant, PTL

\* Approved tool calls are executed for the owner, down the chain of checkpoints.
THEOREM Ownership == Spec => []OwnerKeepsChain
<1>1. ASSUME IInv PROVE OwnerKeepsChain
  <2>1. \A t \in Tokens : \A r \in effects[t] : who[r] = owner[t]
    BY <1>1, NoneIsNeither DEF IInv, StartedInv, TypeOK
  <2>2. \A r \in Requests : tok[r] # None /\ succ[r] # None
                              => owner[succ[r]] = owner[tok[r]]
    BY <1>1 DEF IInv, StartedInv, OutcomeInv, TokenInv
  <2> QED BY <2>1, <2>2 DEF OwnerKeepsChain
<1> QED BY <1>1, Invariant, PTL

\* A checkpoint that is gone has its outcome written to a caller, or consumed by
\* a REST request that could not deliver it; a successor of that one is kept.
THEOREM LossesOverRest == Spec => []LostOverRestOnly
<1>1. ASSUME IInv, NEW t \in Tokens, Issued(t), t \notin files
      PROVE  \E r \in Requests :
                /\ tok[r] = t /\ Consumed(r)
                /\ \/ pc[r] = "answered" /\ SuccOf(r) \subseteq sent
                   \/ /\ r \in Rest /\ pc[r] \in {"reply", "unheard", "lost"}
                      /\ SuccOf(r) \subseteq files \ sent
  <2>1. PICK r \in Requests : Spender(r, t)
    BY <1>1 DEF IInv, SpentInv
  <2>2. CASE pc[r] = "answered" /\ SuccOf(r) \subseteq sent
    BY <2>1, <2>2 DEF Spender
  <2>3. CASE r \in Rest /\ pc[r] \in {"reply", "unheard", "lost"}
    <3>1. SuccOf(r) \subseteq files \ sent
      BY <1>1, <2>3 DEF IInv, OutcomeInv, FreshInv, Unwritten, SuccOf
    <3> QED BY <2>1, <2>3, <3>1 DEF Spender
  <2> QED BY <2>1, <2>2, <2>3 DEF Spender
<1>2. IInv => LostOverRestOnly
  BY <1>1 DEF LostOverRestOnly
<1> QED BY <1>2, Invariant, PTL

\* Only Settle and CloseStream delete files.
LEMMA DeletedBy ==
    ASSUME TypeOK, StageInv, Next, NEW t \in files, t \notin files'
    PROVE  \E r \in Requests : /\ Settle(r) \/ CloseStream(r)
                               /\ tok[r] = t /\ out[r] # "error"
<1> USE DEF store, run, request
<1>1. ASSUME NEW r \in Requests, NextOf(r), ~Settle(r), ~CloseStream(r)
      PROVE  files \subseteq files'
  <2>1. CASE Admission(r)
    BY <2>1, AdmissionStep
  <2>2. CASE Departure(r)
    BY <2>2, DepartureStep
  <2>3. CASE \/ PrepareFails(r) \/ StartRun(r) \/ ToolPhase(r) \/ Execute(r)
             \/ Respond(r) \/ RespondInVain(r) \/ PullTerminal(r)
             \/ ProducerCancelled(r)
    BY <2>3 DEF PrepareFails, StartRun, ToolPhase, Respond, RespondInVain,
       PullTerminal, ProducerCancelled, Execute, FinishComplete, FinishError, Publish, SaveState
  <2> QED BY <1>1, <2>1, <2>2, <2>3
          DEF NextOf, Serve, Read, Reap, Admission, Departure
<1>2. ASSUME NEW r \in Requests, Settle(r) \/ CloseStream(r)
      PROVE  tok[r] = t /\ out[r] # "error"
  BY <1>2 DEF Settle, CloseStream, FilesAfter
<1>3. ~Crash /\ ~Idle
  BY DEF Crash, Idle, vars
<1> QED BY <1>1, <1>2, <1>3 DEF Next

\* Checkpoints are deleted under their locks and for an outcome that leaves the
\* caller with an answer or a successor.
THEOREM Retention == Spec => RetainedUntilSettled
<1>1. ASSUME IInv, [Next]_vars, NEW t \in files \ files'
      PROVE  \E r \in Requests : /\ tok[r] = t /\ holder[t] = r /\ Consumed(r)
                                 /\ SuccOf(r) \subseteq files \cup sent
  <2>1. Next
    BY <1>1 DEF vars, store
  <2>2. PICK r \in Requests : /\ Settle(r) \/ CloseStream(r)
                              /\ tok[r] = t /\ out[r] # "error"
    BY <1>1, <2>1, DeletedBy DEF IInv
  <2>3. /\ pc[r] \in {"stream", "terminal"} /\ exec[r] = "over" /\ t # None
        /\ pc[r] = "stream" \/ pc[r] = "terminal"
    BY <1>1, <2>2, NoneIsNeither DEF Settle, CloseStream, IInv, StageInv, TypeOK
  <2>4. holder[t] = r
    BY <1>1, <2>2, <2>3 DEF IInv, LockInv, Holding, HoldingStages
  <2>5. Consumed(r)
    BY <1>1, <2>2, <2>3 DEF Consumed, IInv, OutcomeInv, TypeOK
  <2>6. SuccOf(r) \subseteq files \cup sent
    BY <1>1, <2>3 DEF SuccOf, IInv, OutcomeInv, FreshInv, Unwritten
  <2> QED BY <2>2, <2>4, <2>5, <2>6
<1>2. IInv /\ [Next]_vars =>
         [\A t \in files \ files' : \E r \in Requests :
             /\ tok[r] = t /\ holder[t] = r /\ Consumed(r)
             /\ SuccOf(r) \subseteq files \cup sent]_vars
  BY <1>1
<1> QED BY <1>2, Invariant, PTL DEF Spec, RetainedUntilSettled
-----------------------------------------------------------------------------
(***************************************************************************)
(* RunResume implements CheckpointLedger.                                  *)
(***************************************************************************)
\* The ledger's heirs and finished tokens, before and after a step.
SameLineage ==
    /\ \A t \in Tokens : HeirsOf(t)' = HeirsOf(t)
    /\ FinishedTokens' = FinishedTokens

\* Only outcomes, of the requests that have one, are part of the lineage.
LEMMA LineageKept ==
    ASSUME \A q \in Requests : out'[q] = out[q],
           \A q \in Requests : out[q] \in {"complete", "interrupt"} =>
              tok'[q] = tok[q] /\ succ'[q] = succ[q]
    PROVE  SameLineage
<1>1. ASSUME NEW t \in Tokens PROVE HeirsOf(t)' = HeirsOf(t)
  BY DEF HeirsOf
<1>2. FinishedTokens' = FinishedTokens
  BY DEF FinishedTokens
<1> QED BY <1>1, <1>2 DEF SameLineage

LEMMA LedgerStutter ==
    ASSUME SameLineage, UNCHANGED store PROVE UNCHANGED Ledger!vars
BY DEF SameLineage, store, Ledger!vars

LEMMA LedgerInit == ASSUME Init PROVE Ledger!Init
<1>1. /\ files = Saved /\ owner \in [Tokens -> Subjects \cup {None}]
      /\ \A t \in Tokens : Issued(t) <=> t \in Saved
  <2>1. PICK o \in [Saved -> Subjects] :
           owner = [t \in Tokens |-> IF t \in Saved THEN o[t] ELSE None]
    BY DEF Init
  <2> QED BY <2>1, NoneIsNeither DEF Init, Issued
<1>2. files = {t \in Tokens : Ledger!Issued(t)}
  BY <1>1, SavedTokens DEF Issued, Ledger!Issued
<1>3. \A t \in Tokens : HeirsOf(t) = {}
  BY NoneIsNeither DEF Init, HeirsOf
<1>4. FinishedTokens = {}
  BY NoneIsNeither DEF Init, FinishedTokens
<1> QED BY <1>1, <1>2, <1>3, <1>4 DEF Ledger!Init

LEMMA LedgerStep ==
    ASSUME IInv, [Next]_vars PROVE Ledger!Next \/ UNCHANGED Ledger!vars
<1> USE DEF request, run, store, locks
<1>1. ASSUME UNCHANGED <<tok, out, succ, files, owner>>
      PROVE  UNCHANGED Ledger!vars
  BY <1>1, LineageKept, LedgerStutter
<1>2. ASSUME NEW r \in Requests, Admission(r) PROVE UNCHANGED Ledger!vars
  <2>1. out[r] = None /\ UNCHANGED <<out, succ, files, owner>>
    BY <1>2, AdmissionStep DEF IInv, StageInv, OutcomeInv
  <2>2. \A q \in Requests : q # r => tok'[q] = tok[q]
    BY <1>2, AdmissionStep DEF IInv, TypeOK
  <2> QED BY <2>1, <2>2, NoneIsNeither, LineageKept, LedgerStutter
<1>3. ASSUME NEW r \in Requests, FinishComplete(r) \/ FinishError(r)
      PROVE  Ledger!Next \/ UNCHANGED Ledger!vars
  <2>1. /\ UNCHANGED <<tok, succ, files, owner>> /\ out[r] = None
        /\ out' = [out EXCEPT ![r] = "complete"] \/ out' = [out EXCEPT ![r] = "error"]
    BY <1>3 DEF FinishComplete, FinishError, Finish, MayFinish, IInv, OutcomeInv
  <2>2. \A q \in Requests : out'[q] = "interrupt" <=> out[q] = "interrupt"
    BY <2>1, NoneIsNeither DEF IInv, TypeOK
  <2>3. \A t \in Tokens : HeirsOf(t)' = HeirsOf(t)
    BY <2>1, <2>2 DEF HeirsOf
  <2>4. CASE tok[r] = None \/ out' = [out EXCEPT ![r] = "error"]
    <3>1. FinishedTokens' = FinishedTokens
      BY <2>1, <2>4, NoneIsNeither DEF FinishedTokens, IInv, TypeOK
    <3> QED BY <2>1, <2>3, <3>1, LedgerStutter DEF SameLineage
  <2>5. CASE tok[r] # None /\ out' = [out EXCEPT ![r] = "complete"]
    <3>1. FinishedTokens' = FinishedTokens \cup {tok[r]}
      BY <2>1, <2>5, NoneIsNeither DEF FinishedTokens, IInv, TypeOK
    <3>2. tok[r] \in Tokens /\ Ledger!Issued(tok[r])
      BY <2>5 DEF IInv, TypeOK, TokenInv, Issued, Ledger!Issued
    <3>3. Ledger!Finish(tok[r])
      BY <2>1, <2>3, <3>1, <3>2 DEF Ledger!Finish
    <3> QED BY <3>2, <3>3 DEF Ledger!Next
  <2> QED BY <2>1, <2>4, <2>5
<1>4. ASSUME NEW r \in Requests, NEW t \in Tokens, SaveState(r, t)
      PROVE  Ledger!Next
  <2>1. /\ UNCHANGED <<tok, out>> /\ out[r] = None
        /\ \A q \in Requests : q # r => succ'[q] = succ[q]
    BY <1>4 DEF SaveState, MayFinish, IInv, OutcomeInv, TypeOK
  <2>2. SameLineage
    BY <2>1, NoneIsNeither, LineageKept
  <2>3. Ledger!Issue(t, who[r]) /\ who[r] \in Subjects
    BY <1>4, <2>2 DEF SaveState, Issued, SameLineage, IInv, TypeOK,
                      Ledger!Issue, Ledger!Issued
  <2> QED BY <2>3 DEF Ledger!Next
<1>5. ASSUME NEW r \in Requests, Publish(r)
      PROVE  Ledger!Next \/ UNCHANGED Ledger!vars
  <2>1. /\ UNCHANGED <<tok, succ, files, owner>> /\ out[r] = None
        /\ exec[r] = "saved" /\ succ[r] # None /\ succ[r] \in Tokens
        /\ out' = [out EXCEPT ![r] = "interrupt"] \/ out' = [out EXCEPT ![r] = "error"]
    BY <1>5 DEF Publish, Finish, IInv, OutcomeInv, TypeOK
  <2>2. FinishedTokens' = FinishedTokens
    <3>1. \A q \in Requests : out'[q] = "complete" <=> out[q] = "complete"
      BY <2>1, NoneIsNeither DEF IInv, TypeOK
    <3> QED BY <2>1, <3>1 DEF FinishedTokens
  <2>3. CASE tok[r] = None \/ out' = [out EXCEPT ![r] = "error"]
    <3>1. ASSUME NEW t \in Tokens PROVE HeirsOf(t)' = HeirsOf(t)
      BY <2>1, <2>3, NoneIsNeither DEF HeirsOf, IInv, TypeOK
    <3> QED BY <2>1, <2>2, <3>1, LedgerStutter DEF SameLineage
  <2>4. CASE tok[r] # None /\ out' = [out EXCEPT ![r] = "interrupt"]
    <3>1. ASSUME NEW t \in Tokens
          PROVE  HeirsOf(t)' = IF t = tok[r] THEN HeirsOf(t) \cup {succ[r]}
                                             ELSE HeirsOf(t)
      BY <2>1, <2>4 DEF HeirsOf, IInv, TypeOK
    <3>2. succ[r] \in files /\ succ[r] \notin sent
      BY <2>1 DEF IInv, FreshInv, Unwritten
    <3>3. \A q \in Requests : tok[q] # succ[r]
      BY <2>1, <3>2 DEF IInv, TokenInv
    <3>4. HeirsOf(succ[r]) = {} /\ succ[r] \notin FinishedTokens
      BY <3>3 DEF HeirsOf, FinishedTokens
    <3>5. \A p \in Tokens : succ[r] \notin HeirsOf(p)
      BY <2>1, NoneIsNeither DEF HeirsOf, IInv, TokenInv
    <3>6. /\ tok[r] \in Tokens /\ Ledger!Issued(tok[r]) /\ succ[r] # tok[r]
          /\ owner[succ[r]] = owner[tok[r]]
      BY <3>3, <2>1, <2>4 DEF IInv, TypeOK, TokenInv, StartedInv, Issued, Ledger!Issued
    <3>7. Ledger!Succeed(tok[r], succ[r])
      BY <2>1, <2>2, <3>1, <3>2, <3>4, <3>5, <3>6 DEF Ledger!Succeed
    <3> QED BY <2>1, <3>6, <3>7 DEF Ledger!Next
  <2> QED BY <2>1, <2>3, <2>4
<1>6. ASSUME NEW r \in Requests, Settle(r) \/ CloseStream(r)
      PROVE  Ledger!Next \/ UNCHANGED Ledger!vars
  <2>1. /\ pc[r] \in {"stream", "terminal"} /\ exec[r] = "over"
        /\ UNCHANGED <<tok, out, succ, owner>> /\ files' = FilesAfter(r)
    BY <1>6 DEF Settle, CloseStream, IInv, StageInv
  <2>2. SameLineage
    BY <2>1, LineageKept
  <2>3. CASE files' = files
    BY <2>1, <2>2, <2>3, LedgerStutter
  <2>4. CASE files' # files
    <3>1. out[r] # "error" /\ tok[r] \in files /\ files' = files \ {tok[r]}
      BY <2>1, <2>4 DEF FilesAfter
    <3>2. tok[r] \in Tokens /\ tok[r] # None
      BY <3>1, NoneIsNeither DEF IInv, TypeOK
    <3>3. tok[r] \in FinishedTokens \/ HeirsOf(tok[r]) # {}
      <4>1. out[r] = "complete" \/ out[r] = "interrupt"
        BY <2>1, <3>1 DEF IInv, OutcomeInv, TypeOK
      <4>2. CASE out[r] = "complete"
        BY <3>2, <4>2 DEF FinishedTokens
      <4>3. CASE out[r] = "interrupt"
        <5>1. succ[r] \in HeirsOf(tok[r])
          BY <4>3 DEF HeirsOf
        <5> QED BY <5>1
      <4> QED BY <4>1, <4>2, <4>3
    <3>4. Ledger!Spend(tok[r])
      BY <2>1, <2>2, <3>1, <3>2, <3>3 DEF Ledger!Spend, SameLineage
    <3> QED BY <3>2, <3>4 DEF Ledger!Next
  <2> QED BY <2>3, <2>4
<1>7. ASSUME NEW r \in Requests, Departure(r) PROVE UNCHANGED Ledger!vars
  BY <1>1, <1>7, DepartureStep
<1>8. ASSUME NEW r \in Requests,
             \/ PrepareFails(r) \/ StartRun(r) \/ ToolPhase(r) \/ Respond(r)
             \/ RespondInVain(r)
             \/ PullTerminal(r) \/ ProducerCancelled(r)
      PROVE  UNCHANGED Ledger!vars
  BY <1>1, <1>8 DEF PrepareFails, StartRun, Start, Abort, ToolPhase, Respond,
                    RespondInVain,
                    PullTerminal, ProducerCancelled
<1>9. CASE Crash
  BY <1>1, <1>9 DEF Crash
<1>10. CASE UNCHANGED vars
  BY <1>1, <1>10 DEF vars
<1> QED
  BY <1>2, <1>3, <1>4, <1>5, <1>6, <1>7, <1>8, <1>9, <1>10
  DEF Next, NextOf, Idle, Serve, Execute, Read, Reap, Admission, Departure

\* Whatever the service does with checkpoints, the ledger allows.
THEOREM Implementation == Spec => ImplementsLedger
<1>1. Init => Ledger!Init
  BY LedgerInit
<1>2. IInv /\ [Next]_vars => [Ledger!Next]_(Ledger!vars)
  BY LedgerStep
<1> QED BY <1>1, <1>2, Invariant, PTL DEF Spec, ImplementsLedger, Ledger!Spec
-----------------------------------------------------------------------------
(***************************************************************************)
(* What the ledger gives to its implementation.                            *)
(***************************************************************************)
Chains == INSTANCE CheckpointLedgerProofs WITH
    live     <- files,
    heirs    <- [t \in Tokens |-> HeirsOf(t)],
    finished <- FinishedTokens

LEMMA ServiceIsLedger == Spec => Chains!Spec
  BY Implementation, PTL
  DEF ImplementsLedger, Ledger!Spec, Ledger!Init, Ledger!Next, Ledger!vars,
      Ledger!Issued, Ledger!Issue, Ledger!Succeed, Ledger!Finish, Ledger!Spend,
      Chains!Spec, Chains!Init, Chains!Next, Chains!vars,
      Chains!Issued, Chains!Issue, Chains!Succeed, Chains!Finish, Chains!Spend

\* No interrupted conversation is lost: from a checkpoint that was deleted
\* without a final answer, its successors lead to one that can be resumed, or to
\* an answer, over any number of resumptions, racing requests and restarts.
THEOREM NoConversationLost == Spec => []Chains!NoneStranded
<1>1. None \notin Subjects
  BY NoneIsNeither
<1> QED BY <1>1, ServiceIsLedger, Chains!LeadsOut, PTL

\* Conversations do not merge: a checkpoint succeeds one other at most, and all of
\* a conversation's have one owner.  (They may branch: a crash between the answer
\* and the deletion lets a checkpoint be resumed again.)
THEOREM ConversationsStayApart == Spec => []Chains!OnePredecessor
<1>1. None \notin Subjects
  BY NoneIsNeither
<1> QED BY <1>1, ServiceIsLedger, Chains!SinglePredecessor, PTL

\* A deleted checkpoint is not written again, by whoever still held its token.
THEOREM DeletedForGood == Spec => Chains!SpentForGood
<1>1. None \notin Subjects
  BY NoneIsNeither
<1> QED BY <1>1, ServiceIsLedger, Chains!NoRevival, PTL
-----------------------------------------------------------------------------
(***************************************************************************)
(* Who waits for a lock is not forgotten: the safety part of               *)
(* EveryRequestEnds.                                                       *)
(***************************************************************************)
\* A request waits in the queue of its token, once, and nobody else is there.
QueueInv ==
    /\ \A t \in Tokens : \A i \in DOMAIN waiters[t] :
          pc[waiters[t][i]] = "wait" /\ tok[waiters[t][i]] = t
    /\ \A t \in Tokens : \A i, j \in DOMAIN waiters[t] :
          waiters[t][i] = waiters[t][j] => i = j
    /\ \A r \in Requests : pc[r] = "wait" =>
          /\ tok[r] \in Tokens
          /\ \E i \in DOMAIN waiters[tok[r]] : waiters[tok[r]][i] = r

\* A lock is held by a request that is about to give it back.
HolderInv ==
    \A t \in Tokens : holder[t] # None => Holding(holder[t]) /\ tok[holder[t]] = t

LEMMA RemovedFacts ==
    ASSUME NEW S, NEW s \in Seq(S), NEW i \in DOMAIN s
    PROVE  /\ Len(RemoveAt(s, i)) = Len(s) - 1
           /\ \A j \in 1..(Len(s) - 1) :
                 RemoveAt(s, i)[j] = IF j < i THEN s[j] ELSE s[j + 1]
<1>1. i \in 1..Len(s) /\ Len(s) \in Nat
  OBVIOUS
<1> DEFINE a == SubSeq(s, 1, i - 1)
           b == SubSeq(s, i + 1, Len(s))
<1>2. /\ a \in Seq(S) /\ Len(a) = i - 1
      /\ \A j \in 1..(i - 1) : a[j] = s[j]
  BY <1>1
<1>3. /\ b \in Seq(S) /\ Len(b) = Len(s) - i
      /\ \A j \in 1..(Len(s) - i) : b[j] = s[j + i]
  BY <1>1
<1> HIDE DEF a, b
<1>4. /\ Len(a \o b) = Len(s) - 1
      /\ \A j \in 1..(Len(s) - 1) :
            (a \o b)[j] = IF j < i THEN a[j] ELSE b[j - (i - 1)]
  <2>1. /\ Len(a \o b) = Len(a) + Len(b)
        /\ \A j \in 1..(Len(a) + Len(b)) :
              (a \o b)[j] = IF j <= Len(a) THEN a[j] ELSE b[j - Len(a)]
    BY <1>2, <1>3
  <2>2. Len(a) + Len(b) = Len(s) - 1 /\ \A j \in Int : j <= Len(a) <=> j < i
    BY <1>1, <1>2, <1>3
  <2> QED BY <1>2, <2>1, <2>2
<1>5. ASSUME NEW j \in 1..(Len(s) - 1)
      PROVE  (a \o b)[j] = IF j < i THEN s[j] ELSE s[j + 1]
  <2>1. CASE j < i
    <3>1. j \in 1..(i - 1)
      BY <1>1, <2>1
    <3> QED BY <1>2, <1>4, <2>1, <3>1
  <2>2. CASE ~(j < i)
    <3>1. j - (i - 1) \in 1..(Len(s) - i) /\ (j - (i - 1)) + i = j + 1
      BY <1>1, <2>2
    <3> QED BY <1>3, <1>4, <2>2, <3>1
  <2> QED BY <2>1, <2>2
<1> QED BY <1>4, <1>5 DEF RemoveAt, a, b

\* Nobody comes or leaves.
LEMMA QueueKept ==
    ASSUME QueueInv, UNCHANGED waiters,
           \A q \in Requests : pc'[q] = "wait" <=> pc[q] = "wait",
           \A q \in Requests : pc[q] = "wait" => tok'[q] = tok[q],
           TypeOK
    PROVE  QueueInv'
<1>1. ASSUME NEW t \in Tokens, NEW i \in DOMAIN waiters[t]
      PROVE  waiters[t][i] \in Requests
  BY DEF TypeOK
<1> QED BY <1>1 DEF QueueInv

\* r comes.
LEMMA QueueGrows ==
    ASSUME TypeOK, QueueInv, NEW r \in Requests, NEW t \in Tokens,
           pc[r] # "wait", pc' = [pc EXCEPT ![r] = "wait"], tok'[r] = t,
           \A q \in Requests : q # r => tok'[q] = tok[q],
           waiters' = [waiters EXCEPT ![t] = Append(@, r)]
    PROVE  QueueInv'
<1> DEFINE w == waiters[t]
           n == Len(w)
<1>1. /\ w \in Seq(Requests) /\ n \in Nat /\ DOMAIN w = 1..n
      /\ waiters'[t] = Append(w, r)
      /\ \A p \in Tokens : p # t => waiters'[p] = waiters[p]
      /\ \A p \in Tokens : waiters[p] \in Seq(Requests)
  BY DEF TypeOK
<1>2. /\ DOMAIN waiters'[t] = 1..(n + 1)
      /\ \A i \in 1..n : waiters'[t][i] = w[i]
      /\ waiters'[t][n + 1] = r
  <2> HIDE DEF w
  <2>1. /\ DOMAIN Append(w, r) = 1..(Len(w) + 1)
        /\ \A i \in 1..Len(w) : Append(w, r)[i] = w[i]
        /\ Append(w, r)[Len(w) + 1] = r
    BY <1>1
  <2> QED BY <1>1, <2>1
<1>3. pc'[r] = "wait" /\ \A q \in Requests : q # r => pc'[q] = pc[q]
  BY DEF TypeOK
<1>4. \A i \in 1..n : w[i] \in Requests /\ w[i] # r /\ pc[w[i]] = "wait" /\ tok[w[i]] = t
  BY <1>1 DEF QueueInv
<1>5. \A i \in DOMAIN waiters'[t] :
         (i \in 1..n /\ waiters'[t][i] = w[i]) \/ (i = n + 1 /\ waiters'[t][i] = r)
  <2> HIDE DEF w, n
  <2>1. n \in Nat
    BY <1>1
  <2>2. \A i \in 1..(n + 1) : i \in 1..n \/ i = n + 1
    BY <2>1
  <2> QED BY <1>2, <2>2
<1> HIDE DEF w, n
<1>6. ASSUME NEW p \in Tokens, NEW i \in DOMAIN waiters'[p]
      PROVE  pc'[waiters'[p][i]] = "wait" /\ tok'[waiters'[p][i]] = p
  <2>1. CASE p = t
    BY <1>3, <1>4, <1>5, <1>6, <2>1
  <2>2. CASE p # t
    <3>1. i \in DOMAIN waiters[p] /\ waiters'[p][i] = waiters[p][i]
      BY <1>1, <1>6, <2>2
    <3>2. waiters[p][i] \in Requests
      BY <1>1, <3>1
    <3>3. pc[waiters[p][i]] = "wait" /\ tok[waiters[p][i]] = p
      BY <3>1 DEF QueueInv
    <3> QED BY <1>3, <3>1, <3>2, <3>3
  <2> QED BY <2>1, <2>2
<1>7. ASSUME NEW p \in Tokens, NEW i \in DOMAIN waiters'[p], NEW j \in DOMAIN waiters'[p],
             waiters'[p][i] = waiters'[p][j]
      PROVE  i = j
  <2>1. CASE p = t
    <3>1. \A a, b \in 1..n : w[a] = w[b] => a = b
      BY <1>1 DEF QueueInv, w
    <3> QED BY <1>4, <1>5, <1>7, <2>1, <3>1
  <2>2. CASE p # t
    BY <1>1, <1>7, <2>2 DEF QueueInv
  <2> QED BY <2>1, <2>2
<1>8. ASSUME NEW q \in Requests, pc'[q] = "wait"
      PROVE  /\ tok'[q] \in Tokens
             /\ \E i \in DOMAIN waiters'[tok'[q]] : waiters'[tok'[q]][i] = q
  <2>1. CASE q = r
    <3>1. n + 1 \in DOMAIN waiters'[t] /\ waiters'[t][n + 1] = r
      BY <1>1, <1>2 DEF n
    <3> QED BY <2>1, <3>1
  <2>2. CASE q # r
    <3>1. pc[q] = "wait" /\ tok'[q] = tok[q]
      BY <1>3, <1>8, <2>2
    <3>2. PICK i \in DOMAIN waiters[tok[q]] : waiters[tok[q]][i] = q
      BY <3>1 DEF QueueInv
    <3>3. tok[q] \in Tokens
      BY <3>1 DEF QueueInv
    <3>4. i \in DOMAIN waiters'[tok[q]] /\ waiters'[tok[q]][i] = q
      <4>1. CASE tok[q] = t
        <5>1. i \in 1..n
          BY <1>1, <3>2, <4>1 DEF w
        <5>2. i \in 1..(n + 1)
          BY <1>1, <5>1 DEF n
        <5> QED BY <1>2, <3>2, <4>1, <5>1, <5>2 DEF w
      <4>2. CASE tok[q] # t
        BY <1>1, <3>2, <3>3, <4>2
      <4> QED BY <4>1, <4>2
    <3> QED BY <3>1, <3>3, <3>4
  <2> QED BY <2>1, <2>2
<1> QED BY <1>6, <1>7, <1>8 DEF QueueInv

\* r leaves its place i; u is what remains.
\* r, the i-th in t's queue, leaves it, which becomes u.
QueueLeft(r, t, i, u) ==
    /\ tok[r] = t /\ tok' = tok
    /\ \E s : s # "wait" /\ pc' = [pc EXCEPT ![r] = s]
    /\ i \in DOMAIN waiters[t] /\ waiters[t][i] = r
    /\ u \in Seq(Requests) /\ waiters' = [waiters EXCEPT ![t] = u]
    /\ Len(u) = Len(waiters[t]) - 1
    /\ \A j \in 1..(Len(waiters[t]) - 1) :
          u[j] = IF j < i THEN waiters[t][j] ELSE waiters[t][j + 1]

LEMMA QueueShrinks ==
    ASSUME TypeOK, QueueInv, NEW r \in Requests, NEW t \in Tokens,
           NEW i, NEW u, QueueLeft(r, t, i, u)
    PROVE  QueueInv'
<1>0. /\ tok[r] = t /\ tok' = tok
      /\ i \in DOMAIN waiters[t] /\ waiters[t][i] = r
      /\ u \in Seq(Requests) /\ waiters' = [waiters EXCEPT ![t] = u]
      /\ Len(u) = Len(waiters[t]) - 1
      /\ \A j \in 1..(Len(waiters[t]) - 1) :
            u[j] = IF j < i THEN waiters[t][j] ELSE waiters[t][j + 1]
  BY DEF QueueLeft
<1> PICK s : s # "wait" /\ pc' = [pc EXCEPT ![r] = s]
  BY DEF QueueLeft
<1> USE <1>0
<1> DEFINE w == waiters[t]
           n == Len(w)
           Old(j) == IF j < i THEN j ELSE j + 1
<1>1. /\ w \in Seq(Requests) /\ n \in Nat /\ DOMAIN w = 1..n /\ i \in 1..n
      /\ waiters'[t] = u /\ DOMAIN u = 1..(n - 1)
      /\ \A p \in Tokens : p # t => waiters'[p] = waiters[p]
      /\ \A p \in Tokens : waiters[p] \in Seq(Requests)
  BY DEF TypeOK
<1>2. \A j \in 1..(n - 1) : Old(j) \in 1..n /\ Old(j) # i /\ u[j] = w[Old(j)]
  BY <1>1
<1>3. pc'[r] = s /\ \A q \in Requests : q # r => pc'[q] = pc[q]
  BY DEF TypeOK
<1>4. /\ \A j \in 1..n : w[j] \in Requests /\ pc[w[j]] = "wait" /\ tok[w[j]] = t
      /\ \A j, k \in 1..n : w[j] = w[k] => j = k
      /\ w[i] = r
  BY <1>1 DEF QueueInv
<1> HIDE DEF w, n
<1>5. ASSUME NEW p \in Tokens, NEW j \in DOMAIN waiters'[p]
      PROVE  pc'[waiters'[p][j]] = "wait" /\ tok'[waiters'[p][j]] = p
  <2>1. CASE p = t
    <3>1. j \in 1..(n - 1) /\ waiters'[p][j] = w[Old(j)] /\ Old(j) \in 1..n /\ Old(j) # i
      BY <1>1, <1>2, <1>5, <2>1
    <3> HIDE DEF Old
    <3>2. w[Old(j)] # r
      BY <1>1, <1>4, <3>1
    <3> QED BY <1>3, <1>4, <2>1, <3>1, <3>2
  <2>2. CASE p # t
    <3>1. j \in DOMAIN waiters[p] /\ waiters'[p][j] = waiters[p][j]
      BY <1>1, <1>5, <2>2
    <3>2. waiters[p][j] \in Requests
      BY <1>1, <3>1
    <3>3. pc[waiters[p][j]] = "wait" /\ tok[waiters[p][j]] = p
      BY <3>1 DEF QueueInv
    <3>4. waiters[p][j] # r
      BY <2>2, <3>3
    <3> QED BY <1>3, <3>1, <3>2, <3>3, <3>4
  <2> QED BY <2>1, <2>2
<1>6. ASSUME NEW p \in Tokens, NEW j \in DOMAIN waiters'[p], NEW k \in DOMAIN waiters'[p],
             waiters'[p][j] = waiters'[p][k]
      PROVE  j = k
  <2>1. CASE p = t
    <3>1. j \in 1..(n - 1) /\ k \in 1..(n - 1) /\ w[Old(j)] = w[Old(k)]
          /\ Old(j) \in 1..n /\ Old(k) \in 1..n
      BY <1>1, <1>2, <1>6, <2>1
    <3>2. Old(j) = Old(k)
      <4> HIDE DEF Old
      <4> QED BY <1>4, <3>1
    <3> QED BY <1>1, <3>1, <3>2
  <2>2. CASE p # t
    BY <1>1, <1>6, <2>2 DEF QueueInv
  <2> QED BY <2>1, <2>2
<1>7. ASSUME NEW q \in Requests, pc'[q] = "wait"
      PROVE  /\ tok'[q] \in Tokens
             /\ \E j \in DOMAIN waiters'[tok'[q]] : waiters'[tok'[q]][j] = q
  <2>1. q # r /\ pc[q] = "wait"
    BY <1>3, <1>7
  <2>2. PICK k \in DOMAIN waiters[tok[q]] : waiters[tok[q]][k] = q
    BY <2>1 DEF QueueInv
  <2>3. tok[q] \in Tokens
    BY <2>1 DEF QueueInv
  <2>4. CASE tok[q] = t
    <3>1. k \in 1..n /\ w[k] = q /\ k # i
      BY <1>1, <1>4, <2>1, <2>2, <2>4 DEF w
    <3>2. PICK j \in 1..(n - 1) : Old(j) = k
      <4>1. CASE k < i
        <5>1. k \in 1..(n - 1) /\ Old(k) = k
          BY <1>1, <3>1, <4>1
        <5> QED BY <5>1
      <4>2. CASE ~(k < i)
        <5>1. k - 1 \in 1..(n - 1) /\ Old(k - 1) = k
          BY <1>1, <3>1, <4>2
        <5> QED BY <5>1
      <4> QED BY <4>1, <4>2
    <3>3. waiters'[t][j] = q /\ j \in DOMAIN waiters'[t]
      <4> HIDE DEF Old
      <4> QED BY <1>1, <1>2, <3>1, <3>2
    <3> QED BY <2>3, <2>4, <3>3
  <2>5. CASE tok[q] # t
    BY <1>1, <2>2, <2>3, <2>5
  <2> QED BY <2>4, <2>5
<1> QED BY <1>5, <1>6, <1>7 DEF QueueInv

LEMMA QueueAdmission ==
    ASSUME TypeOK, StageInv, TokenInv, QueueInv, NEW r \in Requests, Admission(r)
    PROVE  QueueInv'
<1> USE DEF request, run, store, locks
<1>1. ASSUME NEW s, s # "wait", pc' = [pc EXCEPT ![r] = s], pc[r] # "wait",
             \A q \in Requests : q # r => tok'[q] = tok[q], UNCHANGED waiters
      PROVE  QueueInv'
  <2>1. \A q \in Requests : pc'[q] = "wait" <=> pc[q] = "wait"
    BY <1>1 DEF TypeOK
  <2>2. \A q \in Requests : pc[q] = "wait" => tok'[q] = tok[q]
    BY <1>1
  <2> QED BY <1>1, <2>1, <2>2, QueueKept
<1>2. \A q \in Requests : q # r => tok'[q] = tok[q]
  BY AdmissionAlone
<1>3. ASSUME NEW t \in Tokens, LockOrWait(r, t), tok'[r] = t, pc[r] # "wait"
      PROVE  QueueInv'
  <2>1. CASE holder[t] = None /\ waiters[t] = << >>
    <3>1. UNCHANGED waiters /\ \E s \in {"held", "refused", "broken"} :
              pc' = [pc EXCEPT ![r] = s]
      BY <1>3, <2>1 DEF LockOrWait, Enter
    <3> QED BY <1>1, <1>2, <1>3, <3>1
  <2>2. CASE ~(holder[t] = None /\ waiters[t] = << >>)
    BY <1>2, <1>3, <2>2, QueueGrows DEF LockOrWait, Enqueue
  <2> QED BY <2>1, <2>2
<1>4. CASE RunRequest(r) \/ RefuseDuplicates(r)
  <2>1. pc[r] = "new" /\ UNCHANGED waiters /\ \E s \in {"held", "open", "refused"} :
            pc' = [pc EXCEPT ![r] = s]
    BY <1>4 DEF RunRequest, RefuseDuplicates
  <2> QED BY <1>1, <1>2, <2>1
<1>5. ASSUME NEW t \in Tokens, ResumeRequest(r, t) PROVE QueueInv'
  <2>1. pc[r] = "new" /\ tok'[r] = t
    BY <1>5 DEF ResumeRequest, TypeOK
  <2>2. CASE r \in Rest
    BY <1>3, <1>5, <2>1, <2>2 DEF ResumeRequest
  <2>3. CASE r \notin Rest
    <3>1. UNCHANGED waiters /\ \E s \in {"open", "refused"} : pc' = [pc EXCEPT ![r] = s]
      BY <1>5, <2>3 DEF ResumeRequest, AdmitSse
    <3> QED BY <1>1, <1>2, <2>1, <3>1
  <2> QED BY <2>2, <2>3
<1>6. CASE OpenStream(r)
  <2>1. pc[r] = "open" /\ tok' = tok
    BY <1>6 DEF OpenStream
  <2>2. CASE tok[r] = None
    BY <1>1, <1>2, <1>6, <2>1, <2>2 DEF OpenStream
  <2>3. CASE tok[r] # None
    BY <1>3, <1>6, <2>1, <2>3 DEF OpenStream, TypeOK
  <2> QED BY <2>2, <2>3
<1>7. CASE Acquire(r)
  <2> DEFINE t == tok[r]
             w == waiters[t]
  <2>1. /\ pc[r] = "wait" /\ tok' = tok /\ w # << >> /\ Head(w) = r
        /\ waiters' = [waiters EXCEPT ![t] = Tail(@)]
    BY <1>7 DEF Acquire, Enter
  <2> PICK s \in {"held", "refused", "broken"} : pc' = [pc EXCEPT ![r] = s]
    BY <1>7 DEF Acquire, Enter
  <2>2. t \in Tokens
    BY <2>1 DEF QueueInv
  <2>3. w \in Seq(Requests)
    BY <2>2 DEF TypeOK
  <2>4. /\ 1 \in DOMAIN w /\ w[1] = r /\ Tail(w) \in Seq(Requests)
        /\ Len(Tail(w)) = Len(w) - 1
        /\ \A j \in 1..(Len(w) - 1) : Tail(w)[j] = IF j < 1 THEN w[j] ELSE w[j + 1]
    BY <2>1, <2>3
  <2>5. waiters' = [waiters EXCEPT ![t] = Tail(w)] /\ s # "wait"
    BY <2>1
  <2>6. QueueLeft(r, t, 1, Tail(w))
    BY <2>1, <2>4, <2>5 DEF QueueLeft
  <2> QED BY <2>2, <2>6, QueueShrinks
<1> QED BY <1>4, <1>5, <1>6, <1>7 DEF Admission, Arrive

LEMMA QueueDeparture ==
    ASSUME TypeOK, QueueInv, NEW r \in Requests, Departure(r)
    PROVE  QueueInv'
<1> USE DEF request, run, store, locks
<1>1. CASE LeaveQueue(r)
  <2> DEFINE t == tok[r]
             w == waiters[t]
  <2>1. pc[r] = "wait" /\ tok' = tok /\ pc' = [pc EXCEPT ![r] = "gone"]
    BY <1>1 DEF LeaveQueue
  <2>2. PICK i \in DOMAIN w :
            w[i] = r /\ waiters' = [waiters EXCEPT ![t] = RemoveAt(@, i)]
    BY <1>1 DEF LeaveQueue
  <2>3. t \in Tokens
    BY <2>1 DEF QueueInv
  <2>4. w \in Seq(Requests)
    BY <2>3 DEF TypeOK
  <2>5. /\ RemoveAt(w, i) \in Seq(Requests) /\ Len(RemoveAt(w, i)) = Len(w) - 1
        /\ \A j \in 1..(Len(w) - 1) :
              RemoveAt(w, i)[j] = IF j < i THEN w[j] ELSE w[j + 1]
    BY <2>4, RemoveAtType, RemovedFacts
  <2>6. waiters' = [waiters EXCEPT ![t] = RemoveAt(w, i)]
    BY <2>2
  <2>7. QueueLeft(r, t, i, RemoveAt(w, i))
    BY <2>1, <2>2, <2>5, <2>6 DEF QueueLeft
  <2> QED BY <2>3, <2>7, QueueShrinks
<1>2. CASE ~LeaveQueue(r)
  <2>1. /\ tok' = tok /\ UNCHANGED waiters /\ pc[r] # "wait"
        /\ \E s : s # "wait" /\ pc' = [pc EXCEPT ![r] = s]
    BY <1>2 DEF Departure, Leave, LeaveEarly, CancelAtReceive, Drop, ReapResume,
                ReapProducer
  <2>2. \A q \in Requests : pc'[q] = "wait" <=> pc[q] = "wait"
    BY <2>1 DEF TypeOK
  <2> QED BY <2>1, <2>2, QueueKept
<1> QED BY <1>1, <1>2

LEMMA QueueNext ==
    ASSUME TypeOK, StageInv, TokenInv, QueueInv, [Next]_vars
    PROVE  QueueInv'
<1> USE DEF request, run, store, locks
<1>1. ASSUME NEW r \in Requests, NEW s, s # "wait", pc[r] # "wait",
             pc' = [pc EXCEPT ![r] = s], UNCHANGED <<tok, waiters>>
      PROVE  QueueInv'
  <2>1. \A q \in Requests : pc'[q] = "wait" <=> pc[q] = "wait"
    BY <1>1 DEF TypeOK
  <2> QED BY <1>1, <2>1, QueueKept
<1>2. ASSUME UNCHANGED <<pc, tok, waiters>> PROVE QueueInv'
  BY <1>2, QueueKept
<1>3. ASSUME NEW r \in Requests, PrepareFails(r) \/ StartRun(r) PROVE QueueInv'
  BY <1>1, <1>3 DEF PrepareFails, StartRun, Start, Abort
<1>4. ASSUME NEW r \in Requests, Execute(r) \/ ToolPhase(r) PROVE QueueInv'
  BY <1>2, <1>4 DEF Execute, FinishComplete, FinishError, Publish, SaveState, ToolPhase
<1>5. ASSUME NEW r \in Requests,
             \/ Settle(r) \/ Respond(r) \/ RespondInVain(r)
             \/ Read(r) \/ ProducerCancelled(r)
      PROVE  QueueInv'
  BY <1>1, <1>5 DEF Settle, Respond, RespondInVain, Read, PullTerminal, CloseStream, ProducerCancelled
<1>6. CASE Crash
  <2>1. \A q \in Requests : pc'[q] # "wait"
    BY <1>6 DEF Crash, TypeOK, Final
  <2> QED BY <1>6, <2>1 DEF Crash, QueueInv
<1>7. CASE UNCHANGED vars
  BY <1>2, <1>7 DEF vars
<1> QED
  BY <1>3, <1>4, <1>5, <1>6, <1>7, QueueAdmission, QueueDeparture
  DEF Next, NextOf, Idle, Serve, Reap, Admission, Departure

LEMMA HolderNext ==
    ASSUME TypeOK, StageInv, HolderInv, [Next]_vars
    PROVE  HolderInv'
<1> USE DEF request, run, store, locks
\* r moves on, keeps the lock or gives it back.
<1>1. ASSUME NEW r \in Requests, NEW s, pc' = [pc EXCEPT ![r] = s], tok' = tok,
             \/ holder' = holder /\ (Holding(r) => s \in HoldingStages)
             \/ holder' = Release(r)
      PROVE  HolderInv'
  <2> SUFFICES ASSUME NEW t \in Tokens, holder'[t] # None
               PROVE  pc'[holder'[t]] \in HoldingStages /\ tok'[holder'[t]] = t
    BY NoneIsNeither DEF HolderInv, Holding
  <2>1. holder'[t] = holder[t] /\ (holder' = holder \/ tok[r] # t)
    BY <1>1 DEF Release, TypeOK
  <2>2. Holding(holder[t]) /\ tok[holder[t]] = t /\ holder[t] \in Requests
    BY <2>1 DEF HolderInv, TypeOK
  <2>3. CASE holder[t] = r
    BY <1>1, <2>1, <2>2, <2>3 DEF Holding, Release, TypeOK
  <2>4. CASE holder[t] # r
    BY <1>1, <2>1, <2>2, <2>4 DEF Holding, TypeOK
  <2> QED BY <2>3, <2>4
<1>2. ASSUME UNCHANGED <<pc, tok, holder>> PROVE HolderInv'
  BY <1>2 DEF HolderInv, Holding
<1>3. ASSUME NEW r \in Requests, Admission(r) PROVE HolderInv'
  <2> SUFFICES ASSUME NEW t \in Tokens, holder'[t] # None
               PROVE  pc'[holder'[t]] \in HoldingStages /\ tok'[holder'[t]] = t
    BY NoneIsNeither DEF HolderInv, Holding
  <2>1. CASE holder'[t] = holder[t]
    <3>1. Holding(holder[t]) /\ tok[holder[t]] = t /\ holder[t] \in Requests
      BY <2>1 DEF HolderInv, TypeOK
    <3>2. holder[t] # r
      BY <1>3, <3>1, AdmissionStep DEF Holding, HoldingStages
    <3>3. pc'[holder[t]] = pc[holder[t]] /\ tok'[holder[t]] = tok[holder[t]]
      BY <1>3, <3>1, <3>2, AdmissionAlone
    <3> QED BY <2>1, <3>1, <3>3 DEF Holding
  <2>2. CASE holder'[t] # holder[t]
    <3>1. /\ pc'[r] = "held" /\ tok'[r] # None
          /\ holder' = [holder EXCEPT ![tok'[r]] = r]
      BY <1>3, <2>2, AdmissionStep
    <3>2. tok'[r] = t /\ holder'[t] = r
      BY <2>2, <3>1 DEF TypeOK
    <3> QED BY <3>1, <3>2 DEF Holding, HoldingStages
  <2> QED BY <2>1, <2>2
<1>4. ASSUME NEW r \in Requests, PrepareFails(r) \/ StartRun(r) PROVE HolderInv'
  BY <1>1, <1>4 DEF PrepareFails, StartRun, Start, Abort, HoldingStages
<1>5. ASSUME NEW r \in Requests, Execute(r) \/ ToolPhase(r) PROVE HolderInv'
  BY <1>2, <1>5 DEF Execute, FinishComplete, FinishError, Publish, SaveState, ToolPhase
<1>6. ASSUME NEW r \in Requests, Settle(r) \/ CloseStream(r) PROVE HolderInv'
  BY <1>1, <1>6 DEF Settle, CloseStream
<1>7. ASSUME NEW r \in Requests, Respond(r) \/ RespondInVain(r) \/ PullTerminal(r)
      PROVE  HolderInv'
  BY <1>1, <1>7 DEF Respond, RespondInVain, PullTerminal, Holding, HoldingStages
<1>8. ASSUME NEW r \in Requests, Departure(r) PROVE HolderInv'
  <2>1. tok' = tok /\ \E s \in {"gone", "closing", "dropped", "unlocked", "reaping"} :
            DepartureTo(r, s)
    BY <1>8, DepartureStep
  <2>2. PICK s \in {"gone", "closing", "dropped", "unlocked", "reaping"} :
            DepartureTo(r, s)
    BY <2>1
  <2>3. CASE holder' = Release(r)
    BY <1>1, <2>1, <2>2, <2>3 DEF DepartureTo
  <2>4. CASE holder' = holder /\ (s \in {"gone", "unlocked"} => ~Holding(r))
    <3>1. Holding(r) => s \in HoldingStages
      <4>1. CASE s = "reaping"
        <5>1. pc[r] = "unlocked"
          BY <1>8, <2>2, <4>1 DEF Departure, Leave, LeaveEarly, LeaveQueue,
                 CancelAtReceive, Drop, ReapResume, ReapProducer, DepartureTo, TypeOK
        <5> QED BY <5>1 DEF Holding, HoldingStages
      <4> QED BY <2>4, <4>1 DEF HoldingStages
    <3> QED BY <1>1, <2>1, <2>2, <2>4, <3>1 DEF DepartureTo
  <2> QED BY <2>2, <2>3, <2>4 DEF DepartureTo
<1>9. ASSUME NEW r \in Requests, ProducerCancelled(r) PROVE HolderInv'
  BY <1>1, <1>9 DEF ProducerCancelled, Holding, HoldingStages
<1>10. CASE Crash
  BY <1>10 DEF Crash, HolderInv
<1>11. CASE UNCHANGED vars
  BY <1>2, <1>11 DEF vars
<1> QED
  BY <1>3, <1>4, <1>5, <1>6, <1>7, <1>8, <1>9, <1>10, <1>11
  DEF Next, NextOf, Idle, Serve, Read, Reap, Admission, Departure

\* What r waits for in lock_run_state is under way: another request has the lock
\* and is at a stage whose every way out gives it back, or the lock is free and
\* the first in the queue is a request that waits, to whom it falls.
Awaited(r) ==
    LET t == tok[r]
    IN  IF holder[t] # None
        THEN holder[t] # r /\ Holding(holder[t]) /\ tok[holder[t]] = t
        ELSE /\ waiters[t] # << >>
             /\ pc[Head(waiters[t])] = "wait" /\ tok[Head(waiters[t])] = t

\* However callers come, leave and fail, nobody waits for a lock in vain.
NobodyForgotten == \A r \in Requests : pc[r] = "wait" => Awaited(r)

\* Callers that leave the queue, streams abandoned at any point and restarts
\* never strand the requests that wait for a checkpoint's lock.
THEOREM NoWaiterForgotten == Spec => []NobodyForgotten
<1>1. Init => QueueInv /\ HolderInv
  BY DEF Init, QueueInv, HolderInv
<1>2. IInv /\ QueueInv /\ HolderInv /\ [Next]_vars => (QueueInv /\ HolderInv)'
  BY QueueNext, HolderNext DEF IInv
<1>3. IInv /\ QueueInv /\ HolderInv => NobodyForgotten
  <2> SUFFICES ASSUME IInv, QueueInv, HolderInv, NEW r \in Requests, pc[r] = "wait"
               PROVE  Awaited(r)
    BY DEF NobodyForgotten
  <2> DEFINE t == tok[r]
             w == waiters[t]
  <2>1. t \in Tokens /\ \E i \in DOMAIN w : w[i] = r
    BY DEF QueueInv
  <2>2. w \in Seq(Requests) /\ holder[t] \in Requests \cup {None}
    BY <2>1 DEF IInv, TypeOK
  <2>3. holder[t] # None => Holding(holder[t]) /\ tok[holder[t]] = t
    BY <2>1 DEF HolderInv
  <2>4. 1 \in DOMAIN w /\ w # << >> /\ Head(w) = w[1]
    BY <2>1, <2>2
  <2>5. pc[w[1]] = "wait" /\ tok[w[1]] = t
    BY <2>1, <2>4 DEF QueueInv
  <2> QED BY <2>3, <2>4, <2>5 DEF Awaited, Holding, HoldingStages
<1> QED BY <1>1, <1>2, <1>3, Invariant, PTL DEF Spec
=============================================================================
