----------------------------- MODULE RunResume -----------------------------
(***************************************************************************)
(* Runs, human approval checkpoints and their resumption.                  *)
(*                                                                         *)
(* A run of the agent that needs an approval stops, saves a checkpoint     *)
(* (data_dir/run_states/<token>.json) and hands the token to the caller.   *)
(* A later request resumes the checkpoint under a per-token asyncio.Lock   *)
(* and deletes it once the resumed run has reached an outcome.  Requests   *)
(* arrive over REST (CompleteFormatter) or over SSE (EventsFormatter),     *)
(* where the outcome is produced by a background task and pulled by the    *)
(* response generator, which its client may abandon.                       *)
(*                                                                         *)
(* One event loop runs everything, so that an action is what the code does *)
(* between two suspension points.  Where such a stretch writes two files   *)
(* it is split, for Crash to fall in between, and LoopFree keeps all other *)
(* actions out.                                                            *)
(***************************************************************************)
EXTENDS Naturals, Sequences, SequencesExt

CONSTANTS
    Rest,       \* requests to /runs and /runs/resume
    Sse,        \* requests to /runs/stream and /runs/stream/resume
    Tokens,     \* resume tokens (uuid4: never issued twice)
    Saved,      \* the tokens whose checkpoints an earlier process left
    Subjects,   \* callers, IdentityContext.subject_id
    None

Requests == Rest \cup Sse

ASSUME TransportsDisjoint == Rest \cap Sse = {}
ASSUME SavedTokens == Saved \subseteq Tokens
ASSUME NoneIsNeither ==
    /\ None \notin Requests /\ None \notin Tokens /\ None \notin Subjects
    /\ None \notin {"complete", "interrupt", "error"}

VARIABLES
    pc,         \* where each request is, see the stages below
    tok,        \* the token a request resumes, None for a new run
    who,        \* its subject
    dec,        \* what its decisions name: "known" IDs only, or an "unknown" one
    exec,       \* its agent run: "idle", "running", "saved", "over", "cancelled"
    out,        \* its outcome: "complete", "interrupt", "error"
    succ,       \* the token of the checkpoint its run has saved
    files,      \* the tokens with a checkpoint on disk
    owner,      \* owner_subject_id of every token issued so far
    sent,       \* the tokens the service has written to a caller
    holder,     \* who holds lock_run_state(token)
    waiters,    \* who queues for it, in order of arrival
    effects     \* history: the requests whose runs took up executing the
                \* tool calls that the token's checkpoint had pending

request == <<tok, who, dec>>
run     == <<exec, out, succ>>
store   == <<files, owner>>
locks   == <<holder, waiters>>
vars    == <<pc, request, run, store, sent, locks, effects>>
-----------------------------------------------------------------------------
(***************************************************************************)
(* The stages of a request.                                                *)
(*   new        not received                                               *)
(*   open       SSE: accepted, the generator not started yet               *)
(*   wait       suspended in lock_run_state                                *)
(*   held       in factory.create or load_run_state (resume: lock held)    *)
(*   stream     its agent run goes on; an SSE caller is being served       *)
(*   terminal   SSE: suspended where the terminal event was yielded        *)
(*   reply      REST: finished, the response not written yet               *)
(*   closing    SSE: cancelled in receive(), awaiting its producer         *)
(*   dropped    SSE: abandoned at a yield, no generator finalized yet      *)
(*   unlocked   SSE: resume() finalized, _stream_prepared() not yet        *)
(*   reaping    SSE: _stream_prepared() finalizing, awaiting its producer  *)
(* and the last ones:                                                      *)
(*   answered   the outcome was written to the caller's connection         *)
(*   unheard    REST: the outcome is reached, and not written to anybody   *)
(*   refused    4xx, or the turn_error event the adapter makes itself      *)
(*   broken     500, or a stream that ends without a terminal event        *)
(*   gone       the caller left                                            *)
(*   lost       the process died                                           *)
(***************************************************************************)
Final  == {"answered", "unheard", "refused", "broken", "gone", "lost"}
Stages == {"new", "open", "wait", "held", "stream", "terminal", "reply",
           "closing", "dropped", "unlocked", "reaping"} \cup Final

Issued(t) == owner[t] # None

\* The code holds the lock from __aenter__ to __aexit__ of lock_run_state.
HoldingStages == {"held", "stream", "terminal", "closing", "dropped"}
Holding(r) == tok[r] # None /\ pc[r] \in HoldingStages

\* r is past a file operation that its loop step follows up with another.
MidStep(r) ==
    \/ exec[r] = "saved"
    \/ r \in Rest /\ pc[r] = "stream" /\ exec[r] = "over"
LoopFree == \A r \in Requests : ~MidStep(r)

Release(r) == IF tok[r] = None THEN holder
              ELSE [holder EXCEPT ![tok[r]] = None]

Init ==
    /\ pc = [r \in Requests |-> "new"]
    /\ tok = [r \in Requests |-> None]
    /\ who \in [Requests -> Subjects]
    /\ dec = [r \in Requests |-> "known"]
    /\ exec = [r \in Requests |-> "idle"]
    /\ out = [r \in Requests |-> None]
    /\ succ = [r \in Requests |-> None]
    /\ files = Saved
    /\ \E o \in [Saved -> Subjects] :
          owner = [t \in Tokens |-> IF t \in Saved THEN o[t] ELSE None]
    /\ sent = Saved
    /\ holder = [t \in Tokens |-> None]
    /\ waiters = [t \in Tokens |-> << >>]
    /\ effects = [t \in Tokens |-> {}]
-----------------------------------------------------------------------------
(***************************************************************************)
(* Arrival.                                                                *)
(***************************************************************************)
\* run_agent, stream_agent: a new run needs no token and no lock.
RunRequest(r) ==
    /\ LoopFree
    /\ pc[r] = "new"
    /\ pc' = [pc EXCEPT ![r] = IF r \in Rest THEN "held" ELSE "open"]
    /\ UNCHANGED <<request, run, store, sent, locks, effects>>

\* Mutated: whoever has the token may resume.
AdmissibleToAll(r, t) == t \in files

\* run_state_session_id raises for an unknown token and for another owner.
Admissible(r, t) == t \in files /\ owner[t] = who[r]

\* "async with lock_run_state(token)" and the ownership check under it, for a
\* request that finds the lock free, or that it has just been passed on to.
\* REST maps the exceptions to 404 and 403; inside an SSE stream nobody does.
Enter(r, t) ==
    IF Admissible(r, t)
    THEN /\ holder' = [holder EXCEPT ![t] = r]
         /\ pc' = [pc EXCEPT ![r] = "held"]
    ELSE /\ holder' = holder
         /\ pc' = [pc EXCEPT ![r] = IF r \in Rest THEN "refused" ELSE "broken"]

Enqueue(r, t) ==
    /\ waiters' = [waiters EXCEPT ![t] = Append(@, r)]
    /\ pc' = [pc EXCEPT ![r] = "wait"]
    /\ UNCHANGED holder

\* Mutated: no lock is taken into account.
EnterAnyway(r, t) == Enter(r, t) /\ UNCHANGED waiters

\* asyncio.Lock never lets a newcomer pass those who wait.
LockOrWait(r, t) ==
    IF holder[t] = None /\ waiters[t] = << >>
    THEN Enter(r, t) /\ UNCHANGED waiters
    ELSE Enqueue(r, t)

\* resume_agent and resume_stream: the IDs of the decisions must differ.
RefuseDuplicates(r) ==
    /\ LoopFree
    /\ pc[r] = "new"
    /\ pc' = [pc EXCEPT ![r] = "refused"]
    /\ UNCHANGED <<request, run, store, sent, locks, effects>>

\* resume_stream checks the ownership without the lock; its generator starts
\* later.  resume_agent goes straight for the lock.
AdmitSse(r, t) ==
    /\ pc' = [pc EXCEPT ![r] = IF Admissible(r, t) THEN "open" ELSE "refused"]
    /\ UNCHANGED locks

ResumeRequest(r, t) ==
    /\ LoopFree
    /\ pc[r] = "new" /\ t \in sent
    /\ \E d \in {"known", "unknown"} : dec' = [dec EXCEPT ![r] = d]
    /\ tok' = [tok EXCEPT ![r] = t]
    /\ IF r \in Rest THEN LockOrWait(r, t) ELSE AdmitSse(r, t)
    /\ UNCHANGED <<who, run, store, sent, effects>>

\* The server starts to iterate events(): stream() and resume() get going.
OpenStream(r) ==
    /\ LoopFree
    /\ pc[r] = "open"
    /\ IF tok[r] = None
       THEN pc' = [pc EXCEPT ![r] = "held"] /\ UNCHANGED locks
       ELSE LockOrWait(r, tok[r])
    /\ UNCHANGED <<request, run, store, sent, effects>>

\* The lock is free and its first waiter runs.
Acquire(r) ==
    /\ LoopFree
    /\ pc[r] = "wait"
    /\ LET t == tok[r]
       IN /\ holder[t] = None
          /\ waiters[t] # << >> /\ Head(waiters[t]) = r
          /\ waiters' = [waiters EXCEPT ![t] = Tail(@)]
          /\ Enter(r, t)
    /\ UNCHANGED <<request, run, store, sent, effects>>
-----------------------------------------------------------------------------
(***************************************************************************)
(* Preparing and executing the run.                                        *)
(***************************************************************************)
\* Mutated: the lock is not released by a "finally".
AbortLeaking(r, s) ==
    /\ pc' = [pc EXCEPT ![r] = s]
    /\ UNCHANGED <<locks, run>>

\* r leaves without an agent run, for stage s, and its lock is released.
Abort(r, s) ==
    /\ pc' = [pc EXCEPT ![r] = s]
    /\ holder' = Release(r)
    /\ UNCHANGED <<waiters, run>>

\* factory.create or RunState.from_json raises.  A resumption is then refused
\* (resume_agent maps three kinds of exceptions to 4xx, resume_stream makes a
\* turn_error of a ValueError) or breaks off, as a new run always does.
PrepareFails(r) ==
    /\ LoopFree
    /\ pc[r] = "held"
    /\ \E s \in (IF tok[r] = None THEN {"broken"} ELSE {"refused", "broken"}) :
          Abort(r, s)
    /\ UNCHANGED <<request, store, sent, effects>>

Start(r) ==
    /\ pc' = [pc EXCEPT ![r] = "stream"]
    /\ exec' = [exec EXCEPT ![r] = "running"]
    /\ UNCHANGED <<out, succ, locks>>

\* load_run_state, which looks for the file once more, apply_decisions and the
\* call of _execute (REST) or of the producer task (SSE).  SSE answers the
\* ValueError of apply_decisions with a turn_error event of the adapter's own.
StartRun(r) ==
    /\ LoopFree
    /\ pc[r] = "held"
    /\ IF tok[r] = None THEN Start(r)
       ELSE IF ~Admissible(r, tok[r])
            THEN Abort(r, IF r \in Rest THEN "refused" ELSE "broken")
       ELSE IF dec[r] = "unknown" THEN Abort(r, "refused")
       ELSE Start(r)
    /\ UNCHANGED <<request, store, sent, effects>>

\* The resumed run takes up the tool calls that its checkpoint had pending.
\* The runner's own task does, until the cancellation has reached it.
ToolPhase(r) ==
    /\ LoopFree
    /\ exec[r] = "running" /\ tok[r] # None
    /\ r \notin effects[tok[r]]
    /\ effects' = [effects EXCEPT ![tok[r]] = @ \cup {r}]
    /\ UNCHANGED <<pc, request, run, store, sent, locks>>

\* A cancelled producer gets CancelledError next, never an outcome.
MayFinish(r) == exec[r] = "running" /\ pc[r] \notin {"closing", "reaping"}

Finish(r, o) ==
    /\ exec' = [exec EXCEPT ![r] = "over"]
    /\ out' = [out EXCEPT ![r] = o]

\* The run returns with a final output.
FinishComplete(r) ==
    /\ LoopFree
    /\ MayFinish(r)
    /\ Finish(r, "complete")
    /\ UNCHANGED <<pc, request, succ, store, sent, locks, effects>>

\* The run raises: a tool, the model, MaxTurnsExceeded, the deadline.
FinishError(r) ==
    /\ LoopFree
    /\ MayFinish(r)
    /\ Finish(r, "error")
    /\ UNCHANGED <<pc, request, succ, store, sent, locks, effects>>

\* The run returns with interruptions: save_run_state under a fresh token.
\* os.replace makes the checkpoint appear as a whole.
SaveState(r, t) ==
    /\ LoopFree
    /\ MayFinish(r)
    /\ ~Issued(t)
    /\ exec' = [exec EXCEPT ![r] = "saved"]
    /\ succ' = [succ EXCEPT ![r] = t]
    /\ files' = files \cup {t}
    /\ owner' = [owner EXCEPT ![t] = who[r]]
    /\ UNCHANGED <<pc, request, out, sent, locks, effects>>

\* map_approvals evaluates the policies' metadata and may raise: then the
\* outcome is an error, and the checkpoint just saved has no reader.
Publish(r) ==
    /\ exec[r] = "saved"
    /\ \E o \in {"interrupt", "error"} : Finish(r, o)
    /\ UNCHANGED <<pc, request, succ, store, sent, locks, effects>>
-----------------------------------------------------------------------------
(***************************************************************************)
(* The outcome's way to the caller.                                        *)
(***************************************************************************)
\* Mutated: the checkpoint of a failed turn goes as well.
FilesAfterAny(r) == files \ {tok[r]}

\* Mutated: only an interrupt counts as an outcome.
FilesAfterInterrupt(r) ==
    IF out[r] = "interrupt" THEN files \ {tok[r]} ELSE files

\* delete_run_state, which a turn that failed does not reach.
FilesAfter(r) == IF out[r] = "error" THEN files ELSE files \ {tok[r]}

\* CompleteFormatter.resume: the checkpoint goes, unless the turn failed, and
\* the lock is released; the handler has returned, nothing is written yet.
Settle(r) ==
    /\ r \in Rest /\ pc[r] = "stream" /\ exec[r] = "over"
    /\ files' = FilesAfter(r)
    /\ holder' = Release(r)
    /\ pc' = [pc EXCEPT ![r] = "reply"]
    /\ UNCHANGED <<request, run, owner, sent, waiters, effects>>

\* Mutated: the token goes out with every outcome.
SuccOfAny(r) == {succ[r]}

\* TurnInterrupt carries the token, the other outcomes have none.
SuccOf(r) == IF out[r] = "interrupt" THEN {succ[r]} ELSE {}

\* complete_response and the response's encoding, outside of the handler's try.
Respond(r) ==
    /\ LoopFree
    /\ pc[r] = "reply"
    /\ pc' = [pc EXCEPT ![r] = "answered"]
    /\ sent' = sent \cup SuccOf(r)
    /\ UNCHANGED <<request, run, store, locks, effects>>

\* They raise, which makes it a 500, or the caller timed out or left at any time
\* before, which a REST handler does not notice.
RespondInVain(r) ==
    /\ LoopFree
    /\ pc[r] = "reply"
    /\ pc' = [pc EXCEPT ![r] = "unheard"]
    /\ UNCHANGED <<request, run, store, sent, locks, effects>>

\* The generator yields the terminal event, and send() has it.
PullTerminal(r) ==
    /\ LoopFree
    /\ r \in Sse /\ pc[r] = "stream" /\ exec[r] = "over"
    /\ pc' = [pc EXCEPT ![r] = "terminal"]
    /\ sent' = sent \cup SuccOf(r)
    /\ UNCHANGED <<request, run, store, locks, effects>>

\* send() has returned: the next pull finds the queue closed, the checkpoint
\* goes if "completed" was set, and the lock is released.
CloseStream(r) ==
    /\ LoopFree
    /\ pc[r] = "terminal"
    /\ files' = FilesAfter(r)
    /\ holder' = Release(r)
    /\ pc' = [pc EXCEPT ![r] = "answered"]
    /\ UNCHANGED <<request, run, owner, sent, waiters, effects>>
-----------------------------------------------------------------------------
(***************************************************************************)
(* SSE callers that leave.  A REST handler runs on without its caller and  *)
(* ends in RespondInVain.                                                  *)
(***************************************************************************)
\* Cancelled before the generator starts, or while it prepares the run.
LeaveEarly(r) ==
    /\ LoopFree
    /\ r \in Sse /\ pc[r] \in {"open", "held"}
    /\ pc' = [pc EXCEPT ![r] = "gone"]
    /\ holder' = IF pc[r] = "held" THEN Release(r) ELSE holder
    /\ UNCHANGED <<request, run, store, sent, waiters, effects>>

\* Cancelled in the queue for the lock.
LeaveQueue(r) ==
    /\ LoopFree
    /\ r \in Sse /\ pc[r] = "wait"
    /\ \E i \in DOMAIN waiters[tok[r]] :
          /\ waiters[tok[r]][i] = r
          /\ waiters' = [waiters EXCEPT ![tok[r]] = RemoveAt(@, i)]
    /\ pc' = [pc EXCEPT ![r] = "gone"]
    /\ UNCHANGED <<request, run, store, sent, holder, effects>>

\* Cancelled in sink.receive(), which waits only while the run goes on: the
\* generators unwind in order, producer first, and the lock stays held.
CancelAtReceive(r) ==
    /\ LoopFree
    /\ r \in Sse /\ pc[r] = "stream" /\ exec[r] = "running"
    /\ pc' = [pc EXCEPT ![r] = "closing"]
    /\ UNCHANGED <<request, run, store, sent, locks, effects>>

\* Cancelled in send(), under back-pressure, or an event cannot be encoded: the
\* generators stay suspended at their yields until the garbage collector's hook
\* schedules their aclose().
Drop(r) ==
    /\ LoopFree
    /\ r \in Sse /\ pc[r] \in {"stream", "terminal"}
    /\ pc' = [pc EXCEPT ![r] = "dropped"]
    /\ UNCHANGED <<request, run, store, sent, locks, effects>>

\* GeneratorExit in resume(): the lock is released, the checkpoint stays, and
\* the inner generator's aclose() is only scheduled.
ReapResume(r) ==
    /\ LoopFree
    /\ pc[r] = "dropped"
    /\ pc' = [pc EXCEPT ![r] = "unlocked"]
    /\ holder' = Release(r)
    /\ UNCHANGED <<request, run, store, sent, waiters, effects>>

\* GeneratorExit in _stream_prepared(): a producer that is not done is cancelled.
ReapProducer(r) ==
    /\ LoopFree
    /\ pc[r] = "unlocked"
    /\ pc' = [pc EXCEPT ![r] = IF exec[r] = "running" THEN "reaping" ELSE "gone"]
    /\ UNCHANGED <<request, run, store, sent, locks, effects>>

\* CancelledError in _produce(): the run is cancelled and the generators end.
ProducerCancelled(r) ==
    /\ LoopFree
    /\ pc[r] \in {"closing", "reaping"}
    /\ exec' = [exec EXCEPT ![r] = "cancelled"]
    /\ holder' = IF pc[r] = "closing" THEN Release(r) ELSE holder
    /\ pc' = [pc EXCEPT ![r] = "gone"]
    /\ UNCHANGED <<request, out, succ, store, sent, waiters, effects>>
-----------------------------------------------------------------------------
\* The process dies, between any two steps, and starts again: what is on disk
\* stays, SessionManager starts without locks.
Crash ==
    /\ \E r \in Requests : pc[r] \notin Final \cup {"new"}
    /\ pc' = [r \in Requests |->
                IF pc[r] \in Final \cup {"new"} THEN pc[r] ELSE "lost"]
    /\ exec' = [r \in Requests |->
                IF exec[r] \in {"running", "saved"} THEN "cancelled" ELSE exec[r]]
    /\ holder' = [t \in Tokens |-> None]
    /\ waiters' = [t \in Tokens |-> << >>]
    /\ UNCHANGED <<request, out, succ, store, sent, effects>>

\* Every request of this instance has come and gone.
Idle ==
    /\ \A r \in Requests : pc[r] \in Final
    /\ UNCHANGED vars

Arrive(r) ==
    \/ RunRequest(r) \/ RefuseDuplicates(r)
    \/ \E t \in Tokens : ResumeRequest(r, t)

Serve(r) ==
    \/ OpenStream(r) \/ Acquire(r)
    \/ PrepareFails(r) \/ StartRun(r)
    \/ Settle(r) \/ Respond(r) \/ RespondInVain(r)

Execute(r) ==
    \/ FinishComplete(r) \/ FinishError(r) \/ Publish(r)
    \/ \E t \in Tokens : SaveState(r, t)

Read(r) == PullTerminal(r) \/ CloseStream(r)

Leave(r) == LeaveEarly(r) \/ LeaveQueue(r) \/ CancelAtReceive(r) \/ Drop(r)

Reap(r) == ReapResume(r) \/ ReapProducer(r) \/ ProducerCancelled(r)

NextOf(r) ==
    \/ Arrive(r) \/ Serve(r) \/ Execute(r) \/ ToolPhase(r)
    \/ Read(r) \/ Leave(r) \/ Reap(r)

Next ==
    \/ \E r \in Requests : NextOf(r)
    \/ Crash
    \/ Idle

Spec == Init /\ [][Next]_vars

(***************************************************************************)
(* The event loop runs what is ready, runs end (max_turns, deadline hook), *)
(* a caller that stays reads, abandoned generators are finalized.  Nothing *)
(* makes callers arrive, leave or the process die.                         *)
(***************************************************************************)
Fairness == \A r \in Requests :
    /\ WF_vars(Serve(r)) /\ WF_vars(Execute(r))
    /\ WF_vars(Read(r)) /\ WF_vars(Reap(r))

FairSpec == Spec /\ Fairness
-----------------------------------------------------------------------------
TypeOK ==
    /\ pc \in [Requests -> Stages]
    /\ tok \in [Requests -> Tokens \cup {None}]
    /\ who \in [Requests -> Subjects]
    /\ dec \in [Requests -> {"known", "unknown"}]
    /\ exec \in [Requests -> {"idle", "running", "saved", "over", "cancelled"}]
    /\ out \in [Requests -> {"complete", "interrupt", "error", None}]
    /\ succ \in [Requests -> Tokens \cup {None}]
    /\ files \subseteq Tokens
    /\ owner \in [Tokens -> Subjects \cup {None}]
    /\ sent \subseteq Tokens
    /\ holder \in [Tokens -> Requests \cup {None}]
    /\ waiters \in [Tokens -> Seq(Requests)]
    /\ effects \in [Tokens -> SUBSET Requests]
-----------------------------------------------------------------------------
(***************************************************************************)
(* Safety.                                                                 *)
(***************************************************************************)
\* Nobody but the garbage collector still has the request's generators.
Abandoned == {"unlocked", "reaping"}

\* lock_run_state serializes the executions of a checkpoint: whoever executes
\* one holds its lock, unless its stream was abandoned and the lock given up.
ExecutionExclusive ==
    \A r \in Requests :
        tok[r] # None /\ exec[r] \in {"running", "saved"} /\ pc[r] \notin Abandoned
            => holder[tok[r]] = r

\* The docstring of lock_run_state: "Prevent concurrent execution of the same
\* resumable checkpoint."  No two runs of one checkpoint are ever under way.
NoConcurrentExecution ==
    \A r, q \in Requests :
        r # q /\ tok[r] # None /\ tok[r] = tok[q]
            => ~(exec[r] = "running" /\ exec[q] = "running")

\* Between the ownership check and load_run_state, which suspend in between,
\* nobody deletes the checkpoint: the second look at the file never fails.
StillThere ==
    \A r \in Requests : pc[r] = "held" /\ tok[r] # None => Admissible(r, tok[r])

\* The request's run failed, was cancelled or left by its caller.
Unsettled(r) ==
    \/ out[r] = "error"
    \/ pc[r] \in {"closing", "dropped", "gone", "lost"} \cup Abandoned

\* Tool calls that were approved once are executed again only because the
\* earlier executions failed, were cancelled or left by their callers.
RepeatOnlyAfterFailure ==
    \A t \in Tokens : \A r, q \in effects[t] :
        r # q => Unsettled(r) \/ Unsettled(q)

\* A checkpoint's tool calls are executed for the subject that owned the run,
\* and the checkpoints that follow belong to the same subject.
OwnerKeepsChain ==
    /\ \A t \in Tokens : \A r \in effects[t] : who[r] = owner[t]
    /\ \A r \in Requests : tok[r] # None /\ succ[r] # None
                               => owner[succ[r]] = owner[tok[r]]

\* The request has reached an outcome that consumes its checkpoint.
Consumed(r) == out[r] \in {"complete", "interrupt"}

\* Where a checkpoint is gone from disk, a run of its own has consumed it and
\* written the outcome, with a successor's token, to the caller's connection.
\* Only over REST does the deletion come first: a crash, an encoding that fails
\* or a caller that has left loses the outcome, and then a successor is still on
\* disk, with a token that nobody was given.
LostOverRestOnly ==
    \A t \in Tokens : Issued(t) /\ t \notin files =>
        \E r \in Requests :
            /\ tok[r] = t /\ Consumed(r)
            /\ \/ pc[r] = "answered" /\ SuccOf(r) \subseteq sent
               \/ /\ r \in Rest /\ pc[r] \in {"reply", "unheard", "lost"}
                  /\ SuccOf(r) \subseteq files \ sent

\* A step deletes a checkpoint only under its lock, for an outcome that is not
\* an error, with the successor saved or already in the caller's hands.
RetainedUntilSettled ==
    [][\A t \in files \ files' : \E r \in Requests :
          /\ tok[r] = t /\ holder[t] = r /\ Consumed(r)
          /\ SuccOf(r) \subseteq files \cup sent]_vars

(***************************************************************************)
(* Liveness.                                                               *)
(***************************************************************************)
\* Every request that arrives ends, the ones queued for a lock included,
\* whatever their predecessors do: no path out of the critical section leaks
\* the lock.
EveryRequestEnds ==
    \A r \in Requests : pc[r] # "new" ~> pc[r] \in Final
-----------------------------------------------------------------------------
(***************************************************************************)
(* RunResume implements CheckpointLedger: files are the live tokens, the   *)
(* rest is read off the requests.                                          *)
(***************************************************************************)
HeirsOf(t) ==
    {succ[r] : r \in {q \in Requests : tok[q] = t /\ out[q] = "interrupt"}}

FinishedTokens ==
    {tok[r] : r \in {q \in Requests : tok[q] # None /\ out[q] = "complete"}}

Ledger == INSTANCE CheckpointLedger WITH
    live <- files,
    heirs <- [t \in Tokens |-> HeirsOf(t)],
    finished <- FinishedTokens

\* The interleavings, abandoned streams and crashes of the service add nothing
\* to what the ledger allows: no checkpoint is spent without its run's end or
\* an heir, no token is issued twice or revived, no chain changes its owner.
ImplementsLedger == Ledger!Spec
=============================================================================
