----------------------------- MODULE EventStream -----------------------------
(***************************************************************************)
(* The event stream of a run: the SDK's runner hands its events to the     *)
(* producer, which maps and emits them; handlers of nested agents and the  *)
(* guardrail emit on the same sink; the response generator takes them off  *)
(* the queue and encodes them, and the command line client reads them,     *)
(* decides when the turn was interrupted and resumes it in a next stream.  *)
(*                                                                         *)
(* One conversation of one client: streams come one after the other, and   *)
(* what is asked of a stream is the matter here, not who may resume what   *)
(* (see RunResume) nor what a decision does (see ToolGate).                *)
(*                                                                         *)
(* QueueEventSink.emit never suspends (its lock is never contended, its    *)
(* queue has no limit), so that an emission is part of its caller's step.  *)
(***************************************************************************)
EXTENDS Naturals, Sequences

CONSTANTS
    Calls,          \* tool calls of the root agent
    MaxStreams,     \* bound: how many streams the conversation has
    MaxNested,      \* bound: how many events a nested run has in a stream
    None

ASSUME NoneIsNoCall == None \notin Calls
ASSUME StreamsBounded == MaxStreams \in Nat \ {0} /\ MaxNested \in Nat

VARIABLES
    turn,       \* the number of the current stream
    run,        \* the SDK's run: "going", "paused", "ended", "failed",
                \* "cancelled", or "none": it is not begun
    sdkq,       \* the runner's events that the producer has not taken yet
    call,       \* each call: "none", then of a "tool" or an "agent", "answered"
    nested,     \* how many events the call's nested run has had in this stream
    tool_calls, \* the calls whose names this stream's producer knows
    previous,   \* previous_agents: the invocations the handler has met
    producer,   \* the producer's task: "running", "over"
    sequence,   \* QueueEventSink._sequence
    log,        \* what was put on the queue, _CLOSED included
    taken,      \* how much of it the response generator has taken
    gen,        \* the response: "pulling", "done", or "refused", "broken", "gone"
    out,        \* the frames that the client has read
    client,     \* "reading", "deciding", "ended", "failed"
    files       \* checkpoints on disk, by the number of the stream they end

sdk      == <<run, sdkq, call, nested>>
mapping  == <<tool_calls, previous>>
sink     == <<producer, sequence, log>>
response == <<taken, gen, out>>
vars     == <<turn, sdk, mapping, sink, response, client, files>>
-----------------------------------------------------------------------------
(***************************************************************************)
(* Events: a type, the call they are about or come from (None: the root    *)
(* run), and a note: a result's tool name, or the agent that an            *)
(* agent_changed event names as the previous one.                          *)
(***************************************************************************)
Types    == {"agent_changed", "text_chunk", "tool_start", "tool_result",
             "auth_required", "turn_complete", "turn_interrupt", "turn_error"}
Final    == {"turn_complete", "turn_interrupt", "turn_error"}
Notes    == {"named", "unknown_tool", "subagent", "root", "none"}

Event(type, of, note) == [type |-> type, of |-> of, note |-> note]
Numbered(e, n) == [seq |-> n, type |-> e.type, of |-> e.of, note |-> e.note]

Envelopes == [seq : Nat, type : Types, of : Calls \cup {None}, note : Notes]
Closed    == [seq |-> 0, type |-> "closed", of |-> None, note |-> "none"]

\* The turn_error that resume_stream makes of a ValueError, always number 1.
OwnError == Numbered(Event("turn_error", None, "none"), 1)

IsTerminal(m) == m.type \in Final
IsClosed == \E i \in DOMAIN log : log[i] = Closed
Emitted(type, k) == \E i \in DOMAIN log : log[i].type = type /\ log[i].of = k

Open(k) == call[k] \in {"tool", "agent"}

Init ==
    /\ turn = 1
    /\ run = "going" /\ sdkq = << <<"updated", None>> >>
    /\ call = [k \in Calls |-> "none"]
    /\ nested = [k \in Calls |-> 0]
    /\ tool_calls = {} /\ previous = {}
    /\ producer = "running" /\ sequence = 0 /\ log = << >>
    /\ taken = 0 /\ gen = "pulling" /\ out = << >>
    /\ client = "reading"
    /\ files = {}
-----------------------------------------------------------------------------
(***************************************************************************)
(* The SDK's runner.                                                       *)
(***************************************************************************)
\* Mutated: all the events of a stream have one number.
EmitUnnumbered(e) ==
    /\ UNCHANGED producer
    /\ sequence' = 1
    /\ log' = Append(log, Numbered(e, 1))

Emit(e) ==
    /\ UNCHANGED producer
    /\ sequence' = sequence + 1
    /\ log' = Append(log, Numbered(e, sequence + 1))

CallTool(k) ==
    /\ run = "going" /\ call[k] = "none"
    /\ \E kind \in {"tool", "agent"} : call' = [call EXCEPT ![k] = kind]
    /\ sdkq' = Append(sdkq, <<"called", k>>)
    /\ UNCHANGED <<turn, run, nested, mapping, sink, response, client, files>>

\* The call is executed, or rejected: the model gets an output.  The one of a
\* subagent carries the tool's name as its origin (tool_origin).
AnswerCall(k) ==
    /\ run = "going" /\ Open(k)
    /\ call' = [call EXCEPT ![k] = "answered"]
    /\ sdkq' = Append(sdkq,
                 <<IF call[k] = "agent" THEN "agent_output" ELSE "output", k>>)
    /\ UNCHANGED <<turn, run, nested, mapping, sink, response, client, files>>

\* Mutated: one previous agent for all the invocations of the subagent.
PreviousOfAny(k) == IF previous # {} THEN "subagent" ELSE "none"

PreviousOf(k) == IF k \in previous THEN "subagent" ELSE "none"

\* nested_stream_handler: the nested run of a call announces its agent, then
\* speaks.  When the root run fails or is cancelled, it may go on for a while.
NestedEvent(k) ==
    /\ call[k] = "agent"
    /\ run \in {"going", "failed", "cancelled"}
    /\ nested[k] < MaxNested
    /\ nested' = [nested EXCEPT ![k] = @ + 1]
    /\ Emit(IF nested[k] = 0 THEN Event("agent_changed", k, PreviousOf(k))
                             ELSE Event("text_chunk", k, "none"))
    /\ previous' = previous \cup {k}
    /\ UNCHANGED <<turn, run, sdkq, call, tool_calls, response, client, files>>

\* The guardrail of a tool finds no token.  The tools of subagents have none.
Challenge(k) ==
    /\ run = "going" /\ call[k] = "tool" /\ ~Emitted("auth_required", k)
    /\ Emit(Event("auth_required", k, "none"))
    /\ UNCHANGED <<turn, sdk, mapping, response, client, files>>

\* The run stops: some calls want a decision, or none is open, or it raises.
StopRun ==
    /\ run = "going"
    /\ \/ /\ turn < MaxStreams /\ \E k \in Calls : Open(k)
          /\ run' = "paused"
       \/ /\ \A k \in Calls : ~Open(k)
          /\ run' = "ended"
       \/ run' = "failed"
    /\ UNCHANGED <<turn, sdkq, call, nested, mapping, sink, response, client, files>>
-----------------------------------------------------------------------------
(***************************************************************************)
(* The producer.                                                           *)
(***************************************************************************)
\* Mutated: the names of the calls are not kept.
KeepNoName(k) == tool_calls

KeepName(k) == tool_calls \cup {k}

\* _resolve_tool_name for a result, which has no name of its own: that of its
\* call, if this stream has met it, or else that of its origin.
NameOf(e) == IF e[2] \in tool_calls \/ e[1] = "agent_output"
             THEN "named" ELSE "unknown_tool"

Outputs == {"output", "agent_output"}

\* map_stream_event.  The root agent announces itself as its own predecessor.
Mapped(e) ==
    CASE e[1] = "updated" -> Event("agent_changed", None, "root")
      [] e[1] = "called"  -> Event("tool_start", e[2], "named")
      [] e[1] \in Outputs -> Event("tool_result", e[2], NameOf(e))

\* One turn of the producer's loop.
MapNext ==
    /\ producer = "running" /\ sdkq # << >>
    /\ Emit(Mapped(Head(sdkq)))
    /\ tool_calls' = IF Head(sdkq)[1] = "called"
                     THEN KeepName(Head(sdkq)[2]) ELSE tool_calls
    /\ sdkq' = Tail(sdkq)
    /\ UNCHANGED <<turn, run, call, nested, previous, response, client, files>>

\* Mutated: the queue is not closed.
ConcludeOpen(type) ==
    /\ producer' = "over"
    /\ sequence' = sequence + 1
    /\ log' = Append(log, Numbered(Event(type, None, "none"), sequence + 1))

\* The terminal event, and the "finally": in one step.
Conclude(type) ==
    /\ producer' = "over"
    /\ sequence' = sequence + 1
    /\ log' = Append(Append(log, Numbered(Event(type, None, "none"), sequence + 1)),
                     Closed)

\* The runner's events are all mapped.  An interruption saves a checkpoint
\* first; map_approvals may then raise all the same.
ConcludeRun ==
    /\ producer = "running" /\ sdkq = << >>
    /\ \/ /\ run = "ended"
          /\ Conclude("turn_complete") /\ UNCHANGED files
       \/ /\ run = "paused"
          /\ \E type \in {"turn_interrupt", "turn_error"} : Conclude(type)
          /\ files' = files \cup {turn}
    /\ UNCHANGED <<turn, sdk, mapping, response, client>>

\* stream_events raises, whatever it has not delivered yet.
ConcludeFailed ==
    /\ producer = "running" /\ run = "failed"
    /\ Conclude("turn_error")
    /\ sdkq' = << >>
    /\ UNCHANGED <<turn, run, call, nested, mapping, response, client, files>>

\* The response was abandoned: the producer is cancelled, and the run with it.
CancelProducer ==
    /\ producer = "running" /\ gen \in {"refused", "broken", "gone"}
    /\ producer' = "over"
    /\ run' = "cancelled" /\ sdkq' = << >>
    /\ log' = Append(log, Closed)
    /\ UNCHANGED <<turn, call, nested, mapping, sequence, response, client, files>>
-----------------------------------------------------------------------------
(***************************************************************************)
(* The response generator.                                                 *)
(***************************************************************************)
Waiting == gen = "pulling" /\ taken < Len(log)

\* Mutated: the sentinel is handed on like an event.
AnyItem(m) == TRUE

IsEvent(m) == m # Closed

\* stream_event and _encode_sse.  The connection keeps the order: a client that
\* has not failed reads a frame when it is sent, one that has does not matter.
Send ==
    /\ Waiting /\ IsEvent(log[taken + 1])
    /\ taken' = taken + 1
    /\ out' = Append(out, log[taken + 1])
    /\ UNCHANGED <<turn, sdk, mapping, sink, gen, client, files>>

\* The response ends in an exception, whose cause is before the next frame:
\* resume_stream answers a ValueError with an error of its own, stream_agent
\* none, and every other exception breaks the response off.
RaiseInResponse ==
    \/ gen' = "broken" /\ UNCHANGED out
    \/ turn # 1 /\ gen' = "refused" /\ out' = Append(out, OwnError)

\* stream_event or _encode_sse raises, as for an output JSON cannot express.
EncodeFails ==
    /\ Waiting /\ IsEvent(log[taken + 1])
    /\ taken' = taken + 1
    /\ RaiseInResponse
    /\ UNCHANGED <<turn, sdk, mapping, sink, client, files>>

\* factory.create and the rest of the preparation may fail before the producer
\* starts; RunResume has the cases.
Refuse ==
    /\ gen = "pulling" /\ producer = "running"
    /\ run = "going" /\ sdkq = << <<"updated", None>> >> /\ log = << >>
    /\ RaiseInResponse
    /\ producer' = "over" /\ run' = "none" /\ sdkq' = << >>
    /\ UNCHANGED <<turn, call, nested, mapping, sequence, log, taken, client, files>>

\* "completed", as set in resume().
Completed == \E i \in DOMAIN out : out[i].type \in {"turn_complete", "turn_interrupt"}

\* receive() returns None: a resumed checkpoint that has its outcome is deleted
\* and the response ends.
EndResponse ==
    /\ Waiting /\ log[taken + 1] = Closed
    /\ taken' = taken + 1
    /\ gen' = "done"
    /\ files' = IF Completed THEN files \ {turn - 1} ELSE files
    /\ UNCHANGED <<turn, sdk, mapping, sink, out, client>>

\* The server notices that its client is gone.
Disconnect ==
    /\ gen = "pulling" /\ client = "failed"
    /\ gen' = "gone"
    /\ UNCHANGED <<turn, sdk, mapping, sink, taken, out, client, files>>
-----------------------------------------------------------------------------
(***************************************************************************)
(* The command line client.                                                *)
(***************************************************************************)
\* Mutated: the client does not wait for the end of the response.
AtOnce == out # << >> /\ IsTerminal(out[Len(out)])

AtEnd == gen \in {"done", "refused"}

Interrupted == \E i \in DOMAIN out : out[i].type = "turn_interrupt"

\* run_sse: at the end of the stream, it is known whether to resume.
FinishReading ==
    /\ client = "reading" /\ AtEnd
    /\ client' = IF Interrupted THEN "deciding" ELSE "ended"
    /\ UNCHANGED <<turn, sdk, mapping, sink, response, files>>

\* The connection breaks, the user does not wait, or _sse fails to parse: httpx
\* ends a line at U+2028 and its like as well, which JSON leaves in a text.
GiveUp ==
    /\ client \in {"reading", "deciding"}
    /\ client' = "failed"
    /\ UNCHANGED <<turn, sdk, mapping, sink, response, files>>

\* The decisions are sent, a next stream begins: another sink, producer and
\* handler, and the run as its checkpoint has it.
Resume ==
    /\ client = "deciding"
    /\ turn' = turn + 1
    /\ run' = "going" /\ sdkq' = << <<"updated", None>> >>
    /\ nested' = [k \in Calls |-> 0]
    /\ tool_calls' = {} /\ previous' = {}
    /\ producer' = "running" /\ sequence' = 0 /\ log' = << >>
    /\ taken' = 0 /\ gen' = "pulling" /\ out' = << >>
    /\ client' = "reading"
    /\ UNCHANGED <<call, files>>
-----------------------------------------------------------------------------
Over ==
    /\ client \in {"ended", "failed"} /\ gen # "pulling" /\ producer = "over"
    /\ UNCHANGED vars

Runner == StopRun \/ \E k \in Calls :
              CallTool(k) \/ AnswerCall(k) \/ NestedEvent(k) \/ Challenge(k)
Producer == MapNext \/ ConcludeRun \/ ConcludeFailed \/ CancelProducer
Server == Send \/ EncodeFails \/ EndResponse \/ Disconnect
Client == FinishReading \/ GiveUp \/ Resume

Next == Runner \/ Producer \/ Server \/ Refuse \/ Client \/ Over

Spec == Init /\ [][Next]_vars

\* A run makes progress (max_turns), tasks that are ready run, and the client
\* reads and decides.  It gives up, and preparations fail, or not.
FairSpec ==
    /\ Spec
    /\ WF_vars(Runner) /\ WF_vars(Producer) /\ WF_vars(Server)
    /\ WF_vars(FinishReading) /\ WF_vars(Resume)
    /\ WF_vars(gen = "broken" /\ GiveUp)
-----------------------------------------------------------------------------
TypeOK ==
    /\ turn \in 1..MaxStreams
    /\ run \in {"none", "going", "paused", "ended", "failed", "cancelled"}
    /\ sdkq \in Seq(({"updated", "called"} \cup Outputs) \X (Calls \cup {None}))
    /\ call \in [Calls -> {"none", "tool", "agent", "answered"}]
    /\ nested \in [Calls -> 0..MaxNested]
    /\ tool_calls \subseteq Calls /\ previous \subseteq Calls
    /\ producer \in {"running", "over"}
    /\ sequence \in Nat
    /\ log \in Seq(Envelopes \cup {Closed})
    /\ taken \in Nat /\ taken <= Len(log)
    /\ gen \in {"pulling", "done", "refused", "broken", "gone"}
    /\ out \in Seq(Envelopes)
    /\ client \in {"reading", "deciding", "ended", "failed"}
    /\ files \subseteq 1..MaxStreams
-----------------------------------------------------------------------------
\* The events of the producer, of nested handlers and of guardrails reach the
\* client gapless and in the order of their numbers, but for the error event
\* that the adapter makes itself, which is the last one.
NumberedInOrder ==
    \A i \in DOMAIN out :
        out[i].seq = i \/ (out[i] = OwnError /\ i = Len(out))

\* A tool result is named as its call was, unless the call was made in an
\* earlier stream: a stream starts without the names of the pending calls.
ResultsNamed ==
    \A i, j \in DOMAIN log :
        i < j /\ log[i].type = "tool_start" /\ log[j].type = "tool_result"
              /\ log[i].of = log[j].of
            => log[j].note = "named"

\* What nested_stream_handler has emitted: root events have no call, or a type
\* that the model's nested runs do not use.
FromNested(m) == m.of # None /\ m.type \in {"agent_changed", "text_chunk"}

\* Invocations of one subagent that run side by side share a handler, not the
\* memory of their agents: a nested run announces no previous agent unless an
\* earlier event of the same invocation has come from its own nested run.
InvocationsApart ==
    \A i \in DOMAIN log :
        FromNested(log[i]) /\ log[i].type = "agent_changed" =>
            \/ log[i].note = "none"
            \/ \E j \in 1..(i - 1) : FromNested(log[j]) /\ log[j].of = log[i].of

\* A client that decides has one checkpoint to resume, and the one before is
\* spent: interruptions do not pile up.
OneCheckpoint == client = "deciding" => files = {turn}

\* The conversation ends for a client that reads on.
ConversationEnds == <>(client \in {"ended", "failed"})
-----------------------------------------------------------------------------
(***************************************************************************)
(* EventStream implements EventFeed: the feed is what was put before the   *)
(* queue was closed.                                                       *)
(***************************************************************************)
Feed ==
    LET n == IF IsClosed THEN (CHOOSE i \in DOMAIN log : log[i] = Closed) - 1
                         ELSE Len(log)
    IN  SubSeq(log, 1, n)

Promise == INSTANCE EventFeed WITH
    Terminal <- {e \in Envelopes : IsTerminal(e)},
    feed     <- Feed,
    seen     <- IF gen = "refused" THEN Len(out) - 1 ELSE Len(out)

\* What the tasks of a run emit side by side, after its end included, comes to
\* the client as one feed that a terminal event ends.
ImplementsFeed == Promise!Spec
=============================================================================
