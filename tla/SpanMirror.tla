----------------------------- MODULE SpanMirror -----------------------------
(***************************************************************************)
(* Observability: who is served, in context variables of the task, and the *)
(* mirror that AgentsOtelProcessor keeps of the SDK's traces and spans.    *)
(*                                                                         *)
(* A REST request is served and run in one task; a stream's response task  *)
(* spawns the producer's, which copies its context and runs the agent.     *)
(* Requests interleave wherever they await.  Each run is one SDK trace,    *)
(* named here as its request.                                              *)
(***************************************************************************)
EXTENDS Naturals, Sequences

CONSTANTS
    Requests,   \* requests, and the traces of their runs
    Streams,    \* those answered by a stream
    Spans,      \* SDK spans
    None

ASSUME StreamsAreRequests == Streams \subseteq Requests
ASSUME NoneIsNothing == None \notin Requests \cup Spans /\ Requests \cap Spans = {}

Tasks == (Requests \X {"serving"}) \cup (Streams \X {"producer"})

\* The task in which a request's agent runs.
Runner(r) == IF r \in Streams THEN <<r, "producer">> ELSE <<r, "serving">>

VARIABLES
    alive,      \* the tasks there are
    request_id, \* the context variable, in each task (None: "-")
    tokens,     \* what each task's open bindings will reset it to
    sdk,        \* SDK traces and spans: "none", "open", "ended"
    of,         \* the trace of a span
    mirror,     \* their mirrors: a state, the parent, and the request of a trace
    tables      \* _traces and _spans

vars == <<alive, request_id, tokens, sdk, of, mirror, tables>>

Nodes    == Requests \cup Spans
TraceOf(x) == IF x \in Requests THEN x ELSE of[x]
NoMirror == [state |-> "none", parent |-> None, by |-> None]

Init ==
    /\ alive = Requests \X {"serving"}
    /\ request_id = [t \in Tasks |-> None]
    /\ tokens = [t \in Tasks |-> << >>]
    /\ sdk = [x \in Nodes |-> "none"]
    /\ of = [s \in Spans |-> None]
    /\ mirror = [x \in Nodes |-> NoMirror]
    /\ tables = {}
-----------------------------------------------------------------------------
(***************************************************************************)
(* bind_observability_context.                                             *)
(***************************************************************************)
\* Mutated: a variable of the module, not of the context.
SetGlobally(t, value) == request_id' = [u \in Tasks |-> value]

Set(t, value) == request_id' = [request_id EXCEPT ![t] = value]

\* Entered by the adapter, by a formatter around create(), and around the run.
Bind(t) ==
    /\ t \in alive /\ Len(tokens[t]) < 2
    /\ tokens' = [tokens EXCEPT ![t] = Append(@, request_id[t])]
    /\ Set(t, t[1])
    /\ UNCHANGED <<alive, sdk, of, mirror, tables>>

\* A binding may end before its run does, when the run is cancelled.
Unbind(t) ==
    /\ t \in alive /\ tokens[t] # << >>
    /\ Set(t, tokens[t][Len(tokens[t])])
    /\ tokens' = [tokens EXCEPT ![t] = SubSeq(@, 1, Len(@) - 1)]
    /\ UNCHANGED <<alive, sdk, of, mirror, tables>>

\* asyncio.create_task: the new task has a copy of its creator's variables.
Spawn(r) ==
    /\ r \in Streams /\ <<r, "producer">> \notin alive
    /\ tokens[<<r, "serving">>] # << >>
    /\ alive' = alive \cup {<<r, "producer">>}
    /\ Set(<<r, "producer">>, request_id[<<r, "serving">>])
    /\ UNCHANGED <<tokens, sdk, of, mirror, tables>>
-----------------------------------------------------------------------------
(***************************************************************************)
(* The processor's callbacks.                                              *)
(***************************************************************************)
\* Mutated: the table is filled before the span is started, which may fail.
RegisterFirst(x, fails, m) ==
    /\ tables' = tables \cup {x}
    /\ IF fails THEN UNCHANGED mirror ELSE mirror' = [mirror EXCEPT ![x] = m]

\* start_span, and the entry.  An exception is logged: there is no mirror.
Register(x, fails, m) ==
    IF fails THEN UNCHANGED <<mirror, tables>>
    ELSE /\ mirror' = [mirror EXCEPT ![x] = m]
         /\ tables' = tables \cup {x}

\* on_trace_start.  A run's trace starts within a binding of its task.
TraceStart(r) ==
    /\ Runner(r) \in alive /\ tokens[Runner(r)] # << >>
    /\ sdk[r] = "none"
    /\ sdk' = [sdk EXCEPT ![r] = "open"]
    /\ \E fails \in BOOLEAN :
          Register(r, fails,
                   [state |-> "open", parent |-> None, by |-> request_id[Runner(r)]])
    /\ UNCHANGED <<alive, request_id, tokens, of>>

\* Mutated: no trace instead of a parent that has no mirror.
ParentOnly(parent, r) == IF parent \in tables THEN parent ELSE None

\* The mirror of the parent, or else that of the trace, or else none.
MirrorParent(parent, r) ==
    IF parent \in tables THEN parent ELSE IF r \in tables THEN r ELSE None

\* on_span_start.  The SDK's parent is a span of the trace, ended or not: a task
\* that outlives it has it for its current span still.
SpanStart(s, r) ==
    /\ sdk[s] = "none" /\ sdk[r] # "none"
    /\ sdk' = [sdk EXCEPT ![s] = "open"]
    /\ of' = [of EXCEPT ![s] = r]
    /\ \E fails \in BOOLEAN, parent \in {p \in Spans : of[p] = r} \cup {None} :
          Register(s, fails, [state |-> "open", parent |-> MirrorParent(parent, r), by |-> None])
    /\ UNCHANGED <<alive, request_id, tokens>>

\* Mutated: the status of a failed span is set, and the span left open.
FinishUnlessFailed(x, error) ==
    mirror' = IF error THEN mirror ELSE [mirror EXCEPT ![x].state = "ended"]

Finish(x, error) == mirror' = [mirror EXCEPT ![x].state = "ended"]

End(x, error) ==
    /\ sdk[x] = "open"
    /\ sdk' = [sdk EXCEPT ![x] = "ended"]
    /\ IF x \in tables THEN Finish(x, error) ELSE UNCHANGED mirror
    /\ tables' = tables \ {x}
    /\ UNCHANGED <<alive, request_id, tokens, of>>

\* on_trace_end.
TraceEnd(r) == End(r, FALSE)

\* on_span_end.
SpanEnd(s) == \E error \in BOOLEAN : End(s, error)

Next ==
    \/ \E t \in Tasks : Bind(t) \/ Unbind(t)
    \/ \E r \in Requests :
          Spawn(r) \/ TraceStart(r) \/ TraceEnd(r) \/ \E s \in Spans : SpanStart(s, r)
    \/ \E s \in Spans : SpanEnd(s)

Spec == Init /\ [][Next]_vars
-----------------------------------------------------------------------------
TypeOK ==
    /\ alive \subseteq Tasks
    /\ request_id \in [Tasks -> Requests \cup {None}]
    /\ tokens \in [Tasks -> Seq(Requests \cup {None})]
    /\ sdk \in [Nodes -> {"none", "open", "ended"}]
    /\ of \in [Spans -> Requests \cup {None}]
    /\ mirror \in [Nodes -> [state : {"none", "open", "ended"},
                             parent : Nodes \cup {None},
                             by : Requests \cup {None}]]
    /\ tables \subseteq {x \in Nodes : mirror[x].state # "none"}
-----------------------------------------------------------------------------
\* Requests interleave at every await, each in its tasks: a trace is attributed
\* to the request that runs it, and so is what a task logs within a binding.
Attributed ==
    /\ \A r \in Requests : mirror[r].state # "none" => mirror[r].by = r
    /\ \A t \in alive : tokens[t] # << >> => request_id[t] = t[1]

\* Whichever of the mirrors failed to start, or ended before what they contain
\* began: a mirrored span is in its own trace, and outside of it only when that
\* has no mirror, or none any more.
InItsTrace ==
    \A s \in Spans : mirror[s].state # "none" =>
        IF mirror[s].parent = None
        THEN mirror[of[s]].state \in {"none", "ended"}
        ELSE TraceOf(mirror[s].parent) = of[s]

\* A mirror is ended when its original is, by an error as well, and leaves the
\* tables: they do not grow with the requests served.
EndedAsTheOriginal ==
    \A x \in Nodes : mirror[x].state # "none" =>
        /\ mirror[x].state = sdk[x]
        /\ x \in tables <=> mirror[x].state = "open"
=============================================================================
