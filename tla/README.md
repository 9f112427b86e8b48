# Verification of the agent service

TLA+ models of the multi-protocol agent service in `services/agent` (with the
parts of `services/cli` and `packages/agent-common` it works with), the TLC runs
that check them, and the theorems TLAPS proves about them. Paths below are
relative to `src/`; `agent/` stands for `services/agent/src/agent/`.

## 1. The system

One FastAPI process, one event loop. A request starts a run of an agent (OpenAI
Agents SDK) or resumes one; a run that needs a human's approval or a user's
credential stops, leaves a checkpoint on disk and hands out a resume token.

| Component | State | Operations | Works with |
|---|---|---|---|
| REST adapter `agent/protocols/http_rest.py` | none | `run_agent`, `resume_agent` | calls `CompleteFormatter`; exceptions to 400/403/404 |
| SSE adapter `agent/protocols/http_sse.py` | a response generator per request | `stream_agent`, `resume_stream` | looks the token up without a lock, then iterates `EventsFormatter` |
| `CompleteFormatter` `agent/formatters/complete.py` | none | `run`, `resume`, `_execute` | sessions, checkpoints, factory, SDK |
| `EventsFormatter` `agent/formatters/events.py` | per run: queue, sequence number, producer task | `stream`, `resume`, `_produce`, `_stream_prepared` | the same, and the sink that nested agents and guardrails emit on |
| Checkpoints, in `SessionManager` `agent/core/session_manager.py` | `run_states/<token>.json`, a lock per token | `save_run_state`, `load_run_state`, `run_state_session_id`, `delete_run_state`, `lock_run_state`, `apply_decisions` | both formatters |
| Sessions, `JsonSession` in the same file | `sessions/<digest>.json`, a lock per owner and session | `get_items`, `add_items`, `pop_item`, `clear_session` | the SDK calls it during runs |
| Token vault `agent/controls/guardrails/vault.py` | `tokens/<digest>.json`, a lock per subject | `put`, `get`, `has_token`, `peek` | `store_vault_token`, policies, guardrail, tools |
| Approval policies `agent/controls/interrupts/approval.py` | none | `auth_required`, `hitl_auth_required`, `approval_policy_for_item` | evaluated by the SDK; metadata for `map_approvals` |
| Auth guardrail `agent/controls/guardrails/auth.py` | none | `auth_guardrail`, `get_access_token` | vault, event sink |
| Event mapping `agent/core/event_mapping.py` | call names of one stream | `map_stream_event`, `map_approvals` | producer, nested handlers |
| Nested handlers `agent/common/binding.py` | previous agent per invocation | `nested_stream_handler`, `bind_*_tool` | the run's sink |
| Agent factory `agent/core/agent_factory.py` | connected MCP servers, one lock | `create`, `_connect_mcp`, `close` | every run; closed at shutdown |
| HTTP mapping, identity `agent/common/http_*.py` | none | `complete_response`, `stream_event`, `trusted_identity` | adapters |
| Observability `agent/core/observability.py` | span tables, context variables | processor callbacks, `bind_observability_context` | every run |
| Client `services/cli/src/agent_cli/main.py` | HTTP client | `run_rest`, `run_sse`, `_decisions`, `_sse` | the API |

What is hard about it:

* two requests may resume the same token at the same time, over either
  transport, and each suspends many times between its look at the checkpoint and
  its deletion;
* an SSE client may leave at any moment, and where it leaves decides whether the
  generators unwind in order (cancelled in `receive()`) or are left to the
  garbage collector, outer one first (suspended at a `yield`);
* the process may die between any two file operations;
* a REST response is made after the checkpoint was deleted: it may fail to be
  encoded, and a caller that timed out does not stop the handler;
* a turn may fail half way, after some approved tools have run;
* the vault is read three times for one call (policy, guardrail, body), while
  other requests of the same subject write it;
* decisions may be partial, contrary to what was asked, and repeated.

What makes the components correct: a checkpoint is executed by one request at a
time, for its owner only; it disappears only for an outcome, which over SSE has
been sent by then, and over REST may be lost but not with the successor it names;
executed calls are not executed again unless something failed;
nothing that a human has to approve runs unapproved; decisions are final; a
token seen is a token that stays; whoever follows the interruptions gets to the
end; every request ends; a stream's events are one feed, in order, and its last
event is terminal; a server is connected once and shared, its tools are not; a
session belongs to its owner whatever its file is called. `PROJECT.json` lists the hazards with their lines.

## 2. Modules

| Module | What it is |
|---|---|
| `RunResume` | requests, locks, checkpoints, outcomes, abandoned streams, restarts |
| `CheckpointLedger` | what the service promises about checkpoints; `RunResume` implements it |
| `MCRunResume` | instances for TLC |
| `CheckpointLedgerProofs` | what the ledger gives to whoever implements it |
| `RunResumeProofs` | theorems about `RunResume` |
| `ToolGate` | policies, decisions, guardrail, vault: a tool call's way to its execution |
| `ConsentLedger` | what the service promises about consent; `ToolGate` implements it |
| `MCToolGate` | instances for TLC |
| `ToolGateProofs` | theorems about `ToolGate` |
| `EventStream` | one conversation's streams: runner, producer, nested handlers, queue, response, client |
| `EventFeed` | what a streaming caller is promised; `EventStream` implements it |
| `MCEventStream`, `EventStreamProofs` | instance for TLC; theorems |
| `AgentFactory` | `create`, `_connect_mcp`, the tools a run is offered, `close` |
| `ServerPool` | one pool of connections, shared by requests; `AgentFactory` implements it |
| `MCAgentFactory`, `AgentFactoryProofs` | instance for TLC, with a small catalog; theorems |
| `JsonStore` | the files of sessions, and the operations of runs that share them |
| `SessionHistory` | a history per key, of one owner; `JsonStore` implements it |
| `MCJsonStore`, `JsonStoreProofs` | instance for TLC, with colliding keys; theorems |
| `SpanMirror` | `AgentsOtelProcessor` and `bind_observability_context` |
| `MCSpanMirror`, `SpanMirrorProofs` | instance for TLC; theorems |

The modules do not share variables: each takes of its neighbours what it needs.
`RunResume` knows of a stream that it has a terminal event and an end, which is
what `EventFeed` promises; `EventStream` knows of checkpoints that the next
stream spends the last one's, which is what `CheckpointLedger` promises (and is
proved of the streams of one client, see section 4); the
client's decisions are `ToolGate`'s matter; `AgentFactory` is the step
`StartRun` of `RunResume`, which suspends and may raise.

### RunResume

An action is what the code does between two suspension points. Every request has
a stage `pc` (listed in the module); the correspondence is

| Action | Code |
|---|---|
| `RunRequest`, `ResumeRequest`, `RefuseDuplicates` | the four handlers up to their first suspension; `AdmitSse` is the lock-free look of `resume_stream` |
| `OpenStream`, `LockOrWait`, `Acquire`, `Enter` | `lock_run_state` and `run_state_session_id` under it; `asyncio.Lock` is first come, first served, a released lock is free until its first waiter runs |
| `PrepareFails`, `StartRun` | `AgentFactory.create` (suspends, may raise), `load_run_state`, `apply_decisions`; a resumption that fails here is refused or breaks off, by the kind of the exception and the transport |
| `ToolPhase` | the resumed run takes up its checkpoint's pending calls (SDK) |
| `FinishComplete`, `FinishError`, `SaveState`, `Publish` | the ends of `_execute` and `_produce` |
| `Settle`, `Respond`, `RespondInVain` | REST: `delete_run_state`, release; the response is written, or it fails to be made (a 500) or finds its caller gone |
| `PullTerminal`, `CloseStream` | SSE: the yield of the terminal event; the next pull, `delete_run_state`, release |
| `LeaveEarly`, `LeaveQueue`, `CancelAtReceive`, `Drop` | a client that leaves, by where the generator is |
| `ReapResume`, `ReapProducer`, `ProducerCancelled` | finalization of abandoned generators, cancellation of the producer |
| `Crash` | the process dies; `SessionManager.__init__` starts without locks |

`SaveState`/`Publish` and the end of a REST run/`Settle` belong to one loop step
each; they are split so that `Crash` can fall in between, and `LoopFree` keeps
every other action out meanwhile.

Abstractions: a token, a subject and a request are model values; decisions are
"known" or "unknown" IDs; what a run does between start and end is nothing but
`ToolPhase`; a server that fails to encode an event abandons the stream as a
client does (`Drop`). That an outcome is "answered" means that it was written to
the caller's connection: whether the caller reads it is not the service's to know.
JSON damage and permission errors of the file system are
left out. A request's roles are not modelled.

`CheckpointLedger` has four actions: `Issue`, `Succeed`, `Finish`, `Spend`. The
refinement mapping takes `files` for the live tokens and reads heirs and
finished tokens off the requests' outcomes. Three statements about the ledger
alone are in the module: `NoneStranded` (from what is spent, heirs lead to a
token that can be resumed or to an answer), `OnePredecessor` (a token succeeds
one other at most, so that conversations may branch, when a predecessor
outlives its successor's issue and is resumed again, and never merge) and
`SpentForGood`.

### ToolGate

Conversations of one subject, each a chain of runs, with calls identified by
conversation and slot (call IDs are unique, a failed run's do not come back).
`Gate` is the SDK's rule: a recorded rejection or approval counts, without one
the tool's `needs_approval` does. `NeedsApproval` is the code's three policies
in one; `GuardAllows`/`GuardRejects` the guardrail, `Body` the tool with its
`get_access_token`; `Interrupt` is `save_run_state` with `map_approvals`,
`Resume` is `load_run_state` with `apply_decisions`. `Fail` takes the
conversation back to its last checkpoint. `Careful` callers are those that do
what `_decisions` of the client does; the others send whatever the contract
allows.

`ConsentLedger` has no runs, checkpoints or tokens: calls are made (`Make`),
asked about (`Ask`), decided (`Decide`, some of the open questions), let through
(`Pass`), and taken back when a run fails (`TakeBack`). The mapping takes the
pending calls for the questions and everything beyond the gate for passed; a
resumption is one `Decide`, whichever decisions the caller left out.

Left out: the call of a subagent as the parent of its calls (they are calls of
the run here), missing call IDs, and resuming a checkpoint that a later one has
already succeeded (possible after an abandoned stream, see `RunResume`).

### EventStream

One client's conversation, a stream after the other, over SSE.

| Action | Code |
|---|---|
| `CallTool`, `AnswerCall`, `StopRun` | the SDK's runner puts its events on its own queue and ends, pauses or raises (external) |
| `NestedEvent` | `nested_stream_handler.on_stream`, while its call is under way, and for a while after the root run has failed or was cancelled |
| `Challenge` | `auth_guardrail` emits `auth_required` |
| `MapNext` | a turn of `_produce`'s loop: `map_stream_event`, `emit` |
| `ConcludeRun`, `ConcludeFailed`, `CancelProducer` | the ends of `_produce`: outcome or error, then `close()` in the `finally` |
| `Send`, `EncodeFails`, `EndResponse`, `Disconnect` | the response generator: `receive()`, `stream_event`, encoding; the end of `_stream_prepared` and `resume` |
| `Refuse` | the preparation fails before the producer starts |
| `RaiseInResponse` | what either failure does: `resume_stream` answers a `ValueError`, anything else breaks the response off |
| `FinishReading`, `GiveUp`, `Resume` | `run_sse` and `_sse` of the client |

`QueueEventSink.emit` has no suspension that could let another task in (its lock
is never contended, its queue unbounded), so that an emission is part of its
caller's step; what interleaves is the callers. The connection keeps the order
of frames, so that a frame is read in the step that sends it. An event is a
type, the call it is about or comes from, and a note: the name that a result is
given, or the previous agent of an `agent_changed` event.

What the module records as the code does it: a stream starts with an empty
`tool_calls`, so that the result of a function tool whose call was made before the
checkpoint is named `unknown_tool`, while the output of a subagent brings its name
along (`tool_origin`); the handlers of nested runs pass no `tool_calls` at all, so
that a name from there is all they have (`ResultsNamed` speaks of the root run's
calls of this stream); the root agent's `agent_changed` names that agent as its own
predecessor, while a nested run is told of a previous agent only from the events
of its own nested run (`InvocationsApart`; what the root run has put in the feed
about the call that started it does not count); the `turn_error` that `resume_stream` makes of a `ValueError` has
number 1 wherever it comes, which is the exception in `NumberedInOrder`; events
of nested runs that come after the end are behind the sentinel, and nobody
takes them. `GiveUp` has a client that fails in `_sse`: httpx ends lines at
U+2028, U+2029 and U+0085 too, which a JSON text may contain.

### AgentFactory

| Action | Code |
|---|---|
| `Create`, `Acquire` | `create()` up to `_mcp_lock`; the lock is first come, first served |
| `Proceed` (in `Create`, `Acquire`, `Connected`) | the loop of `_connect_mcp`: the next server that is not in `_mcp_servers`, or out of the lock with all that are wanted |
| `Connected`, `ConnectFails` | `server.connect()` returns, or raises |
| `Cancel` | a stream's client leaves while its agent is being made |
| `ListTools` | the SDK asks for the agent's tools: those that are enabled, and those of servers that `_mcp_tool_filter` lets pass |
| `Close`, `CleanUp`, `CleanUpFails`, `CloseEnds` | `lifespan` and `close()`, once the web server has let its requests end |

The catalog is a constant of records, any that a configuration can be: functions,
subagents with their functions, servers with the roles of their tools. In which
order servers are connected is immaterial and left open. What a failed or
cancelled `connect()` leaves behind is cleaned up by the SDK. That a run may be
resumed with other roles than it was started with changes what it is offered,
as the code says; what then becomes of a pending call is the SDK's decision and
cannot be read from this repository. An import path that does not load is left
out.

`ServerPool` has neither lock nor dictionary: a server has one connection
(`Connect`), runs are given open ones (`Reuse`, or in the step that opens the
last), and none is closed before its users have released it and the application
has stopped.

### JsonStore

`GetItems`, `AddItems`, `PopItem` and `ClearSession` are the four operations of
`JsonSession`; a write is split into the temporary file and `Replace`
(`os.replace`), with `Crash` in between. No operation suspends while it holds
its session's lock, so that the lock can never be waited for and is not in the
module: what interleaves is the operations of runs that share a session, each
on the file as it is then. `KeyOf` is any function from owners and session ids,
as both may contain the colon that joins them. `clear_session` does not ask
whose the file is: with a colliding key it would clear, and take over, another
owner's history. Nothing in `src/` calls it; `SessionHistory` has it as it is.
A temporary file that a crash leaves behind stays for ever and is never read.
Files damaged by others, and negative limits, raise without changing anything.

### SpanMirror

`Bind`, `Unbind` and `Spawn` are `bind_observability_context` and the copy of the
context that a new task gets; `TraceStart`, `SpanStart`, `TraceEnd` and `SpanEnd`
the callbacks, each of which may fail to start a mirror and then only logs. A
task has at most two bindings inside each other, the adapter's and a
formatter's. Spans start and end in any order, after their parents and traces
too, as tasks outlive those that made them. Left out: an abandoned stream's
binding is reset in another context by the garbage collector, which raises a
`ValueError` in a task that is over, and has no effect but a logged message.

## 3. Runs

| Run | Instance | Shows |
|---|---|---|
| `run_resume_safety` | 1 REST and 2 SSE requests, 3 tokens of which 1 is saved at the start, 1 subject; 1.03 million states, 40 seconds | `ExecutionExclusive`, `StillThere`, `RepeatOnlyAfterFailure`, `LostOverRestOnly`, `RetainedUntilSettled` |
| `run_resume_owners` | 1 REST and 1 SSE request, 3 tokens, 2 subjects; 25 thousand states | `OwnerKeepsChain`, and that `RunResume` implements `CheckpointLedger` |
| `run_resume_live` | 2 REST and 1 SSE request, 1 saved token, 1 subject | `EveryRequestEnds` |
| `run_resume_exclusive` | 1 REST and 1 SSE request, 2 tokens | violation of `NoConcurrentExecution`, see section 5 |
| `tool_gate_consent` | 1 conversation, 3 calls, tools of all kinds, 2 failures, a caller who does as it likes | `HumanConsent`, `AnswersAreFinal`, and that `ToolGate` implements `ConsentLedger` |
| `tool_gate_vault` | 2 conversations, 2 calls each, the two tools with tokens, 1 failure | `TokenOutlivesCheck`, `MetadataSuffices` |
| `tool_gate_live` | 1 careful conversation, 3 calls, all tools, 2 failures | `CarefulConversationEnds` |
| `tool_gate_challenge` | 1 REST and 1 streaming conversation, 1 call each | violation of `ChallengeReachesCaller`, see section 5 |
| `event_stream` | up to 3 streams, 2 calls, each of a tool or of the subagent, 1 event of a nested run in a stream beside its last; failures of runs, encodings and connections anywhere; 1.9 million states, a minute and a half | `NumberedInOrder`, `ResultsNamed`, `InvocationsApart`, `OneCheckpoint`, `ConversationEnds`, and that `EventStream` implements `EventFeed` |
| `agent_factory` | 3 requests of any roles, 2 of them cancellable, 6 catalog entries of all kinds, 2 servers; 78 thousand states | `OneConnection`, `HandedAllConnected`, `ServersByOwnRoles`, `SubagentsAddNothing`, `AllCleanedUp`, `EveryCreateEnds`, and that `AgentFactory` implements `ServerPool` |
| `json_store` | 2 runs, 2 owners, 2 session ids with a key in common, 4 items, limits up to 2; 138 thousand states | `OwnersApart`, `InOrderOnce`, `NewestWithinLimit`, and that `JsonStore` implements `SessionHistory` |
| `span_mirror` | a REST and a streaming request, 3 spans; 182 thousand states | `Attributed`, `InItsTrace`, `EndedAsTheOriginal` |

Bounds. Three requests are enough for a holder, a waiter and an abandoned
stream at the same token, or for a token, its successor and a retry; three
tokens for a chain of two successors. A stranger needs a second subject but no
third request, so subjects have a run of their own (`run_resume_owners`; both at
once are 2.2 million states and nearly five minutes). Every request comes at
most once. The liveness run has no token left for a successor: two
tokens took too long, and whether a run ends with an interruption or an answer
makes no difference to the lock. In `ToolGate` three calls give batches in which
one call runs, one waits and one is made after the resumption; two services in
one vault file are what a lost update needs; `MaxFails` bounds the failing runs.
In `EventStream` two calls give a call from before the checkpoint beside one of
this stream, and two invocations of the subagent side by side; the third stream
resumes a checkpoint whose predecessor must be gone; `MaxNested` = 1 event is
the first of an invocation, which is the one with a memory to confuse. In
`AgentFactory` three requests are one that connects, one that waits and one that
comes later. In `JsonStore` a colliding pair of owners needs two names only, and
four items fill a history beyond the largest limit. Three spans are a parent, a
child and one more in the other trace.
Symmetry is used in safety runs only, over requests of one kind, subjects,
unissued tokens, and slots, none of which the modules tell apart.

Fairness. `RunResume!FairSpec` assumes weak fairness of what the event loop runs
when it is ready (`Serve`), of a run's end (`Execute`; `max_turns` bounds a run,
the model and the tools are assumed to answer), of a client that stays and reads
(`Read`) and of the finalization of abandoned generators (`Reap`). A client that
neither reads nor leaves holds the lock for ever in the code as well: there is
no write timeout. Nothing makes requests arrive, clients leave or the process
die. `ToolGate!FairSpec` assumes that runs proceed and careful callers answer;
that runs stop failing is the bound `MaxFails`.

`EventStream!FairSpec` assumes that a run makes progress, that producer and
response proceed when they are ready, and that a client reads, decides and
resumes, or gives up a response that broke off; that clients leave and
preparations fail is not assumed. `AgentFactory!FairSpec` assumes that
`connect()` returns or times out, that the lock's waiter runs, and that runs
end. `JsonStore` and `SpanMirror` have nothing to wait for.

Every property of a passing run has a mutant of the code's definition that
breaks it (`PROJECT.json`, the definitions marked "Mutated" in the modules): a
lock not taken, a checkpoint deleted after a failure or kept after an answer, an
owner not compared, a lock not released, a vault written without what it held, a
decision not recorded, a queue not closed, a filter by the wrong caller's roles,
a file written in place, a context variable that is a global one.

## 4. Proofs

For any requests, tokens, subjects, conversations, slots and catalog, from the
named assumptions on the constants alone (transports are disjoint, `None` is
none of the values it is compared with, saved tokens are tokens, the bound is a
natural number).

`RunResumeProofs`: none of the invariants is inductive. `IInv` adds

* `StageInv`, `StartedInv`, `DoneInv`, `OutcomeInv`: which execution states and
  outcomes go with which stage (a request that queues has not run, a cancelled
  run has no outcome, a run that is over has one);
* `LockInv`: the holder of a token's lock is exactly the request with that token
  in a stage between `__aenter__` and `__aexit__`, and those in the queue wait
  for that token;
* `TokenInv`, `FreshInv`: tokens on disk, sent or named were issued; a successor
  is fresh, of one request only, and resumed by nobody before it is sent;
* `SpentInv`: a checkpoint that is gone was consumed by a request whose outcome
  was written, or that is past its deletion over REST. With `FreshInv`, which
  keeps an unwritten successor on disk and unknown, it gives `LostOverRestOnly`.

`StillThere` then follows from the lock, `RepeatOnlyAfterFailure` from the lock
and from what a consumed checkpoint leaves behind, `RetainedUntilSettled` from
one step of `Settle` and `CloseStream`; each action of `RunResume` is shown to
be an action of `CheckpointLedger` or a stutter, case by case.

`CheckpointLedgerProofs` proves the ledger's three statements from the ledger
alone: `Accounted` (what is spent is finished or has an heir) and `NoCycle` (every
set of tokens has one without an heir inside, which a successor that is fresh
keeps up) give `NoneStranded`. `RunResumeProofs` carries them over through the
refinement, without looking at a request again: `NoConversationLost`,
`ConversationsStayApart`, `DeletedForGood`. Through crashes between any two
file operations, a conversation has a token to resume or an answer; whether its
caller has heard of that token is `LostOverRestOnly`.

`NoWaiterForgotten` is the safety part of `EveryRequestEnds`. `QueueInv` (a queue
holds each request once, and exactly those that wait for that lock) and
`HolderInv` (a lock's holder is at a stage whose ways out release it) leave no
request waiting for a lock that nobody will hand on; that the holder does leave
is the fairness TLC is told.

`ToolGateProofs`: `IInv` adds that a checkpoint has no call half way and that
what it settled stays settled (`KeptInv`), that the state's record is what the
caller sent (`RecordInv`), that a token once seen or stored is in the vault
(`VaultInv`), and that a careful caller approves only with the token there
(`CarefulInv`). The vault only grows: this is what carries a check over all
the steps of others. For `GateImplementsLedger` each action is one of
`ConsentLedger`'s or a stutter, `Fail` a `TakeBack` of the calls that its run had
moved. `UndoneByOwnFailure` is an action property on the same invariant: what is
undone is undone by a failing run of the same conversation, and is nothing that
the checkpoint the run started from had settled.

`EventStreamProofs`: `IInv` relates the four copies of an event. `NumberInv`
numbers the queue up to its sentinel, `ClosedInv` has one sentinel, after the
producer's end and behind every terminal event, `OutInv` has what the client
read as the queue's beginning, with the adapter's own error last, `MemoryInv`
has what the mapping remembers in the queue, and `TurnInv` the checkpoint of an
interruption on disk and its predecessor's gone at the response's end. For the
refinement, the feed is the queue up to the sentinel: an emission after it is a
stutter, one before it a `Publish`, a frame a `Read`, `Resume` a `Renew`.

`TurnEnds` ties the sentinel to a terminal event for as long as somebody reads
(a cancelled producer closes its queue without one, when nobody does), and gives
`WholeTurns`: a terminal event is the last, and a client that reads to the end
has one. `ConversationIsLedger` composes the parts: the streams of one
client are a line of the same `CheckpointLedger` that `RunResume` implements for
all requests together: a pausing run is an `Issue`, the frame with its
interruption a `Succeed`, that with the answer a `Finish`, the response's end a
`Spend`; `CheckpointOrAnswer` is what the ledger then gives.

`AgentFactoryProofs`: `PoolInv` (what is connected is what is kept, until
`close()`), `LockInv` (who connects holds the lock, and the server is not yet
kept), `QueueInv`, `LifeInv` and `HandedInv` (what a live run was handed is still
what is kept). The theorems about roles hold for any catalog and any roles. For
`FactoryImplementsPool`, the step that leaves `_connect_mcp` gives the run its
connections, and `HandedInv` keeps them open. `WaitInv` and `HoldInv`
are for this lock what `QueueInv` and `HolderInv` are for a checkpoint's:
`NoWaiterForgotten` is the safety part of `EveryCreateEnds`, through failing and
cancelled connections.

`JsonStoreProofs`: `FilesInv` (every file, the temporary one too, is one owner's
history in order) and `WriteInv` (what is in the temporary file is one operation
applied to what is still in the file, which makes `Replace` that operation and
`Crash` a stutter). Nothing is assumed of `KeyOf` but its domain.

`SpanMirrorProofs`: `BindingInv` (within a binding the variable names the task's
request, and inner bindings reset it to that) and `StartedInv` (traces before
their spans, mirrored parents before children).

Model-checked only: `EveryRequestEnds`, `CarefulConversationEnds`,
`ConversationEnds` and `EveryCreateEnds`, which are out of TLAPS's reach as they
need fairness; and the two violations. Every other property of a run is a
theorem's statement. Proved and stated by no run: the transferred ledger
statements, `NobodyForgotten`, `OnlyOwnFailureUndoes`, `TerminalLast`,
`ReadToTheEnd` and `Line!Spec`, which hold of every instance by the proofs.

## 5. Where code and comments disagree

* `lock_run_state` (`agent/core/session_manager.py:216`): "Prevent concurrent
  execution of the same resumable checkpoint." It does not when an SSE response
  is abandoned at a `yield`: the lock is released when the outer generator is
  finalized, the producer cancelled when the inner one is, in a later task. Run
  `run_resume_exclusive` gets there in seven steps. `ExecutionExclusive` and
  `RepeatOnlyAfterFailure` say what still holds.
* `auth_guardrail` (`agent/controls/guardrails/auth.py:56-57`): "we need to send
  an AuthRequired event / the caller is responsible for receiving and parsing
  the AuthRequired event". Over REST there is nothing to receive: the sink drops
  the event and nobody fills `TurnComplete.auth_required`. Run
  `tool_gate_challenge`.

## 6. What is not modelled

* Identity headers (`agent/common/http_dependencies.py`): subjects and roles come
  as values. The header separates roles by commas, so that a role that contains
  one is read as two; nothing checks the configuration for that.
* The client's `run_rest` loop (it is `run_sse`'s without the stream), prompts
  and display; the text of SSE frames.
* The fields of events, outcomes and usage that are copied from the SDK's
  objects to the contract (`agent/common/http_mapping.py`,
  `agent_common/contracts.py`): declarations and copies, without a state.
* The files of the token vault: written as a session's are, see `JsonStore`.
  `ToolGate` has its operations as atomic steps, for the same reason.
* The deadline hook, which adds a message to the model's input and stops nothing.
* Loading of YAML configuration, log formats, exporter setup and flushing; the
  calculator and the content of the notes server; the stubs of MCP and A2A.
* The SDK, the web server, the HTTP client and asyncio themselves: what the
  modules need of them is taken from how the code uses them (marked external in
  `PROJECT.json`). Memory that grows without limit (locks per token, the queue of
  a client that does not read) changes no behaviour that a property here sees.
* A subagent's call as the parent of the calls that wait for approval inside it:
  `ToolGate` has those as calls of the run, `EventStream` has the nested run's
  events, and not its interruptions.
