---------------------------- MODULE AgentFactory ----------------------------
(***************************************************************************)
(* The agent factory: what a request's agent may use, by the roles of its  *)
(* identity, and the MCP servers that all requests share.                  *)
(*                                                                         *)
(* A request's tools are bound for it alone; a server is connected by the  *)
(* first request that wants it, under _mcp_lock, and handed to each later  *)
(* one.  A server's own tools are filtered when a run lists them.          *)
(*                                                                         *)
(* An action is what happens between two suspensions: waiting for the lock,*)
(* server.connect() and server.cleanup().                                  *)
(***************************************************************************)
EXTENDS Naturals, SequencesExt

CONSTANTS
    Requests,   \* calls of create()
    Streams,    \* those of a stream, whose task its client can cancel
    Roles,      \* the roles of identities
    Catalog,    \* ServiceConfig.tools, by name: a ToolConfig and its symbol
    McpTools,   \* by MCP server: the tools it has
    None

Names     == DOMAIN Catalog
Functions == {n \in Names : Catalog[n].type = "function"}
Subagents == {n \in Names : Catalog[n].type = "subagent"}
Servers   == {n \in Names : Catalog[n].type = "mcp"}

ASSUME CatalogIsTyped ==
    \A n \in Names :
        /\ Catalog[n].type \in {"function", "subagent", "mcp"}
        /\ Catalog[n].enabled \in BOOLEAN
        /\ Catalog[n].allowed_roles \subseteq Roles
ASSUME StreamsAreRequests == Streams \subseteq Requests
ASSUME NoneIsNothing == None \notin Requests \cup Names

VARIABLES
    roles,          \* each request's identity.roles
    pc,             \* where it is in create(), and after it
    target,         \* the server it is connecting
    handed,         \* the servers of its agent
    offered,        \* what its run may call: <<tool, through which subagent or
                    \* server>> (None: it is the agent's own)
    mcp_lock,       \* the holder of _mcp_lock: a request, "close" or None
    queue,          \* the waiters
    mcp_servers,    \* _mcp_servers: by name, who connected it (None: no entry)
    open,           \* the connections there are: <<server, who connected it>>
    life            \* the application: "up", "closing", "closed", "broken"

vars == <<roles, pc, target, handed, offered, mcp_lock, queue, mcp_servers, open, life>>

\* "new", then "waiting" for the lock, "connecting", "created", "running" with
\* the tools listed, "done"; or "raised" or "cancelled".
Stages == {"new", "waiting", "connecting", "created", "running", "done",
           "raised", "cancelled"}
Ended  == {"done", "raised", "cancelled"}

Init ==
    /\ roles \in [Requests -> SUBSET Roles]
    /\ pc = [r \in Requests |-> "new"]
    /\ target = [r \in Requests |-> None]
    /\ handed = [r \in Requests |-> {}]
    /\ offered = [r \in Requests |-> {}]
    /\ mcp_lock = None /\ queue = << >>
    /\ mcp_servers = [s \in Servers |-> None]
    /\ open = {}
    /\ life = "up"
-----------------------------------------------------------------------------
(***************************************************************************)
(* The catalog, for one caller.                                            *)
(***************************************************************************)
HasRole(r, allowed_roles) == roles[r] \cap allowed_roles # {}

IsEnabled(r, n) == Catalog[n].enabled /\ HasRole(r, Catalog[n].allowed_roles)

\* Mutated: every tool of a subagent is bound as the subagent is.
NestedAsParent(r, a) == {f \in Catalog[a].tools : f \in Functions /\ Catalog[f].enabled}

\* A subagent gets the function tools the catalog binds, enabled for the caller
\* each or not; one that is switched off in the catalog is left out.
Nested(r, a) == {f \in Catalog[a].tools : f \in Functions /\ IsEnabled(r, f)}

\* The run sees the tools that are enabled, and a subagent only by calling it.
Bound(r) ==
    {<<n, None>> : n \in {n \in Functions \cup Subagents : IsEnabled(r, n)}}
    \cup UNION {{<<f, a>> : f \in Nested(r, a)} :
                    a \in {a \in Subagents : IsEnabled(r, a)}}

\* Mutated: a server's filter goes by the roles of who connected the server.
FilterOfConnector(r, s, t) ==
    LET c == mcp_servers[s] IN
    /\ HasRole(c, Catalog[s].allowed_roles)
    /\ t \in DOMAIN Catalog[s].tools /\ Catalog[s].tools[t] # {}
          => HasRole(c, Catalog[s].tools[t])

\* _mcp_tool_filter, for the run that lists the tools.  A tool of the server is
\* everybody's who may use the server, unless it has roles of its own.
Filter(r, s, t) ==
    /\ HasRole(r, Catalog[s].allowed_roles)
    /\ t \in DOMAIN Catalog[s].tools /\ Catalog[s].tools[t] # {}
          => HasRole(r, Catalog[s].tools[t])

Wanted(r) == {s \in Servers : IsEnabled(r, s)}
-----------------------------------------------------------------------------
(***************************************************************************)
(* create(): everything but _connect_mcp is done at once.                  *)
(***************************************************************************)
\* Mutated: a server is handed as it is found, connected or not.
NoneMissing(r) == {}

Missing(r) == {s \in Wanted(r) : mcp_servers'[s] = None}

\* The loop of _connect_mcp, from where it is: on to the next missing server,
\* or out of the lock with all that are wanted.
Proceed(r) ==
    \/ \E s \in Missing(r) :
          /\ target' = [target EXCEPT ![r] = s]
          /\ pc' = [pc EXCEPT ![r] = "connecting"]
          /\ mcp_lock' = r
          /\ UNCHANGED handed
    \/ /\ Missing(r) = {}
       /\ handed' = [handed EXCEPT ![r] = {<<s, mcp_servers'[s]>> : s \in Wanted(r)}]
       /\ target' = [target EXCEPT ![r] = None]
       /\ pc' = [pc EXCEPT ![r] = "created"]
       /\ mcp_lock' = None

\* Mutated: the lock is not asked for.
EnterAnyway(r) == Proceed(r) /\ UNCHANGED queue

EnterOrWait(r) ==
    IF mcp_lock = None /\ queue = << >>
    THEN Proceed(r) /\ UNCHANGED queue
    ELSE /\ queue' = Append(queue, r)
         /\ pc' = [pc EXCEPT ![r] = "waiting"]
         /\ UNCHANGED <<mcp_lock, target, handed>>

Create(r) ==
    /\ life = "up" /\ pc[r] = "new"
    /\ UNCHANGED <<roles, offered, mcp_servers, open, life>>
    /\ EnterOrWait(r)

Acquire(r) ==
    /\ mcp_lock = None /\ queue # << >> /\ Head(queue) = r
    /\ queue' = Tail(queue)
    /\ UNCHANGED <<roles, offered, mcp_servers, open, life>>
    /\ Proceed(r)

\* Mutated: a server is used, but not kept.
KeepNot(r) == UNCHANGED mcp_servers

Keep(r) == mcp_servers' = [mcp_servers EXCEPT ![target[r]] = r]

Connected(r) ==
    /\ pc[r] = "connecting"
    /\ open' = open \cup {<<target[r], r>>}
    /\ Keep(r)
    /\ Proceed(r)
    /\ UNCHANGED <<roles, offered, queue, life>>

\* Mutated: the lock is kept when the connection fails.
LeaveHolding(r, how) ==
    /\ pc' = [pc EXCEPT ![r] = how]
    /\ target' = [target EXCEPT ![r] = None]
    /\ UNCHANGED mcp_lock

\* "async with" is left by an exception.
Leave(r, how) ==
    /\ pc' = [pc EXCEPT ![r] = how]
    /\ target' = [target EXCEPT ![r] = None]
    /\ mcp_lock' = IF mcp_lock = r THEN None ELSE mcp_lock

\* connect() raises: the server is not kept, and the next request tries again.
ConnectFails(r) ==
    /\ pc[r] = "connecting"
    /\ Leave(r, "raised")
    /\ UNCHANGED <<roles, handed, offered, queue, mcp_servers, open, life>>

\* The client of a stream leaves while its agent is being made.
Cancel(r) ==
    /\ r \in Streams
    /\ \/ /\ pc[r] = "waiting"
          /\ \E i \in DOMAIN queue : queue[i] = r /\ queue' = RemoveAt(queue, i)
       \/ pc[r] = "connecting" /\ UNCHANGED queue
    /\ Leave(r, "cancelled")
    /\ UNCHANGED <<roles, handed, offered, mcp_servers, open, life>>
-----------------------------------------------------------------------------
\* The run asks its agent for its tools (Agent.get_all_tools).
ListTools(r) ==
    /\ pc[r] = "created"
    /\ offered' = [offered EXCEPT ![r] =
          Bound(r) \cup UNION {{<<t, h[1]>> : t \in {t \in McpTools[h[1]] : Filter(r, h[1], t)}} :
                                  h \in handed[r]}]
    /\ pc' = [pc EXCEPT ![r] = "running"]
    /\ UNCHANGED <<roles, target, handed, mcp_lock, queue, mcp_servers, open, life>>

EndRun(r) ==
    /\ pc[r] = "running"
    /\ pc' = [pc EXCEPT ![r] = "done"]
    /\ UNCHANGED <<roles, target, handed, offered, mcp_lock, queue, mcp_servers, open, life>>
-----------------------------------------------------------------------------
(***************************************************************************)
(* close(): the server has let its requests end before the lifespan does.  *)
(***************************************************************************)
Close ==
    /\ life = "up" /\ \A r \in Requests : pc[r] \in Ended \cup {"new"}
    /\ life' = "closing"
    /\ mcp_lock' = "close"
    /\ UNCHANGED <<roles, pc, target, handed, offered, queue, mcp_servers, open>>

Kept == {<<s, mcp_servers[s]>> : s \in {s \in Servers : mcp_servers[s] # None}}

\* The loop's next server.  Their order is of no consequence.
CleanUp ==
    /\ life = "closing"
    /\ \E c \in Kept \cap open : open' = open \ {c}
    /\ UNCHANGED <<roles, pc, target, handed, offered, mcp_lock, queue, mcp_servers, life>>

\* A cleanup raises: the others are not cleaned up.
CleanUpFails ==
    /\ life = "closing" /\ Kept \cap open # {}
    /\ life' = "broken" /\ mcp_lock' = None
    /\ UNCHANGED <<roles, pc, target, handed, offered, queue, mcp_servers, open>>

CloseEnds ==
    /\ life = "closing" /\ Kept \cap open = {}
    /\ life' = "closed" /\ mcp_lock' = None
    /\ mcp_servers' = [s \in Servers |-> None]
    /\ UNCHANGED <<roles, pc, target, handed, offered, queue, open>>

Over == life \in {"closed", "broken"} /\ UNCHANGED vars

Making(r) == Acquire(r) \/ Connected(r) \/ ConnectFails(r) \/ ListTools(r) \/ EndRun(r)

Next ==
    \/ \E r \in Requests : Create(r) \/ Making(r) \/ Cancel(r)
    \/ Close \/ CleanUp \/ CleanUpFails \/ CloseEnds \/ Over

Spec == Init /\ [][Next]_vars

\* connect() has a timeout, and runs end.
FairSpec == Spec /\ \A r \in Requests : WF_vars(Making(r))
-----------------------------------------------------------------------------
Offers ==
    (Names \cup UNION {McpTools[s] : s \in Servers}) \X (Names \cup {None})

TypeOK ==
    /\ roles \in [Requests -> SUBSET Roles]
    /\ pc \in [Requests -> Stages]
    /\ target \in [Requests -> Servers \cup {None}]
    /\ handed \in [Requests -> SUBSET (Servers \X Requests)]
    /\ offered \in [Requests -> SUBSET Offers]
    /\ mcp_lock \in Requests \cup {"close", None}
    /\ queue \in Seq(Requests)
    /\ mcp_servers \in [Servers -> Requests \cup {None}]
    /\ open \subseteq Servers \X Requests
    /\ life \in {"up", "closing", "closed", "broken"}
-----------------------------------------------------------------------------
\* However many requests want a server at the same time, and whichever of them
\* fail or are cancelled, it is connected once.
OneConnection == \A c, d \in open : c[1] = d[1] => c = d

\* The agent of a run has an open connection to every server its caller may use.
HandedAllConnected ==
    \A r \in Requests : pc[r] \in {"created", "running"} =>
        /\ {h[1] : h \in handed[r]} = Wanted(r)
        /\ handed[r] \subseteq open

\* Callers of different roles share a server and its list of tools: a run is
\* still offered only those that a role of its own caller opens.
ServersByOwnRoles ==
    \A r \in Requests : \A o \in offered[r] : o[2] \in Servers =>
        /\ IsEnabled(r, o[2])
        /\ \/ o[1] \notin DOMAIN Catalog[o[2]].tools
           \/ Catalog[o[2]].tools[o[1]] = {}
           \/ HasRole(r, Catalog[o[2]].tools[o[1]])

\* A subagent is no way around the roles of a tool, nor to one that is off.
SubagentsAddNothing ==
    \A r \in Requests : \A o \in offered[r] :
        o[2] \in Subagents => IsEnabled(r, o[1]) /\ <<o[1], None>> \in offered[r]

\* The application goes down without a connection left, unless a cleanup fails.
AllCleanedUp == life = "closed" => open = {}

\* No way out of _connect_mcp keeps the lock: every create() ends.
EveryCreateEnds ==
    \A r \in Requests : pc[r] = "waiting" ~> pc[r] \in {"created", "running"} \cup Ended
-----------------------------------------------------------------------------
(***************************************************************************)
(* AgentFactory implements ServerPool.                                     *)
(***************************************************************************)
Using(r) == pc[r] \in {"created", "running"}

Pool == INSTANCE ServerPool WITH
    uses    <- [r \in Requests |-> IF Using(r) THEN handed[r] ELSE {}],
    serving <- life = "up"

\* The servers are one pool of connections, which changes as ServerPool says:
\* whatever fails or is cancelled under _mcp_lock, no second connection to a
\* server comes up and none goes down under a run that has been given it.
ImplementsPool == Pool!Spec
=============================================================================
