------------------------- MODULE AgentFactoryProofs -------------------------
(***************************************************************************)
(* Proofs about AgentFactory, for any requests, roles, catalog of tools    *)
(* and MCP servers.                                                        *)
(***************************************************************************)
EXTENDS AgentFactory, TLAPS

\* _mcp_servers has every connection; until the application goes down it has
\* nothing else.
PoolInv ==
    /\ \A c \in open : mcp_servers[c[1]] = c[2]
    /\ life = "up" => \A s \in Servers :
          mcp_servers[s] # None => <<s, mcp_servers[s]>> \in open

\* Who connects a server holds the lock, and nobody has connected it.
LockInv ==
    \A r \in Requests : pc[r] = "connecting" =>
        /\ mcp_lock = r
        /\ target[r] \in Wanted(r) /\ mcp_servers[target[r]] = None

\* Who waits is in the queue once.
QueueInv ==
    /\ \A i \in DOMAIN queue : pc[queue[i]] = "waiting"
    /\ \A i, j \in DOMAIN queue : queue[i] = queue[j] => i = j

LifeInv == life # "up" => \A r \in Requests : pc[r] \in Ended \cup {"new"}

\* What an agent was handed is still what is kept.
HandedInv ==
    \A r \in Requests : pc[r] \in {"created", "running"} =>
        /\ handed[r] = {<<s, mcp_servers[s]>> : s \in Wanted(r)}
        /\ \A s \in Wanted(r) : mcp_servers[s] # None

IInv ==
    /\ TypeOK /\ PoolInv /\ LockInv /\ QueueInv /\ LifeInv /\ HandedInv
    /\ ServersByOwnRoles /\ SubagentsAddNothing /\ AllCleanedUp
-----------------------------------------------------------------------------
LEMMA KindsApart ==
    /\ Servers \subseteq Names /\ None \notin Servers
    /\ \A n \in Servers : n \notin Subagents
    BY NoneIsNothing DEF Servers, Subagents, Names

LEMMA OffersStay ==
    ASSUME ServersByOwnRoles, SubagentsAddNothing, UNCHANGED <<roles, offered>>
    PROVE  ServersByOwnRoles' /\ SubagentsAddNothing'
    <1>1. ServersByOwnRoles'
        BY DEF ServersByOwnRoles, IsEnabled, HasRole
    <1>2. SubagentsAddNothing'
        BY DEF SubagentsAddNothing, IsEnabled, HasRole
    <1> QED BY <1>1, <1>2

LEMMA InitOK == Init => IInv
    <1> SUFFICES ASSUME Init PROVE IInv
        OBVIOUS
    <1>1. TypeOK
        BY DEF Init, TypeOK, Stages
    <1>2. PoolInv /\ LockInv /\ QueueInv /\ LifeInv /\ HandedInv
        BY DEF Init, PoolInv, LockInv, QueueInv, LifeInv, HandedInv
    <1>3. ServersByOwnRoles /\ SubagentsAddNothing /\ AllCleanedUp
        BY DEF Init, ServersByOwnRoles, SubagentsAddNothing, AllCleanedUp
    <1> QED BY <1>1, <1>2, <1>3 DEF IInv

(***************************************************************************)
(* Waiting queues.                                                         *)
(***************************************************************************)
LEMMA TailOfQueue ==
    ASSUME NEW S, NEW q \in Seq(S), q # << >>
    PROVE  /\ Tail(q) \in Seq(S) /\ Head(q) \in S /\ Head(q) = q[1] /\ 1 \in DOMAIN q
           /\ Len(Tail(q)) = Len(q) - 1
           /\ \A i \in DOMAIN Tail(q) :
                 i + 1 \in DOMAIN q /\ i + 1 # 1 /\ Tail(q)[i] = q[i + 1]
    OBVIOUS

\* Where the i-th of the others comes from.
Source(i, p) == IF i < p THEN i ELSE i + 1

\* RemoveAt keeps the others, each from a position of its own.
LEMMA RemoveAtKeeps ==
    ASSUME NEW S, NEW q \in Seq(S), NEW p \in DOMAIN q
    PROVE  /\ RemoveAt(q, p) \in Seq(S)
           /\ Len(RemoveAt(q, p)) = Len(q) - 1
           /\ \A i \in DOMAIN RemoveAt(q, p) :
                 /\ Source(i, p) \in DOMAIN q /\ Source(i, p) # p
                 /\ RemoveAt(q, p)[i] = q[Source(i, p)]
    <1>1. p \in 1..Len(q) /\ Len(q) \in Nat
        OBVIOUS
    <1> DEFINE front == SubSeq(q, 1, p - 1)
               back  == SubSeq(q, p + 1, Len(q))
    <1>2. front \in Seq(S) /\ Len(front) = p - 1
        BY <1>1
    <1>3. back \in Seq(S) /\ Len(back) = Len(q) - p
        BY <1>1
    <1>4. \A i \in 1..(p - 1) : front[i] = q[i]
        BY <1>1
    <1>5. \A i \in 1..(Len(q) - p) : back[i] = q[p + i]
        BY <1>1
    <1>6. RemoveAt(q, p) = front \o back
        BY DEF RemoveAt
    <1> HIDE DEF front, back
    <1>7. front \o back \in Seq(S) /\ Len(front \o back) = Len(q) - 1
        BY <1>1, <1>2, <1>3
    <1>8. ASSUME NEW i \in DOMAIN (front \o back)
          PROVE  /\ Source(i, p) \in DOMAIN q /\ Source(i, p) # p
                 /\ (front \o back)[i] = q[Source(i, p)]
        <2>1. i \in 1..(Len(q) - 1)
            BY <1>7
        <2>2. CASE i < p
            <3>1. (front \o back)[i] = front[i]
                BY <1>1, <1>2, <1>3, <2>1, <2>2
            <3> QED BY <1>1, <1>4, <2>1, <2>2, <3>1 DEF Source
        <2>3. CASE ~(i < p)
            <3>1. (front \o back)[i] = back[i - (p - 1)]
                BY <1>1, <1>2, <1>3, <2>1, <2>3
            <3>2. back[i - (p - 1)] = q[i + 1]
                BY <1>1, <1>5, <2>1, <2>3
            <3> QED BY <1>1, <2>1, <2>3, <3>1, <3>2 DEF Source
        <2> QED BY <2>2, <2>3
    <1> QED BY <1>6, <1>7, <1>8
-----------------------------------------------------------------------------
(***************************************************************************)
(* Proceed, from where nobody else connects.                               *)
(***************************************************************************)
LEMMA ProceedOK ==
    ASSUME IInv, NEW r \in Requests, Proceed(r), life = "up",
           UNCHANGED <<roles, offered, life>>,
           open' \subseteq Servers \X Requests,
           mcp_servers' \in [Servers -> Requests \cup {None}],
           \A s \in Servers : mcp_servers[s] # None => mcp_servers'[s] = mcp_servers[s],
           PoolInv',
           \A q \in Requests : q # r => pc[q] # "connecting",
           queue' \in Seq(Requests),
           \A i \in DOMAIN queue' : queue'[i] # r /\ pc[queue'[i]] = "waiting",
           \A i, j \in DOMAIN queue' : queue'[i] = queue'[j] => i = j
    PROVE  IInv'
    <1> USE DEF IInv
    <1>1. \A q \in Requests : Wanted(q)' = Wanted(q)
        BY DEF Wanted, IsEnabled, HasRole
    <1>2. \A q \in Requests : Wanted(q) \subseteq Servers
        BY DEF Wanted
    <1>3. /\ pc'[r] \in {"connecting", "created"}
          /\ pc' = [pc EXCEPT ![r] = pc'[r]]
          /\ \A q \in Requests : q # r => pc'[q] = pc[q] /\ handed'[q] = handed[q]
        BY DEF Proceed, TypeOK
    <1>4. pc'[r] = "connecting" =>
              /\ target'[r] \in Wanted(r) /\ mcp_servers'[target'[r]] = None
              /\ mcp_lock' = r
        BY DEF Proceed, Missing, TypeOK
    <1>5. pc'[r] = "created" =>
              /\ handed'[r] = {<<s, mcp_servers'[s]>> : s \in Wanted(r)}
              /\ \A s \in Wanted(r) : mcp_servers'[s] # None
        BY DEF Proceed, Missing, TypeOK
    <1>6. TypeOK'
        <2>1. CASE \E s \in Missing(r) :
                      /\ target' = [target EXCEPT ![r] = s]
                      /\ pc' = [pc EXCEPT ![r] = "connecting"]
                      /\ mcp_lock' = r
                      /\ UNCHANGED handed
            BY <1>2, <2>1 DEF TypeOK, Missing, Stages
        <2>2. CASE /\ Missing(r) = {}
                   /\ handed' = [handed EXCEPT
                          ![r] = {<<s, mcp_servers'[s]>> : s \in Wanted(r)}]
                   /\ target' = [target EXCEPT ![r] = None]
                   /\ pc' = [pc EXCEPT ![r] = "created"]
                   /\ mcp_lock' = None
            <3>1. {<<s, mcp_servers'[s]>> : s \in Wanted(r)} \in SUBSET (Servers \X Requests)
                BY <1>2, <2>2 DEF Missing
            <3> QED BY <2>2, <3>1 DEF TypeOK, Stages
        <2> QED BY <2>1, <2>2 DEF Proceed
    <1>7. LockInv'
        BY <1>1, <1>3, <1>4 DEF LockInv
    <1>8. QueueInv'
        BY <1>3 DEF QueueInv
    <1>9. LifeInv'
        BY DEF LifeInv
    <1>10. HandedInv'
        <2> SUFFICES ASSUME NEW q \in Requests, pc'[q] \in {"created", "running"}
                     PROVE  /\ handed'[q] = {<<s, mcp_servers'[s]>> : s \in Wanted(q)}
                            /\ \A s \in Wanted(q) : mcp_servers'[s] # None
            BY <1>1 DEF HandedInv
        <2>1. CASE q = r
            BY <1>3, <1>5, <2>1
        <2>2. CASE q # r
            <3>1. \A s \in Wanted(q) : mcp_servers[s] # None /\ mcp_servers'[s] = mcp_servers[s]
                BY <1>2, <1>3, <2>2 DEF HandedInv
            <3> QED BY <1>3, <2>2, <3>1 DEF HandedInv
        <2> QED BY <2>1, <2>2
    <1>11. ServersByOwnRoles' /\ SubagentsAddNothing'
        BY OffersStay
    <1>12. AllCleanedUp'
        BY DEF AllCleanedUp
    <1> QED BY <1>6, <1>7, <1>8, <1>9, <1>10, <1>11, <1>12

LEMMA CreateOK == ASSUME IInv, NEW r \in Requests, Create(r) PROVE IInv'
    <1> USE DEF IInv
    <1>1. /\ life = "up" /\ pc[r] = "new"
          /\ UNCHANGED <<roles, offered, mcp_servers, open, life>>
        BY DEF Create
    <1>2. \A i \in DOMAIN queue : queue[i] # r
        BY <1>1 DEF QueueInv
    <1>3. CASE mcp_lock = None /\ queue = << >>
        <2>1. Proceed(r) /\ UNCHANGED queue
            BY <1>3 DEF Create, EnterOrWait
        <2>2. \A q \in Requests : pc[q] # "connecting"
            BY <1>3, NoneIsNothing DEF LockInv
        <2>3. PoolInv'
            BY <1>1 DEF PoolInv
        <2> QED BY <1>1, <1>2, <2>1, <2>2, <2>3, ProceedOK DEF TypeOK, QueueInv
    <1>4. CASE ~(mcp_lock = None /\ queue = << >>)
        <2>1. /\ queue' = Append(queue, r) /\ pc' = [pc EXCEPT ![r] = "waiting"]
              /\ UNCHANGED <<mcp_lock, target, handed>>
            BY <1>4 DEF Create, EnterOrWait
        <2>2. TypeOK'
            BY <1>1, <2>1 DEF TypeOK, Stages
        <2>3. QueueInv'
            <3>1. /\ Len(queue') = Len(queue) + 1 /\ queue'[Len(queue) + 1] = r
                  /\ \A i \in 1..Len(queue) : queue'[i] = queue[i]
                  /\ DOMAIN queue = 1..Len(queue) /\ DOMAIN queue' = 1..(Len(queue) + 1)
                  /\ Len(queue) \in Nat
                BY <2>1 DEF TypeOK
            <3>2. \A q \in Requests : q # r => pc'[q] = pc[q]
                BY <2>1 DEF TypeOK
            <3>3. pc'[r] = "waiting"
                BY <2>1 DEF TypeOK
            <3>4. \A i \in 1..Len(queue) : queue[i] \in Requests
                BY DEF TypeOK
            <3> QED BY <1>2, <3>1, <3>2, <3>3, <3>4 DEF QueueInv
        <2>4. LockInv' /\ HandedInv'
            BY <1>1, <2>1 DEF LockInv, HandedInv, TypeOK, Wanted, IsEnabled, HasRole
        <2>5. PoolInv' /\ LifeInv' /\ AllCleanedUp'
            BY <1>1 DEF PoolInv, LifeInv, AllCleanedUp
        <2>6. ServersByOwnRoles' /\ SubagentsAddNothing'
            BY <1>1, OffersStay
        <2> QED BY <2>2, <2>3, <2>4, <2>5, <2>6
    <1> QED BY <1>3, <1>4

LEMMA AcquireOK == ASSUME IInv, NEW r \in Requests, Acquire(r) PROVE IInv'
    <1> USE DEF IInv
    <1>1. /\ mcp_lock = None /\ queue # << >> /\ Head(queue) = r
          /\ queue' = Tail(queue) /\ Proceed(r)
          /\ UNCHANGED <<roles, offered, mcp_servers, open, life>>
        BY DEF Acquire
    <1>2. queue \in Seq(Requests)
        BY DEF TypeOK
    <1>3. /\ queue' \in Seq(Requests) /\ queue[1] = r /\ 1 \in DOMAIN queue
          /\ \A i \in DOMAIN queue' :
                i + 1 \in DOMAIN queue /\ i + 1 # 1 /\ queue'[i] = queue[i + 1]
        BY <1>1, <1>2, TailOfQueue
    <1>4. life = "up"
        BY <1>3 DEF LifeInv, QueueInv, Ended
    <1>5. \A q \in Requests : pc[q] # "connecting"
        BY <1>1, NoneIsNothing DEF LockInv
    <1>6. \A i \in DOMAIN queue' : queue'[i] # r /\ pc[queue'[i]] = "waiting"
        BY <1>3 DEF QueueInv
    <1>7. \A i, j \in DOMAIN queue' : queue'[i] = queue'[j] => i = j
        <2>1. \A i \in DOMAIN queue' : i \in Nat
            BY <1>3
        <2> QED BY <1>3, <2>1 DEF QueueInv
    <1>8. PoolInv'
        BY <1>1 DEF PoolInv
    <1> QED BY <1>1, <1>3, <1>4, <1>5, <1>6, <1>7, <1>8, ProceedOK DEF TypeOK

LEMMA ConnectedOK == ASSUME IInv, NEW r \in Requests, Connected(r) PROVE IInv'
    <1> USE DEF IInv
    <1> DEFINE s == target[r]
    <1>1. /\ pc[r] = "connecting" /\ open' = open \cup {<<s, r>>}
          /\ mcp_servers' = [mcp_servers EXCEPT ![s] = r] /\ Proceed(r)
          /\ UNCHANGED <<roles, offered, queue, life>>
        BY DEF Connected, Keep
    <1>2. mcp_lock = r /\ s \in Servers /\ mcp_servers[s] = None
        BY <1>1 DEF LockInv, Wanted
    <1>3. life = "up"
        BY <1>1 DEF LifeInv, Ended
    <1>4. /\ mcp_servers' \in [Servers -> Requests \cup {None}]
          /\ open' \subseteq Servers \X Requests
        BY <1>1, <1>2 DEF TypeOK
    <1>5. mcp_servers'[s] = r /\ \A u \in Servers : u # s => mcp_servers'[u] = mcp_servers[u]
        BY <1>1, <1>2 DEF TypeOK
    <1>6. PoolInv'
        <2>1. ASSUME NEW c \in open' PROVE mcp_servers'[c[1]] = c[2]
            <3>1. CASE c = <<s, r>>
                BY <1>5, <3>1
            <3>2. CASE c \in open
                <4>1. mcp_servers[c[1]] = c[2] /\ c[1] \in Servers /\ c[2] \in Requests
                    BY <3>2 DEF PoolInv, TypeOK
                <4> QED BY <1>2, <1>5, <4>1, NoneIsNothing
            <3> QED BY <1>1, <3>1, <3>2
        <2>2. ASSUME NEW u \in Servers, mcp_servers'[u] # None
              PROVE  <<u, mcp_servers'[u]>> \in open'
            BY <1>1, <1>3, <1>5, <2>2 DEF PoolInv
        <2> QED BY <2>1, <2>2 DEF PoolInv
    <1>7. \A q \in Requests : q # r => pc[q] # "connecting"
        BY <1>2 DEF LockInv
    <1>8. \A i \in DOMAIN queue' : queue'[i] # r /\ pc[queue'[i]] = "waiting"
        BY <1>1 DEF QueueInv
    <1>9. /\ queue' \in Seq(Requests)
          /\ \A i, j \in DOMAIN queue' : queue'[i] = queue'[j] => i = j
          /\ \A u \in Servers : mcp_servers[u] # None => mcp_servers'[u] = mcp_servers[u]
        BY <1>1, <1>2, <1>5 DEF QueueInv, TypeOK
    <1> HIDE DEF s
    <1> QED BY <1>1, <1>3, <1>4, <1>6, <1>7, <1>8, <1>9, ProceedOK
-----------------------------------------------------------------------------
(***************************************************************************)
(* The ways out of the lock.                                               *)
(***************************************************************************)
LEMMA LeaveOK ==
    ASSUME IInv, NEW r \in Requests, NEW how \in {"raised", "cancelled"}, Leave(r, how),
           UNCHANGED <<roles, handed, offered, mcp_servers, open, life>>,
           pc[r] \in {"waiting", "connecting"},
           queue' \in Seq(Requests),
           \A i \in DOMAIN queue' : queue'[i] # r /\ pc[queue'[i]] = "waiting",
           \A i, j \in DOMAIN queue' : queue'[i] = queue'[j] => i = j
    PROVE  IInv'
    <1> USE DEF IInv
    <1>1. /\ pc' = [pc EXCEPT ![r] = how] /\ target' = [target EXCEPT ![r] = None]
          /\ mcp_lock' = IF mcp_lock = r THEN None ELSE mcp_lock
        BY DEF Leave
    <1>2. TypeOK'
        BY <1>1 DEF TypeOK, Stages
    <1>3. /\ pc'[r] = how /\ how \in Ended
          /\ \A q \in Requests : q # r => pc'[q] = pc[q] /\ target'[q] = target[q]
        BY <1>1 DEF TypeOK, Ended
    <1>4. LockInv'
        <2> SUFFICES ASSUME NEW q \in Requests, pc'[q] = "connecting"
                     PROVE  /\ mcp_lock' = q /\ target'[q] \in Wanted(q)
                            /\ mcp_servers'[target'[q]] = None
            BY DEF LockInv, Wanted, IsEnabled, HasRole
        <2>1. q # r
            BY <1>3 DEF Ended
        <2> QED BY <1>1, <1>3, <2>1 DEF LockInv
    <1>5. QueueInv' /\ LifeInv'
        BY <1>3 DEF QueueInv, LifeInv
    <1>6. HandedInv'
        BY <1>3 DEF HandedInv, Wanted, IsEnabled, HasRole, Ended
    <1>7. PoolInv' /\ AllCleanedUp'
        BY DEF PoolInv, AllCleanedUp
    <1>8. ServersByOwnRoles' /\ SubagentsAddNothing'
        BY OffersStay
    <1> QED BY <1>2, <1>4, <1>5, <1>6, <1>7, <1>8

LEMMA ConnectFailsOK == ASSUME IInv, NEW r \in Requests, ConnectFails(r) PROVE IInv'
    <1> USE DEF IInv
    <1>1. \A i \in DOMAIN queue' : queue'[i] # r /\ pc[queue'[i]] = "waiting"
        BY DEF ConnectFails, QueueInv
    <1> QED BY <1>1, LeaveOK DEF ConnectFails, TypeOK, QueueInv

LEMMA CancelOK == ASSUME IInv, NEW r \in Requests, Cancel(r) PROVE IInv'
    <1> USE DEF IInv
    <1>1. /\ Leave(r, "cancelled")
          /\ UNCHANGED <<roles, handed, offered, mcp_servers, open, life>>
        BY DEF Cancel
    <1>2. CASE pc[r] = "connecting" /\ UNCHANGED queue
        <2>1. \A i \in DOMAIN queue' : queue'[i] # r /\ pc[queue'[i]] = "waiting"
            BY <1>2 DEF QueueInv
        <2> QED BY <1>1, <1>2, <2>1, LeaveOK DEF TypeOK, QueueInv
    <1>3. CASE /\ pc[r] = "waiting"
               /\ \E i \in DOMAIN queue : queue[i] = r /\ queue' = RemoveAt(queue, i)
        <2>1. PICK p \in DOMAIN queue : queue[p] = r /\ queue' = RemoveAt(queue, p)
            BY <1>3
        <2>2. queue \in Seq(Requests) /\ p \in Nat
            BY DEF TypeOK
        <2>3. /\ queue' \in Seq(Requests)
              /\ \A i \in DOMAIN queue' :
                    /\ Source(i, p) \in DOMAIN queue /\ Source(i, p) # p
                    /\ queue'[i] = queue[Source(i, p)]
            BY <2>1, <2>2, RemoveAtKeeps
        <2>4. \A i \in DOMAIN queue' : queue'[i] # r /\ pc[queue'[i]] = "waiting"
            BY <2>1, <2>3 DEF QueueInv
        <2>5. \A i, j \in DOMAIN queue' : queue'[i] = queue'[j] => i = j
            <3>1. \A i \in DOMAIN queue' : i \in Nat
                BY <2>3
            <3>2. \A i, j \in Nat : Source(i, p) = Source(j, p) => i = j
                BY <2>2 DEF Source
            <3> QED BY <2>3, <3>1, <3>2 DEF QueueInv
        <2> QED BY <1>1, <1>3, <2>3, <2>4, <2>5, LeaveOK
    <1> QED BY <1>2, <1>3 DEF Cancel
-----------------------------------------------------------------------------
LEMMA ListToolsOK == ASSUME IInv, NEW r \in Requests, ListTools(r) PROVE IInv'
    <1> USE DEF IInv
    <1> DEFINE through(h) == {<<t, h[1]>> : t \in {t \in McpTools[h[1]] : Filter(r, h[1], t)}}
               offer == Bound(r) \cup UNION {through(h) : h \in handed[r]}
    <1>1. /\ pc[r] = "created" /\ pc' = [pc EXCEPT ![r] = "running"]
          /\ offered' = [offered EXCEPT ![r] = offer]
          /\ UNCHANGED <<roles, target, handed, mcp_lock, queue, mcp_servers, open, life>>
        BY DEF ListTools
    <1>2. \A h \in handed[r] : h[1] \in Wanted(r)
        BY <1>1 DEF HandedInv
    <1>3. ASSUME NEW o \in Bound(r)
          PROVE  \/ o[2] = None /\ o = <<o[1], None>> /\ o[1] \in Names
                 \/ /\ o[2] \in Subagents /\ o = <<o[1], o[2]>> /\ o[1] \in Functions
                    /\ IsEnabled(r, o[1])
        BY DEF Bound, Nested, Functions, Subagents
    <1>4. ASSUME NEW o \in UNION {through(h) : h \in handed[r]}
          PROVE  /\ o = <<o[1], o[2]>> /\ o[2] \in Wanted(r)
                 /\ o[1] \in McpTools[o[2]] /\ Filter(r, o[2], o[1])
        BY <1>2
    <1> HIDE DEF through
    <1>5. Wanted(r) \subseteq Servers /\ \A n \in Wanted(r) : IsEnabled(r, n)
        BY DEF Wanted
    <1>6. offer \subseteq Offers
        BY <1>3, <1>4, <1>5, KindsApart DEF Offers, Functions, Subagents, Names
    <1>7. /\ offered'[r] = offer
          /\ \A q \in Requests : q # r => offered'[q] = offered[q]
        BY <1>1 DEF TypeOK
    <1>8. ASSUME NEW o \in offer, o[2] \in Servers
          PROVE  /\ IsEnabled(r, o[2])
                 /\ \/ o[1] \notin DOMAIN Catalog[o[2]].tools
                    \/ Catalog[o[2]].tools[o[1]] = {}
                    \/ HasRole(r, Catalog[o[2]].tools[o[1]])
        <2>1. o \notin Bound(r)
            BY <1>3, <1>8, KindsApart
        <2> QED BY <1>4, <1>5, <2>1 DEF Filter
    <1>9. ASSUME NEW o \in offer, o[2] \in Subagents
          PROVE  IsEnabled(r, o[1]) /\ <<o[1], None>> \in offer
        <2>1. o \in Bound(r)
            BY <1>4, <1>5, <1>9, KindsApart
        <2>2. o[1] \in Functions /\ IsEnabled(r, o[1])
            BY <1>3, <1>9, <2>1, NoneIsNothing DEF Subagents, Names
        <2>3. <<o[1], None>> \in Bound(r)
            BY <2>2 DEF Bound, Functions
        <2> QED BY <2>2, <2>3
    <1> HIDE DEF offer
    <1>10. TypeOK'
        BY <1>1, <1>6 DEF TypeOK, Stages
    <1>11. ServersByOwnRoles'
        <2>1. ASSUME NEW q \in Requests, NEW o \in offered'[q], o[2] \in Servers
              PROVE  /\ IsEnabled(q, o[2])
                     /\ \/ o[1] \notin DOMAIN Catalog[o[2]].tools
                        \/ Catalog[o[2]].tools[o[1]] = {}
                        \/ HasRole(q, Catalog[o[2]].tools[o[1]])
            <3>1. CASE q = r
                BY <1>7, <1>8, <2>1, <3>1
            <3>2. CASE q # r
                BY <1>7, <2>1, <3>2 DEF ServersByOwnRoles
            <3> QED BY <3>1, <3>2
        <2> QED BY <1>1, <2>1 DEF ServersByOwnRoles, IsEnabled, HasRole
    <1>12. SubagentsAddNothing'
        <2>1. ASSUME NEW q \in Requests, NEW o \in offered'[q], o[2] \in Subagents
              PROVE  IsEnabled(q, o[1]) /\ <<o[1], None>> \in offered'[q]
            <3>1. CASE q = r
                BY <1>7, <1>9, <2>1, <3>1
            <3>2. CASE q # r
                BY <1>7, <2>1, <3>2 DEF SubagentsAddNothing
            <3> QED BY <3>1, <3>2
        <2> QED BY <1>1, <2>1 DEF SubagentsAddNothing, IsEnabled, HasRole
    <1>13. PoolInv' /\ AllCleanedUp'
        BY <1>1 DEF PoolInv, AllCleanedUp
    <1>14. LockInv' /\ HandedInv'
        BY <1>1 DEF LockInv, HandedInv, Wanted, IsEnabled, HasRole, TypeOK
    <1>15. QueueInv' /\ LifeInv'
        BY <1>1 DEF QueueInv, LifeInv, TypeOK, Ended
    <1> QED BY <1>10, <1>11, <1>12, <1>13, <1>14, <1>15

LEMMA EndRunOK == ASSUME IInv, NEW r \in Requests, EndRun(r) PROVE IInv'
    <1> USE DEF IInv, EndRun
    <1>1. TypeOK'
        BY DEF TypeOK, Stages
    <1>2. LockInv' /\ HandedInv' /\ QueueInv' /\ LifeInv'
        BY DEF LockInv, HandedInv, QueueInv, LifeInv, Wanted, IsEnabled, HasRole, TypeOK, Ended
    <1>3. PoolInv' /\ AllCleanedUp'
        BY DEF PoolInv, AllCleanedUp
    <1>4. ServersByOwnRoles' /\ SubagentsAddNothing'
        BY OffersStay
    <1> QED BY <1>1, <1>2, <1>3, <1>4

(***************************************************************************)
(* close().                                                                *)
(***************************************************************************)
LEMMA CloseOK == ASSUME IInv, Close \/ CleanUp \/ CleanUpFails \/ CloseEnds PROVE IInv'
    <1> USE DEF IInv
    <1>1. /\ UNCHANGED <<roles, pc, target, handed, offered, queue>>
          /\ life' # "up" /\ (life # "up" \/ Close)
          /\ life' = "closed" => CloseEnds
          /\ mcp_lock' \in Requests \cup {"close", None}
          /\ life' \in {"up", "closing", "closed", "broken"}
        BY DEF Close, CleanUp, CleanUpFails, CloseEnds, TypeOK
    <1>2. \A r \in Requests : pc[r] \in Ended \cup {"new"}
        BY <1>1 DEF Close, LifeInv
    <1>3. /\ open' \subseteq open
          /\ mcp_servers' = mcp_servers \/ mcp_servers' = [s \in Servers |-> None]
        BY DEF Close, CleanUp, CleanUpFails, CloseEnds
    <1>4. CloseEnds => open' = {}
        <2> SUFFICES ASSUME CloseEnds, NEW c \in open PROVE FALSE
            BY DEF CloseEnds
        <2>1. c = <<c[1], c[2]>> /\ c[1] \in Servers /\ c[2] \in Requests
            BY DEF TypeOK
        <2>2. mcp_servers[c[1]] = c[2] /\ c[2] # None
            BY <2>1, NoneIsNothing DEF PoolInv
        <2>3. c \in Kept
            BY <2>1, <2>2 DEF Kept
        <2> QED BY <2>3 DEF CloseEnds
    <1>5. TypeOK'
        BY <1>1, <1>3 DEF TypeOK
    <1>6. PoolInv'
        <2>1. mcp_servers' = mcp_servers \/ open' = {}
            BY <1>4 DEF Close, CleanUp, CleanUpFails, CloseEnds
        <2> QED BY <1>1, <1>3, <2>1 DEF PoolInv
    <1>7. LockInv' /\ HandedInv'
        BY <1>1, <1>2 DEF LockInv, HandedInv, Ended
    <1>8. QueueInv' /\ LifeInv'
        BY <1>1, <1>2 DEF QueueInv, LifeInv
    <1>9. ServersByOwnRoles' /\ SubagentsAddNothing'
        BY <1>1, OffersStay
    <1>10. AllCleanedUp'
        BY <1>1, <1>4 DEF AllCleanedUp
    <1> QED BY <1>5, <1>6, <1>7, <1>8, <1>9, <1>10
-----------------------------------------------------------------------------
LEMMA StepOK == IInv /\ [Next]_vars => IInv'
    <1> SUFFICES ASSUME IInv, [Next]_vars PROVE IInv'
        OBVIOUS
    <1>1. ASSUME UNCHANGED vars PROVE IInv'
        <2> USE <1>1 DEF vars, IInv
        <2>1. TypeOK' /\ PoolInv' /\ QueueInv' /\ LifeInv' /\ AllCleanedUp'
            BY DEF TypeOK, PoolInv, QueueInv, LifeInv, AllCleanedUp
        <2>2. LockInv' /\ HandedInv'
            BY DEF LockInv, HandedInv, Wanted, IsEnabled, HasRole
        <2>3. ServersByOwnRoles' /\ SubagentsAddNothing'
            BY OffersStay
        <2> QED BY <2>1, <2>2, <2>3
    <1>2. ASSUME NEW r \in Requests, Create(r) \/ Cancel(r) PROVE IInv'
        BY <1>2, CreateOK, CancelOK
    <1>3. ASSUME NEW r \in Requests, Making(r) PROVE IInv'
        BY <1>3, AcquireOK, ConnectedOK, ConnectFailsOK, ListToolsOK, EndRunOK DEF Making
    <1> QED BY <1>1, <1>2, <1>3, CloseOK DEF Next, Over

\* The inductive invariant holds for any catalog and any number of requests.
THEOREM FactoryInvariant == Spec => []IInv
    BY InitOK, StepOK, PTL DEF Spec

\* create(), _connect_mcp and close() keep to their types.
THEOREM FactoryTypes == Spec => []TypeOK
    <1>1. IInv => TypeOK
        BY DEF IInv
    <1> QED BY <1>1, FactoryInvariant, PTL

\* _mcp_lock lets one request at a time connect a server: none is connected
\* twice, however many want it, fail to connect it or are cancelled.
THEOREM SingleConnection == Spec => []OneConnection
    <1>1. IInv => OneConnection
        BY DEF IInv, TypeOK, PoolInv, OneConnection
    <1> QED BY <1>1, FactoryInvariant, PTL

\* While an agent of create() runs, each server that its caller may use is
\* handed to it, and connected.
THEOREM ServersStayConnected == Spec => []HandedAllConnected
    <1>1. ASSUME IInv, NEW r \in Requests, pc[r] \in {"created", "running"}
          PROVE  {h[1] : h \in handed[r]} = Wanted(r) /\ handed[r] \subseteq open
        <2>1. life = "up" /\ Wanted(r) \subseteq Servers
            BY <1>1 DEF IInv, LifeInv, Ended, Wanted
        <2>2. /\ handed[r] = {<<s, mcp_servers[s]>> : s \in Wanted(r)}
              /\ \A s \in Wanted(r) : mcp_servers[s] # None
            BY <1>1 DEF IInv, HandedInv
        <2>3. handed[r] \subseteq open
            BY <1>1, <2>1, <2>2 DEF IInv, PoolInv
        <2>4. ASSUME NEW s \in Wanted(r) PROVE s \in {h[1] : h \in handed[r]}
            <3>1. <<s, mcp_servers[s]>> \in handed[r] /\ <<s, mcp_servers[s]>>[1] = s
                BY <2>2
            <3> QED BY <3>1
        <2>5. \A h \in handed[r] : h[1] \in Wanted(r)
            BY <2>2
        <2> QED BY <2>3, <2>4, <2>5
    <1>2. IInv => HandedAllConnected
        BY <1>1 DEF HandedAllConnected
    <1> QED BY <1>2, FactoryInvariant, PTL

\* _mcp_tool_filter goes by the roles of the run that lists the tools, whoever
\* connected the server.
THEOREM FilteredByOwnRoles == Spec => []ServersByOwnRoles
    <1>1. IInv => ServersByOwnRoles
        BY DEF IInv
    <1> QED BY <1>1, FactoryInvariant, PTL

\* A caller reaches through a subagent no tool that it does not have itself.
THEOREM NoWayAround == Spec => []SubagentsAddNothing
    <1>1. IInv => SubagentsAddNothing
        BY DEF IInv
    <1> QED BY <1>1, FactoryInvariant, PTL

\* close() leaves no connection, unless a cleanup raises.
THEOREM ClosesAll == Spec => []AllCleanedUp
    <1>1. IInv => AllCleanedUp
        BY DEF IInv
    <1> QED BY <1>1, FactoryInvariant, PTL
-----------------------------------------------------------------------------
(***************************************************************************)
(* AgentFactory implements ServerPool.                                     *)
(***************************************************************************)
\* A request's run has its connections while it is created or running.
UsesOf(p, h) == [r \in Requests |-> IF p[r] \in {"created", "running"} THEN h[r] ELSE {}]

LEMMA PoolIs ==
    /\ UNCHANGED Pool!vars <=>
          /\ open' = open /\ UsesOf(pc', handed') = UsesOf(pc, handed)
          /\ (life' = "up") = (life = "up")
    /\ \A r \in Requests : Pool!Give(r) <=>
          /\ UsesOf(pc, handed)[r] = {}
          /\ \E S \in SUBSET open' :
                UsesOf(pc', handed') = [UsesOf(pc, handed) EXCEPT ![r] = S]
    BY DEF Pool!vars, Pool!Give, UsesOf, Using

\* Only what r itself does changes what r uses.
LEMMA UsesOfOne ==
    ASSUME NEW r \in Requests, NEW p, NEW q, NEW g, NEW h,
           \A o \in Requests \ {r} : q[o] = p[o] /\ h[o] = g[o]
    PROVE  UsesOf(q, h) = [UsesOf(p, g) EXCEPT ![r] = UsesOf(q, h)[r]]
    BY DEF UsesOf

LEMMA PoolInit == Init => Pool!Init
    BY DEF Init, Pool!Init, Using

\* Who leaves _connect_mcp with all it wants is given open connections.
LEMMA ProceedGives ==
    ASSUME IInv, HandedAllConnected', NEW r \in Requests, Proceed(r),
           pc[r] \notin {"created", "running"}
    PROVE  Pool!Give(r)
    <1>1. /\ pc' = [pc EXCEPT ![r] = pc'[r]] /\ pc'[r] \in {"connecting", "created"}
          /\ \A o \in Requests \ {r} : pc'[o] = pc[o] /\ handed'[o] = handed[o]
        BY DEF Proceed, IInv, TypeOK
    <1>2. UsesOf(pc', handed') = [UsesOf(pc, handed) EXCEPT ![r] = UsesOf(pc', handed')[r]]
        BY <1>1, UsesOfOne
    <1>3. UsesOf(pc', handed')[r] \in SUBSET open'
        BY <1>1 DEF UsesOf, HandedAllConnected
    <1>4. UsesOf(pc, handed)[r] = {}
        BY DEF UsesOf
    <1> QED BY <1>2, <1>3, <1>4, PoolIs

LEMMA CreateInPool ==
    ASSUME IInv, HandedAllConnected', NEW r \in Requests, Create(r)
    PROVE  Pool!Next \/ UNCHANGED Pool!vars
    <1>1. life = "up" /\ pc[r] = "new" /\ UNCHANGED <<open, life>>
        BY DEF Create
    <1>2. CASE Proceed(r)
        <2>1. Pool!Reuse(r)
            BY <1>1, <1>2, ProceedGives DEF Pool!Reuse
        <2> QED BY <2>1 DEF Pool!Next
    <1>3. CASE pc' = [pc EXCEPT ![r] = "waiting"] /\ UNCHANGED handed
        <2>1. UsesOf(pc', handed') = UsesOf(pc, handed)
            BY <1>1, <1>3 DEF UsesOf, IInv, TypeOK
        <2> QED BY <1>1, <2>1, PoolIs
    <1> QED BY <1>2, <1>3 DEF Create, EnterOrWait

LEMMA AcquireInPool ==
    ASSUME IInv, HandedAllConnected', NEW r \in Requests, Acquire(r)
    PROVE  Pool!Next \/ UNCHANGED Pool!vars
    <1>1. pc[r] = "waiting"
        BY TailOfQueue DEF Acquire, IInv, TypeOK, QueueInv
    <1>2. life = "up"
        BY <1>1 DEF IInv, LifeInv, Ended
    <1>3. Pool!Reuse(r)
        BY <1>1, <1>2, ProceedGives DEF Acquire, Pool!Reuse
    <1> QED BY <1>3 DEF Pool!Next

LEMMA ConnectedInPool ==
    ASSUME IInv, HandedAllConnected', NEW r \in Requests, Connected(r)
    PROVE  Pool!Next \/ UNCHANGED Pool!vars
    <1>1. /\ pc[r] = "connecting" /\ Proceed(r) /\ UNCHANGED life
          /\ open' = open \cup {<<target[r], r>>}
        BY DEF Connected
    <1>2. target[r] \in Servers /\ mcp_servers[target[r]] = None
        BY <1>1 DEF IInv, LockInv, Wanted
    <1>3. \A c \in open : c[1] # target[r]
        BY <1>2, NoneIsNothing DEF IInv, PoolInv, TypeOK
    <1>4. life = "up"
        BY <1>1 DEF IInv, LifeInv, Ended
    <1>5. Pool!Connect(target[r], r)
        BY <1>1, <1>3, <1>4, ProceedGives DEF Pool!Connect
    <1> QED BY <1>2, <1>5 DEF Pool!Next

\* What fails, is cancelled, lists its tools or ends takes up nothing.
LEMMA RunInPool ==
    ASSUME IInv, NEW r \in Requests,
           ConnectFails(r) \/ Cancel(r) \/ ListTools(r) \/ EndRun(r)
    PROVE  Pool!Next \/ UNCHANGED Pool!vars
    <1>1. UNCHANGED <<open, life, handed>>
        BY DEF ConnectFails, Cancel, ListTools, EndRun
    <1>2. CASE ConnectFails(r) \/ Cancel(r) \/ ListTools(r)
        <2>1. UsesOf(pc', handed') = UsesOf(pc, handed)
            BY <1>1, <1>2 DEF ConnectFails, Cancel, ListTools, Leave, UsesOf, IInv, TypeOK
        <2> QED BY <1>1, <2>1, PoolIs
    <1>3. CASE EndRun(r)
        <2>1. UsesOf(pc', handed') = [UsesOf(pc, handed) EXCEPT ![r] = {}]
            BY <1>1, <1>3 DEF EndRun, UsesOf, IInv, TypeOK
        <2>2. Pool!Release(r)
            BY <1>1, <2>1 DEF Pool!Release, UsesOf, Using
        <2> QED BY <2>2 DEF Pool!Next
    <1> QED BY <1>2, <1>3

LEMMA CloseInPool ==
    ASSUME IInv, Close \/ CleanUp \/ CleanUpFails \/ CloseEnds
    PROVE  Pool!Next \/ UNCHANGED Pool!vars
    <1>1. UNCHANGED <<pc, handed>> /\ life' # "up" /\ (life # "up" \/ Close)
        BY DEF Close, CleanUp, CleanUpFails, CloseEnds
    <1>2. \A r \in Requests : pc[r] \notin {"created", "running"}
        BY <1>1 DEF IInv, LifeInv, Close, Ended
    <1>3. UsesOf(pc', handed') = UsesOf(pc, handed)
        BY <1>1
    <1>4. CASE Close
        <2>1. Pool!Stop
            BY <1>1, <1>2, <1>3, <1>4 DEF Pool!Stop, Close, UsesOf, Using
        <2> QED BY <2>1 DEF Pool!Next
    <1>5. CASE CleanUp
        <2>1. PICK c \in open : open' = open \ {c} /\ life = "closing" /\ UNCHANGED life
            BY <1>5 DEF CleanUp
        <2>2. Pool!Disconnect(c)
            BY <1>1, <1>2, <1>3, <2>1 DEF Pool!Disconnect, UsesOf, Using
        <2> QED BY <2>2 DEF Pool!Next
    <1>6. CASE CleanUpFails \/ CloseEnds
        BY <1>1, <1>3, <1>6, PoolIs DEF CleanUpFails, CloseEnds
    <1> QED BY <1>4, <1>5, <1>6

LEMMA PoolStep ==
    ASSUME IInv, HandedAllConnected', [Next]_vars
    PROVE  Pool!Next \/ UNCHANGED Pool!vars
    <1>1. ASSUME UNCHANGED vars PROVE UNCHANGED Pool!vars
        BY <1>1, PoolIs DEF vars
    <1>2. ASSUME NEW r \in Requests, Create(r) \/ Making(r) \/ Cancel(r)
          PROVE  Pool!Next \/ UNCHANGED Pool!vars
        BY <1>2, CreateInPool, AcquireInPool, ConnectedInPool, RunInPool DEF Making
    <1> QED BY <1>1, <1>2, CloseInPool DEF Next, Over

\* The servers of _mcp_servers implement ServerPool: whatever requests fail or
\* are cancelled under _mcp_lock, for any catalog and any number of them.
THEOREM FactoryImplementsPool == Spec => ImplementsPool
    <1>1. Spec => Pool!Spec
        BY PoolInit, PoolStep, FactoryInvariant, ServersStayConnected, PTL
        DEF Spec, Pool!Spec
    <1> QED BY <1>1 DEF ImplementsPool
-----------------------------------------------------------------------------
(***************************************************************************)
(* Who waits for _mcp_lock is not forgotten: the safety part of            *)
(* EveryCreateEnds.                                                        *)
(***************************************************************************)
\* Who waits is in the queue, and while the application is up the lock is held
\* only by a request that is about to have its server or to fail.
WaitInv == \A r \in Requests : pc[r] = "waiting" => \E i \in DOMAIN queue : queue[i] = r

HoldInv ==
    life = "up" /\ mcp_lock # None => mcp_lock \in Requests /\ pc[mcp_lock] = "connecting"

LEMMA RemoveAtLeaves ==
    ASSUME NEW S, NEW q \in Seq(S), NEW p \in DOMAIN q, NEW k \in DOMAIN q, k # p
    PROVE  \E i \in DOMAIN RemoveAt(q, p) : RemoveAt(q, p)[i] = q[k]
    <1>1. /\ p \in 1..Len(q) /\ k \in 1..Len(q) /\ Len(q) \in Nat
        OBVIOUS
    <1>2. DOMAIN RemoveAt(q, p) = 1..(Len(q) - 1)
        BY <1>1, RemoveAtKeeps
    <1>3. PICK i \in 1..(Len(q) - 1) : Source(i, p) = k
        <2>1. CASE k < p
            <3>1. k \in 1..(Len(q) - 1) /\ Source(k, p) = k
                BY <1>1, <2>1 DEF Source
            <3> QED BY <3>1
        <2>2. CASE ~(k < p)
            <3>1. k - 1 \in 1..(Len(q) - 1) /\ Source(k - 1, p) = k
                BY <1>1, <2>2 DEF Source
            <3> QED BY <3>1
        <2> QED BY <2>1, <2>2
    <1>4. i \in DOMAIN RemoveAt(q, p)
        BY <1>2
    <1>5. RemoveAt(q, p)[i] = q[Source(i, p)]
        BY <1>4, RemoveAtKeeps
    <1> QED BY <1>3, <1>4, <1>5

\* Others' places are kept while r waits no more.
LEMMA WaitersKept ==
    ASSUME IInv, WaitInv, NEW r \in Requests, NEW s, s # "waiting",
           pc' = [pc EXCEPT ![r] = s],
           \A k \in DOMAIN queue : queue[k] # r =>
              \E i \in DOMAIN queue' : queue'[i] = queue[k]
    PROVE  WaitInv'
    <1>1. pc'[r] # "waiting" /\ \A q \in Requests : q # r => pc'[q] = pc[q]
        BY DEF IInv, TypeOK
    <1> QED BY <1>1 DEF WaitInv

LEMMA ProceedWaits ==
    ASSUME IInv, WaitInv, NEW r \in Requests, Proceed(r),
           \A k \in DOMAIN queue : queue[k] # r =>
              \E i \in DOMAIN queue' : queue'[i] = queue[k]
    PROVE  WaitInv' /\ HoldInv'
    <1>1. PICK s \in {"connecting", "created"} : pc' = [pc EXCEPT ![r] = s]
        BY DEF Proceed
    <1>2. mcp_lock' = None \/ (mcp_lock' = r /\ pc' = [pc EXCEPT ![r] = "connecting"])
        BY DEF Proceed
    <1>3. HoldInv'
        BY <1>2 DEF HoldInv, IInv, TypeOK
    <1> QED BY <1>1, <1>3, WaitersKept

LEMMA LeaveWaits ==
    ASSUME IInv, WaitInv, HoldInv, NEW r \in Requests, UNCHANGED life,
           Leave(r, "raised") \/ Leave(r, "cancelled"),
           \A k \in DOMAIN queue : queue[k] # r =>
              \E i \in DOMAIN queue' : queue'[i] = queue[k]
    PROVE  WaitInv' /\ HoldInv'
    <1>1. PICK s \in {"raised", "cancelled"} : pc' = [pc EXCEPT ![r] = s]
        BY DEF Leave
    <1>2. mcp_lock' = (IF mcp_lock = r THEN None ELSE mcp_lock)
        BY DEF Leave
    <1>3. HoldInv'
        BY <1>1, <1>2 DEF HoldInv, IInv, TypeOK
    <1> QED BY <1>1, <1>3, WaitersKept

LEMMA WaitStep == IInv /\ WaitInv /\ HoldInv /\ [Next]_vars => (WaitInv /\ HoldInv)'
    <1> SUFFICES ASSUME IInv, WaitInv, HoldInv, [Next]_vars PROVE WaitInv' /\ HoldInv'
        OBVIOUS
    <1>1. ASSUME NEW r \in Requests, Create(r) PROVE WaitInv' /\ HoldInv'
        <2>1. CASE mcp_lock = None /\ queue = << >>
            <3>1. Proceed(r) /\ UNCHANGED queue
                BY <1>1, <2>1 DEF Create, EnterOrWait
            <3> QED BY <3>1, ProceedWaits
        <2>2. CASE ~(mcp_lock = None /\ queue = << >>)
            <3>1. /\ pc[r] = "new" /\ pc' = [pc EXCEPT ![r] = "waiting"]
                  /\ queue' = Append(queue, r) /\ UNCHANGED <<mcp_lock, life>>
                BY <1>1, <2>2 DEF Create, EnterOrWait
            <3>2. queue \in Seq(Requests) /\ Len(queue) \in Nat
                BY DEF IInv, TypeOK
            <3>3. /\ DOMAIN queue = 1..Len(queue) /\ DOMAIN queue' = 1..(Len(queue) + 1)
                  /\ \A i \in 1..Len(queue) : queue'[i] = queue[i]
                  /\ queue'[Len(queue) + 1] = r
                BY <3>1, <3>2
            <3>4. \A q \in Requests : q # r => pc'[q] = pc[q]
                BY <3>1 DEF IInv, TypeOK
            <3>5. ASSUME NEW q \in Requests, pc'[q] = "waiting"
                  PROVE  \E i \in DOMAIN queue' : queue'[i] = q
                <4>1. CASE q = r
                    <5>1. Len(queue) + 1 \in DOMAIN queue'
                        BY <3>2, <3>3
                    <5> QED BY <3>3, <4>1, <5>1
                <4>2. CASE q # r
                    <5>1. PICK i \in DOMAIN queue : queue[i] = q
                        BY <3>4, <3>5, <4>2 DEF WaitInv
                    <5>2. i \in DOMAIN queue'
                        BY <3>2, <3>3
                    <5> QED BY <3>3, <5>1, <5>2
                <4> QED BY <4>1, <4>2
            <3>6. HoldInv'
                BY <3>1, <3>4 DEF HoldInv
            <3> QED BY <3>5, <3>6 DEF WaitInv
        <2> QED BY <2>1, <2>2
    <1>2. ASSUME NEW r \in Requests, Acquire(r) PROVE WaitInv' /\ HoldInv'
        <2>1. queue # << >> /\ Head(queue) = r /\ queue' = Tail(queue) /\ Proceed(r)
            BY <1>2 DEF Acquire
        <2>2. queue \in Seq(Requests) /\ Len(queue) \in Nat /\ DOMAIN queue = 1..Len(queue)
            BY DEF IInv, TypeOK
        <2>3. ASSUME NEW k \in DOMAIN queue, queue[k] # r
              PROVE  \E i \in DOMAIN queue' : queue'[i] = queue[k]
            <3>1. k # 1 /\ k \in 1..Len(queue)
                BY <2>1, <2>2, <2>3
            <3>2. k - 1 \in DOMAIN queue' /\ queue'[k - 1] = queue[k]
                BY <2>1, <2>2, <3>1
            <3> QED BY <3>2
        <2> QED BY <2>1, <2>3, ProceedWaits
    <1>3. ASSUME NEW r \in Requests, Connected(r) PROVE WaitInv' /\ HoldInv'
        BY <1>3, ProceedWaits DEF Connected
    <1>4. ASSUME NEW r \in Requests, ConnectFails(r) PROVE WaitInv' /\ HoldInv'
        BY <1>4, LeaveWaits DEF ConnectFails
    <1>5. ASSUME NEW r \in Requests, Cancel(r) PROVE WaitInv' /\ HoldInv'
        <2>1. Leave(r, "cancelled") /\ UNCHANGED life
            BY <1>5 DEF Cancel
        <2>2. CASE UNCHANGED queue
            BY <2>1, <2>2, LeaveWaits
        <2>3. ASSUME NEW p \in DOMAIN queue, queue[p] = r, queue' = RemoveAt(queue, p)
              PROVE  WaitInv' /\ HoldInv'
            <3>1. queue \in Seq(Requests)
                BY DEF IInv, TypeOK
            <3>2. \A k \in DOMAIN queue : queue[k] # r =>
                     \E i \in DOMAIN queue' : queue'[i] = queue[k]
                BY <2>3, <3>1, RemoveAtLeaves
            <3> QED BY <2>1, <3>2, LeaveWaits
        <2> QED BY <1>5, <2>2, <2>3 DEF Cancel
    <1>6. ASSUME NEW r \in Requests, ListTools(r) \/ EndRun(r) PROVE WaitInv' /\ HoldInv'
        <2>1. /\ pc[r] \in {"created", "running"} /\ UNCHANGED <<mcp_lock, queue, life>>
              /\ \E s \in {"running", "done"} : pc' = [pc EXCEPT ![r] = s]
            BY <1>6 DEF ListTools, EndRun
        <2>2. WaitInv'
            BY <2>1, WaitersKept
        <2>3. HoldInv'
            BY <2>1 DEF HoldInv, IInv, TypeOK
        <2> QED BY <2>2, <2>3
    <1>7. CASE Close \/ CleanUp \/ CleanUpFails \/ CloseEnds
        BY <1>7 DEF Close, CleanUp, CleanUpFails, CloseEnds, WaitInv, HoldInv
    <1>8. CASE UNCHANGED vars
        BY <1>8 DEF vars, WaitInv, HoldInv
    <1> QED BY <1>1, <1>2, <1>3, <1>4, <1>5, <1>6, <1>7, <1>8 DEF Next, Making, Over

\* What a request waits for in create() is under way: another one connects a
\* server under the lock, or the lock is free and falls to the first who waits.
NobodyForgotten ==
    \A r \in Requests : pc[r] = "waiting" =>
        \/ mcp_lock \in Requests \ {r} /\ pc[mcp_lock] = "connecting"
        \/ mcp_lock = None /\ queue # << >> /\ pc[Head(queue)] = "waiting"

\* Connections that fail and clients that leave, in the queue or while they
\* connect, never strand the requests that wait for _mcp_lock.
THEOREM NoWaiterForgotten == Spec => []NobodyForgotten
    <1>1. Init => WaitInv /\ HoldInv
        BY DEF Init, WaitInv, HoldInv
    <1>2. IInv /\ WaitInv /\ HoldInv => NobodyForgotten
        <2> SUFFICES ASSUME IInv, WaitInv, HoldInv, NEW r \in Requests, pc[r] = "waiting"
                     PROVE  \/ mcp_lock \in Requests \ {r} /\ pc[mcp_lock] = "connecting"
                            \/ /\ mcp_lock = None /\ queue # << >>
                               /\ pc[Head(queue)] = "waiting"
            BY DEF NobodyForgotten
        <2>1. life = "up"
            BY DEF IInv, LifeInv, Ended
        <2>2. queue \in Seq(Requests) /\ queue # << >>
            BY DEF WaitInv, IInv, TypeOK
        <2>3. pc[Head(queue)] = "waiting"
            BY <2>2, TailOfQueue DEF IInv, QueueInv
        <2> QED BY <2>1, <2>2, <2>3 DEF HoldInv
    <1> QED BY <1>1, <1>2, WaitStep, FactoryInvariant, PTL DEF Spec
=============================================================================
