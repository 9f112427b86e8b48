-------------------------- MODULE SpanMirrorProofs --------------------------
(***************************************************************************)
(* Proofs about SpanMirror, for any requests, streams and spans.           *)
(***************************************************************************)
EXTENDS SpanMirror, TLAPS

\* Bindings nest: the outer one may find another value, an inner one finds the
\* task's own.  A task that is yet to be spawned has none.
BindingInv ==
    /\ \A t \in Tasks : tokens[t] # << >> =>
          /\ t \in alive /\ request_id[t] = t[1]
          /\ Len(tokens[t]) \in {1, 2}
          /\ Len(tokens[t]) = 2 => tokens[t][2] = t[1]
    /\ \A r \in Requests : mirror[r].state # "none" => mirror[r].by = r

\* A span is part of a trace that was started before it, and so is the mirror
\* that is the parent of its mirror.
StartedInv ==
    \A s \in Spans :
        /\ sdk[s] # "none" => of[s] \in Requests /\ sdk[of[s]] # "none"
        /\ mirror[s].parent \in Spans => sdk[mirror[s].parent] # "none"

InTrace(s) ==
    IF mirror[s].parent = None THEN mirror[of[s]].state \in {"none", "ended"}
                               ELSE TraceOf(mirror[s].parent) = of[s]

IInv == TypeOK /\ BindingInv /\ StartedInv /\ InItsTrace /\ EndedAsTheOriginal
-----------------------------------------------------------------------------
LEMMA RunnerIsATask == \A r \in Requests : Runner(r) \in Tasks /\ Runner(r)[1] = r
    BY DEF Runner, Tasks

LEMMA NodesApart ==
    /\ None \notin Nodes
    /\ \A x \in Nodes : x \in Requests <=> x \notin Spans
    BY NoneIsNothing DEF Nodes

LEMMA InitOK == Init => IInv
    <1> SUFFICES ASSUME Init PROVE IInv
        OBVIOUS
    <1>1. TypeOK
        BY NodesApart DEF Init, TypeOK, NoMirror, Tasks
    <1>2. BindingInv /\ StartedInv /\ InItsTrace /\ EndedAsTheOriginal
        BY NoneIsNothing
        DEF Init, BindingInv, StartedInv, InItsTrace, EndedAsTheOriginal, NoMirror, Nodes
    <1> QED BY <1>1, <1>2 DEF IInv

LEMMA BindOK == ASSUME IInv, NEW t \in Tasks, Bind(t) PROVE IInv'
    <1> USE DEF IInv, Bind, Set
    <1>1. t[1] \in Requests
        BY StreamsAreRequests DEF Tasks
    <1>2. /\ tokens[t] \in Seq(Requests \cup {None}) /\ Len(tokens[t]) \in {0, 1}
          /\ tokens'[t] = Append(tokens[t], request_id[t])
          /\ request_id[t] \in Requests \cup {None}
        <2>1. tokens[t] \in Seq(Requests \cup {None}) /\ request_id[t] \in Requests \cup {None}
            BY DEF TypeOK
        <2>2. tokens'[t] = Append(tokens[t], request_id[t])
            BY DEF TypeOK
        <2>3. Len(tokens[t]) \in {0, 1}
            <3>1. Len(tokens[t]) \in Nat /\ Len(tokens[t]) < 2
                BY <2>1
            <3>2. \A n \in Nat : n < 2 => n \in {0, 1}
                OBVIOUS
            <3> QED BY <3>1, <3>2
        <2> QED BY <2>1, <2>2, <2>3
    <1>3. TypeOK'
        BY <1>1, <1>2 DEF TypeOK
    <1>4. ASSUME NEW u \in Tasks, tokens'[u] # << >>
          PROVE  /\ u \in alive /\ request_id'[u] = u[1]
                 /\ Len(tokens'[u]) \in {1, 2}
                 /\ Len(tokens'[u]) = 2 => tokens'[u][2] = u[1]
        <2>1. CASE u = t
            <3>1. request_id'[t] = t[1] /\ Len(tokens'[t]) = Len(tokens[t]) + 1
                BY <1>2 DEF TypeOK
            <3>2. ASSUME Len(tokens[t]) = 1 PROVE tokens'[t][2] = t[1]
                BY <1>2, <3>2 DEF BindingInv
            <3> QED BY <1>2, <2>1, <3>1, <3>2
        <2>2. CASE u # t
            BY <1>4, <2>2 DEF BindingInv, TypeOK
        <2> QED BY <2>1, <2>2
    <1>5. BindingInv'
        BY <1>4 DEF BindingInv
    <1>6. (StartedInv /\ InItsTrace /\ EndedAsTheOriginal)'
        BY DEF StartedInv, InItsTrace, EndedAsTheOriginal, TraceOf
    <1> QED BY <1>3, <1>5, <1>6

LEMMA UnbindOK == ASSUME IInv, NEW t \in Tasks, Unbind(t) PROVE IInv'
    <1> USE DEF IInv, Unbind, Set
    <1> DEFINE last == tokens[t][Len(tokens[t])]
    <1>1. /\ tokens[t] \in Seq(Requests \cup {None}) /\ Len(tokens[t]) \in {1, 2}
          /\ Len(tokens[t]) = 2 => last = t[1]
        BY DEF TypeOK, BindingInv
    <1>2. /\ last \in Requests \cup {None}
          /\ SubSeq(tokens[t], 1, Len(tokens[t]) - 1) \in Seq(Requests \cup {None})
          /\ Len(SubSeq(tokens[t], 1, Len(tokens[t]) - 1)) = Len(tokens[t]) - 1
        BY <1>1
    <1>3. TypeOK'
        BY <1>2 DEF TypeOK
    <1>4. ASSUME NEW u \in Tasks, tokens'[u] # << >>
          PROVE  /\ u \in alive /\ request_id'[u] = u[1]
                 /\ Len(tokens'[u]) \in {1, 2}
                 /\ Len(tokens'[u]) = 2 => tokens'[u][2] = u[1]
        <2>1. CASE u = t
            <3>1. /\ tokens'[t] = SubSeq(tokens[t], 1, Len(tokens[t]) - 1)
                  /\ request_id'[t] = last
                BY DEF TypeOK
            <3>2. Len(tokens'[t]) = Len(tokens[t]) - 1 /\ Len(tokens'[t]) # 0
                BY <1>1, <1>2, <1>4, <2>1, <3>1
            <3>3. Len(tokens[t]) = 2 /\ Len(tokens'[t]) = 1
                BY <1>1, <3>2
            <3> QED BY <1>1, <2>1, <3>1, <3>3
        <2>2. CASE u # t
            BY <1>4, <2>2 DEF BindingInv, TypeOK
        <2> QED BY <2>1, <2>2
    <1>5. BindingInv'
        BY <1>4 DEF BindingInv
    <1>6. (StartedInv /\ InItsTrace /\ EndedAsTheOriginal)'
        BY DEF StartedInv, InItsTrace, EndedAsTheOriginal, TraceOf
    <1> QED BY <1>3, <1>5, <1>6

LEMMA SpawnOK == ASSUME IInv, NEW r \in Requests, Spawn(r) PROVE IInv'
    <1> USE DEF IInv, Spawn, Set
    <1>1. <<r, "producer">> \in Tasks /\ <<r, "serving">> \in Tasks
        BY DEF Tasks
    <1>2. TypeOK'
        BY <1>1 DEF TypeOK
    <1>3. BindingInv'
        BY <1>1 DEF BindingInv, TypeOK
    <1>4. (StartedInv /\ InItsTrace /\ EndedAsTheOriginal)'
        BY DEF StartedInv, InItsTrace, EndedAsTheOriginal, TraceOf
    <1> QED BY <1>2, <1>3, <1>4
-----------------------------------------------------------------------------
LEMMA TraceStartOK == ASSUME IInv, NEW r \in Requests, TraceStart(r) PROVE IInv'
    <1> USE DEF IInv
    <1>1. PICK fails \in BOOLEAN :
              Register(r, fails,
                  [state |-> "open", parent |-> None, by |-> request_id[Runner(r)]])
        BY DEF TraceStart
    <1>2. /\ sdk[r] = "none" /\ sdk' = [sdk EXCEPT ![r] = "open"]
          /\ UNCHANGED <<alive, request_id, tokens, of>>
        BY DEF TraceStart
    <1>3. request_id[Runner(r)] = r
        BY RunnerIsATask DEF TraceStart, BindingInv
    <1>4. \/ UNCHANGED <<mirror, tables>>
          \/ /\ mirror' = [mirror EXCEPT ![r] =
                    [state |-> "open", parent |-> None, by |-> r]]
             /\ tables' = tables \cup {r}
        BY <1>1, <1>3 DEF Register
    <1>5. r \in Nodes /\ mirror[r].state = "none" /\ r \notin tables
        BY <1>2 DEF TypeOK, EndedAsTheOriginal, Nodes
    <1>6. TypeOK'
        <2>1. sdk' \in [Nodes -> {"none", "open", "ended"}]
            BY <1>2, <1>5 DEF TypeOK
        <2>2. CASE UNCHANGED <<mirror, tables>>
            BY <1>2, <2>1, <2>2 DEF TypeOK
        <2>3. CASE /\ mirror' = [mirror EXCEPT ![r] =
                         [state |-> "open", parent |-> None, by |-> r]]
                   /\ tables' = tables \cup {r}
            BY <1>2, <1>5, <2>1, <2>3 DEF TypeOK
        <2> QED BY <1>4, <2>2, <2>3
    <1>7. BindingInv'
        <2>1. \A q \in Requests : q \in Nodes
            BY DEF Nodes
        <2> QED BY <1>2, <1>4, <2>1 DEF BindingInv, TypeOK
    <1>8. \A s \in Spans : /\ s \in Nodes /\ s # r /\ sdk'[s] = sdk[s] /\ of'[s] = of[s]
                           /\ mirror'[s] = mirror[s]
        BY <1>2, <1>4, <1>5, NodesApart DEF TypeOK, Nodes
    <1>9. \A x \in Nodes : x # r => sdk'[x] = sdk[x] /\ mirror'[x] = mirror[x]
        BY <1>2, <1>4 DEF TypeOK
    <1>10. StartedInv'
        BY <1>2, <1>8, <1>9 DEF StartedInv, Nodes, TypeOK
    <1>11. InItsTrace'
        <2> SUFFICES ASSUME NEW s \in Spans, mirror'[s].state # "none" PROVE InTrace(s)'
            BY DEF InItsTrace, InTrace
        <2>1. sdk[s] # "none" /\ of[s] \in Requests /\ of[s] # r
            BY <1>2, <1>8 DEF StartedInv, EndedAsTheOriginal, Nodes
        <2> QED BY <1>2, <1>8, <1>9, <2>1 DEF InItsTrace, InTrace, TraceOf, Nodes
    <1>12. EndedAsTheOriginal'
        BY <1>2, <1>4, <1>5, <1>9 DEF EndedAsTheOriginal, TypeOK
    <1> QED BY <1>6, <1>7, <1>10, <1>11, <1>12

LEMMA SpanStartOK ==
    ASSUME IInv, NEW s \in Spans, NEW r \in Requests, SpanStart(s, r) PROVE IInv'
    <1> USE DEF IInv
    <1>1. PICK fails \in BOOLEAN, parent \in {p \in Spans : of[p] = r} \cup {None} :
              Register(s, fails,
                  [state |-> "open", parent |-> MirrorParent(parent, r), by |-> None])
        BY DEF SpanStart
    <1> DEFINE m == [state |-> "open", parent |-> MirrorParent(parent, r), by |-> None]
    <1>2. /\ sdk[s] = "none" /\ sdk[r] # "none"
          /\ sdk' = [sdk EXCEPT ![s] = "open"] /\ of' = [of EXCEPT ![s] = r]
          /\ UNCHANGED <<alive, request_id, tokens>>
        BY DEF SpanStart
    <1>3. \/ UNCHANGED <<mirror, tables>>
          \/ mirror' = [mirror EXCEPT ![s] = m] /\ tables' = tables \cup {s}
        BY <1>1 DEF Register
    <1>4. s \in Nodes /\ mirror[s].state = "none" /\ s \notin tables /\ r # s /\ r \in Nodes
        BY <1>2, NodesApart DEF TypeOK, EndedAsTheOriginal, Nodes
    <1>5. tables \subseteq Nodes /\ None \notin tables
        BY NodesApart DEF TypeOK
    <1>6. /\ MirrorParent(parent, r) \in Nodes \cup {None}
          /\ MirrorParent(parent, r) = None => r \notin tables
          /\ MirrorParent(parent, r) # None =>
                /\ MirrorParent(parent, r) \in tables
                /\ TraceOf(MirrorParent(parent, r)) = r
        BY <1>5, NodesApart DEF MirrorParent, TraceOf, Nodes
    <1>7. TypeOK'
        <2>1. sdk' \in [Nodes -> {"none", "open", "ended"}] /\ of' \in [Spans -> Requests \cup {None}]
            BY <1>2, <1>4 DEF TypeOK
        <2>2. CASE UNCHANGED <<mirror, tables>>
            BY <1>2, <2>1, <2>2 DEF TypeOK
        <2>3. CASE mirror' = [mirror EXCEPT ![s] = m] /\ tables' = tables \cup {s}
            BY <1>2, <1>4, <1>6, <2>1, <2>3 DEF TypeOK
        <2> QED BY <1>3, <2>2, <2>3
    <1>8. \A x \in Nodes : x # s => sdk'[x] = sdk[x] /\ mirror'[x] = mirror[x]
        BY <1>2, <1>3 DEF TypeOK
    <1>9. \A p \in Spans : p # s => of'[p] = of[p]
        BY <1>2 DEF TypeOK
    <1>10. /\ sdk'[s] = "open" /\ of'[s] = r
           /\ mirror'[s] = mirror[s] \/ mirror'[s] = m
        BY <1>2, <1>3, <1>4 DEF TypeOK
    <1>11. \A q \in Requests : q \in Nodes /\ q # s
        BY NodesApart DEF Nodes
    <1>12. BindingInv'
        BY <1>2, <1>8, <1>11 DEF BindingInv
    <1>13. \A x \in tables : sdk[x] # "none"
        BY <1>5 DEF EndedAsTheOriginal, TypeOK
    <1>14. StartedInv'
        <2>1. \A x \in Nodes : sdk[x] # "none" => sdk'[x] # "none"
            BY <1>8, <1>10
        <2>2. ASSUME NEW p \in Spans, sdk'[p] # "none"
              PROVE  of'[p] \in Requests /\ sdk'[of'[p]] # "none"
            <3>1. CASE p # s
                BY <1>8, <1>9, <1>11, <2>1, <2>2, <3>1 DEF StartedInv, Nodes
            <3>2. CASE p = s
                BY <1>2, <1>4, <1>10, <2>1, <3>2
            <3> QED BY <3>1, <3>2
        <2>3. ASSUME NEW p \in Spans, mirror'[p].parent \in Spans
              PROVE  sdk'[mirror'[p].parent] # "none"
            <3>1. CASE mirror'[p] = mirror[p]
                BY <2>1, <2>3, <3>1 DEF StartedInv, Nodes
            <3>2. CASE mirror'[p] = m
                BY <1>5, <1>6, <1>13, <2>1, <2>3, <3>2, NodesApart DEF Nodes
            <3> QED BY <1>8, <1>10, <3>1, <3>2 DEF Nodes
        <2> QED BY <2>2, <2>3 DEF StartedInv
    <1>15. InItsTrace'
        <2> SUFFICES ASSUME NEW p \in Spans, mirror'[p].state # "none" PROVE InTrace(p)'
            BY DEF InItsTrace, InTrace
        <2>1. CASE p # s
            <3>1. sdk[p] # "none" /\ of[p] \in Requests /\ mirror'[p] = mirror[p]
                BY <1>8, <2>1 DEF StartedInv, EndedAsTheOriginal, Nodes
            <3>2. mirror[p].parent # s
                BY <1>2, <3>1 DEF StartedInv
            <3>3. InTrace(p) /\ of'[p] = of[p] /\ mirror'[of[p]] = mirror[of[p]]
                BY <1>8, <1>9, <1>11, <2>1, <3>1 DEF InItsTrace, InTrace
            <3>4. mirror[p].parent \in Nodes \cup {None}
                BY DEF TypeOK, Nodes
            <3>5. CASE mirror[p].parent = None
                BY <3>1, <3>3, <3>5 DEF InTrace
            <3>6. CASE mirror[p].parent \in Nodes
                BY <1>9, <3>1, <3>2, <3>3, <3>6, NodesApart DEF InTrace, TraceOf, Nodes
            <3> QED BY <3>4, <3>5, <3>6
        <2>2. CASE p = s
            <3>1. mirror'[s] = m
                BY <1>4, <1>10, <2>2
            <3>2. CASE MirrorParent(parent, r) = None
                BY <1>4, <1>6, <1>8, <1>10, <2>2, <3>1, <3>2
                DEF InTrace, EndedAsTheOriginal, TypeOK
            <3>3. CASE MirrorParent(parent, r) # None
                <4>1. MirrorParent(parent, r) # s
                    BY <1>4, <1>6, <3>3
                <4> QED BY <1>6, <1>9, <1>10, <2>2, <3>1, <3>3, <4>1, NodesApart, <1>5
                        DEF InTrace, TraceOf, Nodes
            <3> QED BY <3>2, <3>3
        <2> QED BY <2>1, <2>2
    <1>16. EndedAsTheOriginal'
        BY <1>2, <1>3, <1>4, <1>8, <1>10 DEF EndedAsTheOriginal, TypeOK
    <1> QED BY <1>7, <1>12, <1>14, <1>15, <1>16
-----------------------------------------------------------------------------
LEMMA EndOK ==
    ASSUME IInv, NEW x \in Nodes, NEW error \in BOOLEAN, End(x, error) PROVE IInv'
    <1> USE DEF IInv
    <1>1. /\ sdk[x] = "open" /\ sdk' = [sdk EXCEPT ![x] = "ended"]
          /\ tables' = tables \ {x}
          /\ UNCHANGED <<alive, request_id, tokens, of>>
        BY DEF End
    <1>2. IF x \in tables THEN mirror' = [mirror EXCEPT ![x].state = "ended"]
                          ELSE UNCHANGED mirror
        BY DEF End, Finish
    <1>3. \A y \in Nodes : mirror[y] = [state |-> mirror[y].state,
                                       parent |-> mirror[y].parent, by |-> mirror[y].by]
        BY DEF TypeOK
    <1>4. x \in tables => mirror'[x] = [state |-> "ended", parent |-> mirror[x].parent,
                                        by |-> mirror[x].by]
        BY <1>2, <1>3 DEF TypeOK
    <1>5. /\ sdk'[x] = "ended"
          /\ \A y \in Nodes : y # x => sdk'[y] = sdk[y] /\ mirror'[y] = mirror[y]
        BY <1>1, <1>2 DEF TypeOK
    <1>6. mirror[x].state # "none" => mirror'[x].state = "ended" /\ x \in tables
        BY <1>1, <1>4 DEF EndedAsTheOriginal
    <1>7. \A y \in Nodes : /\ mirror'[y].parent = mirror[y].parent
                           /\ mirror'[y].by = mirror[y].by
                           /\ mirror'[y].state # "none" <=> mirror[y].state # "none"
                           /\ mirror[y].state = "ended" => mirror'[y].state = "ended"
        <2> SUFFICES ASSUME NEW y \in Nodes
                     PROVE  /\ mirror'[y].parent = mirror[y].parent
                            /\ mirror'[y].by = mirror[y].by
                            /\ mirror'[y].state # "none" <=> mirror[y].state # "none"
                            /\ mirror[y].state = "ended" => mirror'[y].state = "ended"
            OBVIOUS
        <2>1. CASE mirror'[y] = mirror[y]
            BY <2>1
        <2>2. CASE y = x /\ x \in tables
            <3>1. mirror[x].state = "open"
                BY <2>2 DEF EndedAsTheOriginal, TypeOK
            <3> QED BY <1>4, <2>2, <3>1
        <2> QED BY <1>2, <1>5, <2>1, <2>2
    <1>8. TypeOK'
        <2>1. x \in tables => mirror'[x] \in [state : {"none", "open", "ended"},
                                              parent : Nodes \cup {None},
                                              by : Requests \cup {None}]
            BY <1>4 DEF TypeOK
        <2>2. mirror' \in [Nodes -> [state : {"none", "open", "ended"},
                                     parent : Nodes \cup {None},
                                     by : Requests \cup {None}]]
            BY <1>2, <2>1 DEF TypeOK
        <2> QED BY <1>1, <1>7, <2>2 DEF TypeOK
    <1>9. BindingInv'
        BY <1>1, <1>7 DEF BindingInv, Nodes
    <1>10. \A y \in Nodes : sdk'[y] # "none" <=> sdk[y] # "none"
        BY <1>1, <1>5
    <1>11. StartedInv'
        BY <1>1, <1>7, <1>10 DEF StartedInv, Nodes
    <1>12. InItsTrace'
        <2> SUFFICES ASSUME NEW s \in Spans, mirror'[s].state # "none" PROVE InTrace(s)'
            BY DEF InItsTrace, InTrace
        <2>1. s \in Nodes /\ mirror[s].state # "none" /\ mirror'[s].parent = mirror[s].parent
            BY <1>7 DEF Nodes
        <2>2. of[s] \in Requests /\ of[s] \in Nodes
            BY <2>1 DEF StartedInv, EndedAsTheOriginal, Nodes
        <2>3. InTrace(s)
            BY <2>1 DEF InItsTrace, InTrace
        <2>4. mirror'[of[s]].state \in {"none", "ended"}
                  <=> mirror[of[s]].state \in {"none", "ended"} \/ of[s] = x
            BY <1>1, <1>5, <1>6, <1>7, <2>2 DEF EndedAsTheOriginal
        <2> QED BY <1>1, <2>1, <2>3, <2>4 DEF InTrace, TraceOf
    <1>13. EndedAsTheOriginal'
        BY <1>1, <1>5, <1>6, <1>7 DEF EndedAsTheOriginal
    <1> QED BY <1>8, <1>9, <1>11, <1>12, <1>13

LEMMA StepOK == IInv /\ [Next]_vars => IInv'
    <1> SUFFICES ASSUME IInv, [Next]_vars PROVE IInv'
        OBVIOUS
    <1>1. CASE UNCHANGED vars
        BY <1>1 DEF vars, IInv, TypeOK, BindingInv, StartedInv, InItsTrace,
            EndedAsTheOriginal, TraceOf
    <1>2. ASSUME NEW t \in Tasks, Bind(t) \/ Unbind(t) PROVE IInv'
        BY <1>2, BindOK, UnbindOK
    <1>3. ASSUME NEW r \in Requests, Spawn(r) \/ TraceStart(r) \/ TraceEnd(r) PROVE IInv'
        BY <1>3, SpawnOK, TraceStartOK, EndOK DEF TraceEnd, Nodes
    <1>4. ASSUME NEW r \in Requests, NEW s \in Spans, SpanStart(s, r) PROVE IInv'
        BY <1>4, SpanStartOK
    <1>5. ASSUME NEW s \in Spans, SpanEnd(s) PROVE IInv'
        BY <1>5, EndOK DEF SpanEnd, Nodes
    <1> QED BY <1>1, <1>2, <1>3, <1>4, <1>5 DEF Next

\* The inductive invariant holds for any requests and spans.
THEOREM MirrorInvariant == Spec => []IInv
    BY InitOK, StepOK, PTL DEF Spec

\* The context variables, tables and mirrors keep to their types.
THEOREM MirrorTypes == Spec => []TypeOK
    <1>1. IInv => TypeOK
        BY DEF IInv
    <1> QED BY <1>1, MirrorInvariant, PTL

\* bind_observability_context names, in each task and for each trace, the
\* request that it is there for, however the requests' tasks interleave.
THEOREM Attribution == Spec => []Attributed
    <1>1. IInv => Attributed
        BY DEF IInv, BindingInv, TypeOK, Attributed
    <1> QED BY <1>1, MirrorInvariant, PTL

\* AgentsOtelProcessor puts a span into its own trace, or into none that it
\* could have been put into, whatever failed to start or ended before.
THEOREM TraceMembership == Spec => []InItsTrace
    <1>1. IInv => InItsTrace
        BY DEF IInv
    <1> QED BY <1>1, MirrorInvariant, PTL

\* on_trace_end and on_span_end end every mirror, and empty the tables.
THEOREM MirrorsEnd == Spec => []EndedAsTheOriginal
    <1>1. IInv => EndedAsTheOriginal
        BY DEF IInv
    <1> QED BY <1>1, MirrorInvariant, PTL
=============================================================================
