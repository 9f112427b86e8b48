------------------------- MODULE EventStreamProofs -------------------------
(***************************************************************************)
(* Proofs about EventStream, for any calls, number of streams and events   *)
(* of nested runs.                                                         *)
(***************************************************************************)
EXTENDS EventStream, SequenceTheorems, TLAPS

Items == Envelopes \cup {Closed}

\* Of the runner's events, only the first is about no call.
QueueInv == \A i \in DOMAIN sdkq : sdkq[i][1] = "updated" \/ sdkq[i][2] \in Calls

\* Up to the end of the queue, the events are numbered as they are placed.
NumberInv ==
    /\ \A i \in DOMAIN log : (\A j \in 1..i : log[j] # Closed) => log[i].seq = i
    /\ (\A i \in DOMAIN log : log[i] # Closed) => sequence = Len(log)

\* The queue is closed once, when the producer ends, and next to the terminal
\* event if there is one.
ClosedInv ==
    /\ producer = "running" => \A i \in DOMAIN log : log[i] # Closed
    /\ \A i, j \in DOMAIN log : log[i] = Closed /\ log[j] = Closed => i = j
    /\ \A i \in DOMAIN log : log[i].type \in Final =>
          i + 1 \in DOMAIN log /\ log[i + 1] = Closed

\* What the mapping remembers is in the log.
MemoryInv ==
    /\ \A i \in DOMAIN log : log[i].type = "tool_start" => log[i].of \in tool_calls
    /\ \A k \in previous :
          \E j \in DOMAIN log : FromNested(log[j]) /\ log[j].of = k

LogInv == NumberInv /\ ClosedInv /\ MemoryInv /\ ResultsNamed /\ InvocationsApart

\* The client reads what was put on the queue before it was closed, in order,
\* and the adapter's own error last.
OutInv ==
    /\ \A i \in DOMAIN out :
          \/ i \in DOMAIN log /\ out[i] = log[i] /\ \A j \in 1..i : log[j] # Closed
          \/ out[i] = OwnError /\ i = Len(out) /\ gen = "refused"
    /\ gen = "pulling" => Len(out) = taken /\ \A i \in 1..taken : log[i] # Closed
    /\ gen = "done" => Len(out) + 1 \in DOMAIN log /\ log[Len(out) + 1] = Closed
    /\ gen = "refused" => Len(out) > 0 /\ ~Interrupted

\* Who decides has read a whole interrupted stream; its checkpoint is on disk.
TurnInv ==
    /\ run = "paused" => turn < MaxStreams
    /\ \A i \in DOMAIN log : log[i].type = "turn_interrupt" =>
          turn < MaxStreams /\ turn \in files
    /\ files \subseteq {turn - 1, turn}
    /\ gen = "done" /\ Completed => turn - 1 \notin files
    /\ client = "deciding" => gen = "done" /\ Interrupted

IInv == TypeOK /\ QueueInv /\ LogInv /\ OutInv /\ TurnInv
-----------------------------------------------------------------------------
LEMMA ClosedIsNoEvent == \A m \in Envelopes : m # Closed /\ m.type # "closed"
    BY DEF Envelopes, Closed, Types

LEMMA AppendFacts ==
    ASSUME NEW S, NEW s \in Seq(S), NEW e \in S
    PROVE  /\ Append(s, e) \in Seq(S)
           /\ Len(s) \in Nat /\ Len(Append(s, e)) = Len(s) + 1
           /\ DOMAIN s = 1..Len(s) /\ DOMAIN Append(s, e) = 1..(Len(s) + 1)
           /\ \A i \in 1..Len(s) : Append(s, e)[i] = s[i]
           /\ Append(s, e)[Len(s) + 1] = e
    OBVIOUS

LEMMA EventType ==
    ASSUME NEW type \in Types, NEW of \in Calls \cup {None}, NEW note \in Notes,
           NEW n \in Nat
    PROVE  Numbered(Event(type, of, note), n) \in Envelopes
    BY DEF Numbered, Event, Envelopes

LEMMA OwnErrorType ==
    OwnError \in Envelopes /\ OwnError.type = "turn_error" /\ OwnError.seq = 1
    BY DEF OwnError, Numbered, Event, Envelopes, Types, Notes

LEMMA InitOK == Init => IInv
    <1> SUFFICES ASSUME Init PROVE IInv
        OBVIOUS
    <1>1. sdkq \in Seq(({"updated", "called"} \cup Outputs) \X (Calls \cup {None}))
        BY DEF Init
    <1>2. TypeOK
        BY <1>1, StreamsBounded DEF Init, TypeOK
    <1>3. QueueInv /\ LogInv
        BY DEF Init, QueueInv, LogInv, NumberInv, ClosedInv, MemoryInv, ResultsNamed,
            InvocationsApart
    <1>4. OutInv /\ TurnInv
        BY DEF Init, OutInv, TurnInv
    <1> QED BY <1>2, <1>3, <1>4 DEF IInv
-----------------------------------------------------------------------------
(***************************************************************************)
(* The log grows.                                                          *)
(***************************************************************************)
\* What was read of a log is in a longer one as well.
LEMMA GrowOK ==
    ASSUME IInv, log' \in Seq(Items), Len(log) <= Len(log'),
           \A i \in 1..Len(log) : log'[i] = log[i],
           UNCHANGED <<taken, gen, out>>
    PROVE  OutInv' /\ taken' <= Len(log')
    <1>1. /\ Len(log) \in Nat /\ Len(log') \in Nat /\ taken \in Nat /\ taken <= Len(log)
          /\ DOMAIN log = 1..Len(log) /\ DOMAIN log' = 1..Len(log')
          /\ out \in Seq(Envelopes) /\ Len(out) \in Nat
        BY DEF IInv, TypeOK, Items
    <1>2. \A i \in DOMAIN log : i \in DOMAIN log' /\ log'[i] = log[i]
        BY <1>1
    <1>3. ASSUME NEW i \in DOMAIN out, i \in DOMAIN log, out[i] = log[i],
                 \A j \in 1..i : log[j] # Closed
          PROVE  i \in DOMAIN log' /\ out[i] = log'[i] /\ \A j \in 1..i : log'[j] # Closed
        <2>1. \A j \in 1..i : j \in DOMAIN log
            BY <1>1, <1>3
        <2> QED BY <1>2, <1>3, <2>1
    <1>4. gen = "pulling" => \A i \in 1..taken : log'[i] # Closed
        <2>1. \A i \in 1..taken : i \in DOMAIN log
            BY <1>1
        <2> QED BY <1>2, <2>1 DEF IInv, OutInv
    <1>5. gen = "done" => Len(out) + 1 \in DOMAIN log' /\ log'[Len(out) + 1] = Closed
        BY <1>2 DEF IInv, OutInv
    <1>6. \A i \in DOMAIN out :
             \/ i \in DOMAIN log' /\ out[i] = log'[i] /\ \A j \in 1..i : log'[j] # Closed
             \/ out[i] = OwnError /\ i = Len(out) /\ gen = "refused"
        BY <1>3 DEF IInv, OutInv
    <1> QED BY <1>1, <1>4, <1>5, <1>6 DEF IInv, OutInv, Interrupted

\* An event that does not end the run.
LEMMA EmitOK ==
    ASSUME IInv, NEW e \in [type : Types \ Final, of : Calls \cup {None}, note : Notes],
           Emit(e), UNCHANGED <<taken, gen, out>>,
           tool_calls \subseteq tool_calls',
           \/ previous' = previous
           \/ previous' = previous \cup {e.of} /\ FromNested(e),
           e.type = "tool_start" => e.of \in tool_calls',
           e.type = "tool_result" /\ e.of \in tool_calls => e.note = "named",
           e.type = "agent_changed" /\ e.of # None => e.note = "none" \/ e.of \in previous
    PROVE  /\ LogInv' /\ OutInv' /\ log' \in Seq(Items) /\ sequence' \in Nat
           /\ taken' <= Len(log')
           /\ \A i \in DOMAIN log' : log'[i].type = "turn_interrupt" =>
                 i \in DOMAIN log /\ log[i].type = "turn_interrupt"
    <1> DEFINE m == Numbered(e, sequence + 1)
               n == Len(log) + 1
    <1>1. /\ log' = Append(log, m) /\ sequence' = sequence + 1 /\ UNCHANGED producer
        BY DEF Emit
    <1>2. /\ m \in Envelopes /\ m.type = e.type /\ m.of = e.of /\ m.note = e.note
          /\ m.seq = sequence + 1 /\ sequence \in Nat /\ log \in Seq(Items)
        BY DEF Numbered, Envelopes, IInv, TypeOK, Items
    <1>3. m \in Items /\ m # Closed /\ m.type \notin Final
        BY <1>2, ClosedIsNoEvent DEF Items
    <1> HIDE DEF m
    <1>4. /\ log' \in Seq(Items) /\ Len(log) \in Nat /\ Len(log') = n
          /\ DOMAIN log = 1..Len(log) /\ DOMAIN log' = 1..n
          /\ \A i \in 1..Len(log) : log'[i] = log[i]
          /\ log'[n] = m
        BY <1>1, <1>2, <1>3, AppendFacts
    <1>5. /\ \A i \in DOMAIN log' : i \in DOMAIN log \/ i = n
          /\ \A i \in DOMAIN log : i \in DOMAIN log' /\ i # n /\ i < n /\ log'[i] = log[i]
          /\ n \notin DOMAIN log
        BY <1>4
    <1>6. NumberInv'
        <2>1. ASSUME NEW i \in DOMAIN log', \A j \in 1..i : log'[j] # Closed
              PROVE  log'[i].seq = i
            <3>1. CASE i \in DOMAIN log
                <4>1. \A j \in 1..i : j \in DOMAIN log
                    BY <1>4, <3>1
                <4> QED BY <1>5, <2>1, <3>1, <4>1 DEF IInv, LogInv, NumberInv
            <3>2. CASE i = n
                <4>1. \A j \in DOMAIN log : j \in 1..n
                    BY <1>4
                <4>2. \A j \in DOMAIN log : log[j] # Closed
                    BY <1>5, <2>1, <3>2, <4>1
                <4> QED BY <1>2, <1>4, <3>2, <4>2 DEF IInv, LogInv, NumberInv
            <3> QED BY <1>5, <3>1, <3>2
        <2>2. ASSUME \A i \in DOMAIN log' : log'[i] # Closed PROVE sequence' = Len(log')
            <3>1. \A i \in DOMAIN log : log[i] # Closed
                BY <1>5, <2>2
            <3> QED BY <1>1, <1>4, <3>1 DEF IInv, LogInv, NumberInv
        <2> QED BY <2>1, <2>2 DEF NumberInv
    <1>7. ClosedInv'
        <2>1. producer' = "running" => \A i \in DOMAIN log' : log'[i] # Closed
            BY <1>1, <1>3, <1>4, <1>5 DEF IInv, LogInv, ClosedInv
        <2>2. \A i, j \in DOMAIN log' : log'[i] = Closed /\ log'[j] = Closed => i = j
            BY <1>3, <1>4, <1>5 DEF IInv, LogInv, ClosedInv
        <2>3. \A i \in DOMAIN log' : log'[i].type \in Final =>
                 i + 1 \in DOMAIN log' /\ log'[i + 1] = Closed
            BY <1>3, <1>4, <1>5 DEF IInv, LogInv, ClosedInv
        <2> QED BY <2>1, <2>2, <2>3 DEF ClosedInv
    <1>8. MemoryInv'
        <2>1. \A i \in DOMAIN log' : log'[i].type = "tool_start" => log'[i].of \in tool_calls'
            BY <1>2, <1>4, <1>5 DEF IInv, LogInv, MemoryInv
        <2>2. \A k \in previous' :
                 \E j \in DOMAIN log' : FromNested(log'[j]) /\ log'[j].of = k
            <3>1. ASSUME NEW k \in previous
                  PROVE  \E j \in DOMAIN log' : FromNested(log'[j]) /\ log'[j].of = k
                BY <1>5, <3>1 DEF IInv, LogInv, MemoryInv
            <3>2. n \in DOMAIN log' /\ log'[n].of = e.of
                  /\ (FromNested(e) => FromNested(log'[n]))
                BY <1>2, <1>4 DEF FromNested
            <3> QED BY <3>1, <3>2
        <2> QED BY <2>1, <2>2 DEF MemoryInv
    <1>9. ResultsNamed'
        <2> SUFFICES ASSUME NEW i \in DOMAIN log', NEW j \in DOMAIN log',
                            i < j, log'[i].type = "tool_start",
                            log'[j].type = "tool_result", log'[i].of = log'[j].of
                     PROVE  log'[j].note = "named"
            BY DEF ResultsNamed
        <2>1. i \in DOMAIN log /\ log'[i] = log[i]
            BY <1>4
        <2>2. CASE j \in DOMAIN log
            BY <1>5, <2>1, <2>2 DEF IInv, LogInv, ResultsNamed
        <2>3. CASE j = n
            BY <1>2, <1>4, <2>1, <2>3 DEF IInv, LogInv, MemoryInv
        <2> QED BY <1>5, <2>2, <2>3
    <1>10. InvocationsApart'
        <2> SUFFICES ASSUME NEW i \in DOMAIN log', FromNested(log'[i]),
                            log'[i].type = "agent_changed", log'[i].note # "none"
                     PROVE  \E j \in 1..(i - 1) :
                               FromNested(log'[j]) /\ log'[j].of = log'[i].of
            BY DEF InvocationsApart
        <2>1. CASE i \in DOMAIN log
            <3>1. PICK j \in 1..(i - 1) : FromNested(log[j]) /\ log[j].of = log[i].of
                BY <1>5, <2>1 DEF IInv, LogInv, InvocationsApart
            <3>2. j \in DOMAIN log
                BY <1>4, <2>1
            <3> QED BY <1>5, <2>1, <3>1, <3>2
        <2>2. CASE i = n
            <3>1. e.of \in previous
                BY <1>2, <1>4, <2>2 DEF FromNested
            <3>2. PICK j \in DOMAIN log : FromNested(log[j]) /\ log[j].of = e.of
                BY <3>1 DEF IInv, LogInv, MemoryInv
            <3>3. j \in 1..(n - 1)
                BY <1>4, <3>2
            <3> QED BY <1>2, <1>4, <1>5, <2>2, <3>2, <3>3
        <2> QED BY <1>5, <2>1, <2>2
    <1>11. \A i \in DOMAIN log' : log'[i].type = "turn_interrupt" =>
              i \in DOMAIN log /\ log[i].type = "turn_interrupt"
        BY <1>3, <1>4, <1>5 DEF Final
    <1>12. OutInv' /\ taken' <= Len(log')
        BY <1>4, GrowOK
    <1> QED BY <1>1, <1>2, <1>4, <1>6, <1>7, <1>8, <1>9, <1>10, <1>11, <1>12 DEF LogInv

\* The end of the producer: the queue is closed, after a terminal event or not.
LEMMA CloseOK ==
    ASSUME IInv, producer = "running", producer' = "over",
           UNCHANGED <<taken, gen, out, mapping>>,
           NEW type \in Final,
           \/ log' = Append(log, Closed) /\ sequence' = sequence
           \/ Conclude(type)
    PROVE  /\ LogInv' /\ OutInv' /\ log' \in Seq(Items) /\ sequence' \in Nat
           /\ taken' <= Len(log')
           /\ \A i \in DOMAIN log' : log'[i].type = "turn_interrupt" =>
                 \/ i \in DOMAIN log /\ log[i].type = "turn_interrupt"
                 \/ Conclude(type) /\ type = "turn_interrupt"
    <1> DEFINE m == Numbered(Event(type, None, "none"), sequence + 1)
               n == Len(log) + 1
    <1>1. log \in Seq(Items) /\ sequence \in Nat
        BY DEF IInv, TypeOK, Items
    <1>2. /\ m \in Envelopes /\ m.type = type /\ m.seq = sequence + 1
          /\ m.type \in Final /\ m.type \in Types
        <2>1. type \in Types /\ "none" \in Notes
            BY DEF Types, Final, Notes
        <2>2. m \in Envelopes
            BY <1>1, <2>1, EventType
        <2> QED BY <2>1, <2>2 DEF Numbered, Event
    <1>3. m \in Items /\ m # Closed /\ Closed \in Items
        BY <1>2, ClosedIsNoEvent DEF Items
    <1> HIDE DEF m
    <1>4. \A i \in DOMAIN log : log[i] # Closed
        BY DEF IInv, LogInv, ClosedInv
    <1>5. sequence = Len(log)
        BY <1>4 DEF IInv, LogInv, NumberInv
    \* The new log: with the closing at c, after the terminal event or at once.
    <1>6. \E c \in {n, n + 1} :
              /\ log' \in Seq(Items) /\ Len(log') = c /\ log'[c] = Closed
              /\ \A i \in 1..Len(log) : log'[i] = log[i]
              /\ c = n + 1 => log'[n] = m /\ Conclude(type)
        <2>1. CASE log' = Append(log, Closed)
            BY <1>1, <1>3, <2>1, AppendFacts
        <2>2. CASE Conclude(type)
            <3> DEFINE l == Append(log, m)
            <3>1. log' = Append(l, Closed)
                BY <2>2 DEF Conclude, m
            <3>2. /\ l \in Seq(Items) /\ Len(l) = n /\ l[n] = m /\ Len(log) \in Nat
                  /\ \A i \in 1..Len(log) : l[i] = log[i]
                BY <1>1, <1>3, AppendFacts
            <3> HIDE DEF l
            <3>3. /\ log' \in Seq(Items) /\ Len(log') = Len(l) + 1
                  /\ \A i \in 1..Len(l) : log'[i] = l[i]
                  /\ log'[Len(l) + 1] = Closed
                BY <1>3, <3>1, <3>2, AppendFacts
            <3>4. n \in 1..n /\ \A i \in 1..Len(log) : i \in 1..n
                BY <3>2
            <3> QED BY <2>2, <3>2, <3>3, <3>4
        <2> QED BY <2>1, <2>2
    <1>7. PICK c \in {n, n + 1} :
              /\ log' \in Seq(Items) /\ Len(log') = c /\ log'[c] = Closed
              /\ \A i \in 1..Len(log) : log'[i] = log[i]
              /\ c = n + 1 => log'[n] = m /\ Conclude(type)
        BY <1>6
    <1>8. /\ Len(log) \in Nat /\ c \in Nat
          /\ DOMAIN log = 1..Len(log) /\ DOMAIN log' = 1..c
        BY <1>1, <1>7
    <1>9. ASSUME NEW i \in DOMAIN log'
          PROVE  \/ i \in DOMAIN log /\ log'[i] = log[i]
                 \/ i = c
                 \/ i = n /\ c = n + 1 /\ log'[i] = m /\ Conclude(type)
        BY <1>7, <1>8
    <1>10. \A i \in DOMAIN log : i \in DOMAIN log' /\ log'[i] = log[i]
        BY <1>7, <1>8
    <1>11. c \in DOMAIN log'
        BY <1>8
    <1>12. NumberInv'
        <2>1. ASSUME NEW i \in DOMAIN log', \A j \in 1..i : log'[j] # Closed
              PROVE  log'[i].seq = i
            <3>1. CASE i \in DOMAIN log
                <4>1. \A j \in 1..i : j \in DOMAIN log
                    BY <1>8, <3>1
                <4> QED BY <1>4, <1>10, <3>1, <4>1 DEF IInv, LogInv, NumberInv
            <3>2. CASE i = n /\ log'[i] = m
                BY <1>2, <1>5, <3>2
            <3>3. i # c
                BY <1>7, <1>8, <2>1
            <3> QED BY <1>9, <3>1, <3>2, <3>3
        <2> QED BY <1>7, <1>11, <2>1 DEF NumberInv
    <1>13. ClosedInv'
        <2>1. \A i \in DOMAIN log' : log'[i] = Closed => i = c
            BY <1>3, <1>4, <1>9
        <2>2. ASSUME NEW i \in DOMAIN log', log'[i].type \in Final
              PROVE  i + 1 \in DOMAIN log' /\ log'[i + 1] = Closed
            <3>1. CASE i \in DOMAIN log /\ log'[i] = log[i]
                BY <1>4, <2>2, <3>1 DEF IInv, LogInv, ClosedInv
            <3>2. CASE i = n /\ c = n + 1
                BY <1>7, <1>11, <3>2
            <3>3. i # c
                BY <1>7, <2>2 DEF Closed, Final
            <3> QED BY <1>9, <3>1, <3>2, <3>3
        <2> QED BY <2>1, <2>2 DEF ClosedInv
    <1>14. \A i \in DOMAIN log' : i \notin DOMAIN log =>
              log'[i].type \in Final \cup {"closed"}
        BY <1>2, <1>7, <1>9 DEF Closed
    <1>15. MemoryInv'
        <2>1. \A i \in DOMAIN log' : log'[i].type = "tool_start" => log'[i].of \in tool_calls'
            BY <1>10, <1>14 DEF IInv, LogInv, MemoryInv, mapping, Final
        <2>2. \A k \in previous' :
                 \E j \in DOMAIN log' : FromNested(log'[j]) /\ log'[j].of = k
            BY <1>10 DEF IInv, LogInv, MemoryInv, mapping
        <2> QED BY <2>1, <2>2 DEF MemoryInv
    <1>16. ResultsNamed'
        BY <1>10, <1>14 DEF IInv, LogInv, ResultsNamed, Final
    <1>17. InvocationsApart'
        <2> SUFFICES ASSUME NEW i \in DOMAIN log', FromNested(log'[i]),
                            log'[i].type = "agent_changed", log'[i].note # "none"
                     PROVE  \E j \in 1..(i - 1) :
                               FromNested(log'[j]) /\ log'[j].of = log'[i].of
            BY DEF InvocationsApart
        <2>1. i \in DOMAIN log
            BY <1>14 DEF Final
        <2>2. PICK j \in 1..(i - 1) : FromNested(log[j]) /\ log[j].of = log[i].of
            BY <1>10, <2>1 DEF IInv, LogInv, InvocationsApart
        <2>3. j \in DOMAIN log
            BY <1>8, <2>1
        <2> QED BY <1>10, <2>1, <2>2, <2>3
    <1>18. \A i \in DOMAIN log' : log'[i].type = "turn_interrupt" =>
              \/ i \in DOMAIN log /\ log[i].type = "turn_interrupt"
              \/ Conclude(type) /\ type = "turn_interrupt"
        <2> SUFFICES ASSUME NEW i \in DOMAIN log', log'[i].type = "turn_interrupt"
                     PROVE  \/ i \in DOMAIN log /\ log[i].type = "turn_interrupt"
                            \/ Conclude(type) /\ type = "turn_interrupt"
            OBVIOUS
        <2>1. i # c
            BY <1>7 DEF Closed
        <2> QED BY <1>2, <1>9, <2>1
    <1>19. Len(log) <= Len(log')
        BY <1>7, <1>8
    <1>20. OutInv' /\ taken' <= Len(log')
        BY <1>7, <1>19, GrowOK
    <1>21. sequence' \in Nat
        BY <1>1 DEF Conclude
    <1> QED BY <1>7, <1>12, <1>13, <1>15, <1>16, <1>17, <1>18, <1>20, <1>21 DEF LogInv
-----------------------------------------------------------------------------
(***************************************************************************)
(* The runner.                                                             *)
(***************************************************************************)
LEMMA AppendToQueue ==
    ASSUME IInv, NEW kind \in {"updated", "called"} \cup Outputs, NEW k \in Calls,
           sdkq' = Append(sdkq, <<kind, k>>)
    PROVE  /\ QueueInv'
           /\ sdkq' \in Seq(({"updated", "called"} \cup Outputs) \X (Calls \cup {None}))
    <1> DEFINE S == ({"updated", "called"} \cup Outputs) \X (Calls \cup {None})
    <1>1. sdkq \in Seq(S) /\ <<kind, k>> \in S
        BY DEF IInv, TypeOK
    <1> HIDE DEF S
    <1>2. /\ sdkq' \in Seq(S) /\ DOMAIN sdkq = 1..Len(sdkq)
          /\ DOMAIN sdkq' = 1..(Len(sdkq) + 1) /\ Len(sdkq) \in Nat
          /\ \A i \in 1..Len(sdkq) : sdkq'[i] = sdkq[i]
          /\ sdkq'[Len(sdkq) + 1] = <<kind, k>>
        BY <1>1, AppendFacts
    <1>3. QueueInv'
        BY <1>2 DEF IInv, QueueInv
    <1> QED BY <1>2, <1>3 DEF S

\* Steps that leave the log and what was read of it as they are.
LEMMA QuietOK ==
    ASSUME IInv, UNCHANGED <<mapping, sink, response>> PROVE LogInv' /\ OutInv'
    BY DEF IInv, LogInv, NumberInv, ClosedInv, MemoryInv, ResultsNamed, InvocationsApart,
        OutInv, Interrupted, mapping, sink, response

LEMMA CallToolOK == ASSUME IInv, NEW k \in Calls, CallTool(k) PROVE IInv'
    <1>1. /\ sdkq' = Append(sdkq, <<"called", k>>)
          /\ UNCHANGED <<turn, run, nested, mapping, sink, response, client, files>>
        BY DEF CallTool
    <1>2. /\ QueueInv'
          /\ sdkq' \in Seq(({"updated", "called"} \cup Outputs) \X (Calls \cup {None}))
        BY <1>1, AppendToQueue
    <1>3. TypeOK'
        BY <1>1, <1>2 DEF CallTool, IInv, TypeOK, mapping, sink, response
    <1>4. TurnInv'
        BY <1>1 DEF IInv, TurnInv, Completed, Interrupted, sink, response
    <1> QED BY <1>1, <1>2, <1>3, <1>4, QuietOK DEF IInv

LEMMA AnswerCallOK == ASSUME IInv, NEW k \in Calls, AnswerCall(k) PROVE IInv'
    <1> DEFINE kind == IF call[k] = "agent" THEN "agent_output" ELSE "output"
    <1>0. kind \in {"updated", "called"} \cup Outputs
        BY DEF Outputs
    <1>1. /\ sdkq' = Append(sdkq, <<kind, k>>)
          /\ UNCHANGED <<turn, run, nested, mapping, sink, response, client, files>>
        BY DEF AnswerCall
    <1> HIDE DEF kind
    <1>2. /\ QueueInv'
          /\ sdkq' \in Seq(({"updated", "called"} \cup Outputs) \X (Calls \cup {None}))
        BY <1>0, <1>1, AppendToQueue
    <1>3. TypeOK'
        BY <1>1, <1>2 DEF AnswerCall, IInv, TypeOK, mapping, sink, response
    <1>4. TurnInv'
        BY <1>1 DEF IInv, TurnInv, Completed, Interrupted, sink, response
    <1> QED BY <1>1, <1>2, <1>3, <1>4, QuietOK DEF IInv

LEMMA StopRunOK == ASSUME IInv, StopRun PROVE IInv'
    <1>1. /\ run' \in {"paused", "ended", "failed"}
          /\ run' = "paused" => turn < MaxStreams
          /\ UNCHANGED <<turn, sdkq, call, nested, mapping, sink, response, client, files>>
        BY DEF StopRun
    <1>2. TypeOK'
        BY <1>1 DEF IInv, TypeOK, mapping, sink, response
    <1>3. QueueInv' /\ TurnInv'
        BY <1>1 DEF IInv, QueueInv, TurnInv, Completed, Interrupted, sink, response
    <1> QED BY <1>1, <1>2, <1>3, QuietOK DEF IInv

\* Emissions of the runner's side.
LEMMA NestedEventOK == ASSUME IInv, NEW k \in Calls, NestedEvent(k) PROVE IInv'
    <1> DEFINE e == IF nested[k] = 0 THEN Event("agent_changed", k, PreviousOf(k))
                                     ELSE Event("text_chunk", k, "none")
    <1>1. /\ nested[k] < MaxNested /\ nested' = [nested EXCEPT ![k] = @ + 1]
          /\ Emit(e) /\ previous' = previous \cup {k}
          /\ UNCHANGED <<turn, run, sdkq, call, tool_calls, response, client, files>>
        BY DEF NestedEvent
    <1>2. e \in [type : Types \ Final, of : Calls \cup {None}, note : Notes]
        BY DEF Event, Types, Final, Notes, PreviousOf
    <1>3. /\ e.of = k /\ e.type \in {"agent_changed", "text_chunk"} /\ FromNested(e)
          /\ e.type = "agent_changed" /\ e.of # None => e.note = "none" \/ e.of \in previous
        BY NoneIsNoCall DEF Event, PreviousOf, FromNested
    <1> HIDE DEF e
    <1>4. /\ LogInv' /\ OutInv' /\ log' \in Seq(Items) /\ sequence' \in Nat
          /\ taken' <= Len(log')
          /\ \A i \in DOMAIN log' : log'[i].type = "turn_interrupt" =>
                i \in DOMAIN log /\ log[i].type = "turn_interrupt"
        BY <1>1, <1>2, <1>3, EmitOK DEF response
    <1>5. nested' \in [Calls -> 0..MaxNested]
        BY <1>1, StreamsBounded DEF IInv, TypeOK
    <1>6. TypeOK'
        BY <1>1, <1>4, <1>5 DEF IInv, TypeOK, Emit, response, Items
    <1>7. QueueInv' /\ TurnInv'
        BY <1>1, <1>4 DEF IInv, QueueInv, TurnInv, Completed, Interrupted, response
    <1> QED BY <1>4, <1>6, <1>7 DEF IInv

LEMMA ChallengeOK == ASSUME IInv, NEW k \in Calls, Challenge(k) PROVE IInv'
    <1> DEFINE e == Event("auth_required", k, "none")
    <1>1. Emit(e) /\ UNCHANGED <<turn, sdk, mapping, response, client, files>>
        BY DEF Challenge
    <1>2. /\ e \in [type : Types \ Final, of : Calls \cup {None}, note : Notes]
          /\ e.type = "auth_required"
        BY DEF Event, Types, Final, Notes
    <1> HIDE DEF e
    <1>3. /\ LogInv' /\ OutInv' /\ log' \in Seq(Items) /\ sequence' \in Nat
          /\ taken' <= Len(log')
          /\ \A i \in DOMAIN log' : log'[i].type = "turn_interrupt" =>
                i \in DOMAIN log /\ log[i].type = "turn_interrupt"
        BY <1>1, <1>2, EmitOK DEF response, mapping
    <1>4. TypeOK'
        BY <1>1, <1>3 DEF IInv, TypeOK, Emit, response, sdk, mapping, Items
    <1>5. QueueInv' /\ TurnInv'
        BY <1>1, <1>3 DEF IInv, QueueInv, TurnInv, Completed, Interrupted, response, sdk
    <1> QED BY <1>3, <1>4, <1>5 DEF IInv
-----------------------------------------------------------------------------
(***************************************************************************)
(* The producer.                                                           *)
(***************************************************************************)
LEMMA MapNextOK == ASSUME IInv, MapNext PROVE IInv'
    <1> DEFINE x == Head(sdkq)
               e == Mapped(x)
    <1>1. /\ sdkq # << >> /\ Emit(e) /\ sdkq' = Tail(sdkq)
          /\ tool_calls' = IF x[1] = "called" THEN tool_calls \cup {x[2]} ELSE tool_calls
          /\ UNCHANGED <<turn, run, call, nested, previous, response, client, files>>
        BY DEF MapNext, KeepName
    <1>2. /\ sdkq \in Seq(({"updated", "called"} \cup Outputs) \X (Calls \cup {None}))
          /\ x \in ({"updated", "called"} \cup Outputs) \X (Calls \cup {None})
          /\ 1 \in DOMAIN sdkq /\ x = sdkq[1]
        BY <1>1 DEF IInv, TypeOK
    <1>3. x[1] \in {"updated", "called"} \cup Outputs /\ (x[1] = "updated" \/ x[2] \in Calls)
        BY <1>2 DEF IInv, QueueInv
    <1> HIDE DEF x
    <1>5. /\ x[1] = "updated" => e = Event("agent_changed", None, "root")
          /\ x[1] = "called"  => e = Event("tool_start", x[2], "named")
          /\ x[1] \in Outputs => e = Event("tool_result", x[2], NameOf(x))
        BY DEF Mapped, Outputs
    <1> HIDE DEF e
    <1>6. /\ e \in [type : Types \ Final, of : Calls \cup {None}, note : Notes]
          /\ e.type = "tool_start" => x[1] = "called" /\ e.of = x[2]
          /\ e.type = "tool_result" => e.note = NameOf(x) /\ e.of = x[2]
          /\ e.type = "agent_changed" => e.of = None
        BY <1>3, <1>5 DEF Event, Types, Final, Notes, NameOf, Outputs
    <1>7. /\ LogInv' /\ OutInv' /\ log' \in Seq(Items) /\ sequence' \in Nat
          /\ taken' <= Len(log')
          /\ \A i \in DOMAIN log' : log'[i].type = "turn_interrupt" =>
                i \in DOMAIN log /\ log[i].type = "turn_interrupt"
        BY <1>1, <1>6, EmitOK DEF response, NameOf
    <1>8. /\ sdkq' \in Seq(({"updated", "called"} \cup Outputs) \X (Calls \cup {None}))
          /\ \A i \in DOMAIN sdkq' : i + 1 \in DOMAIN sdkq /\ sdkq'[i] = sdkq[i + 1]
        BY <1>1, <1>2
    <1>9. TypeOK'
        BY <1>1, <1>3, <1>7, <1>8 DEF IInv, TypeOK, Emit, response, Items
    <1>10. QueueInv' /\ TurnInv'
        BY <1>1, <1>7, <1>8 DEF IInv, QueueInv, TurnInv, Completed, Interrupted, response
    <1> QED BY <1>7, <1>9, <1>10 DEF IInv

LEMMA ConcludeRunOK == ASSUME IInv, ConcludeRun PROVE IInv'
    <1>1. /\ producer = "running" /\ UNCHANGED <<turn, sdk, mapping, response, client>>
          /\ \/ run = "ended" /\ Conclude("turn_complete") /\ UNCHANGED files
             \/ /\ run = "paused" /\ files' = files \cup {turn}
                /\ \E type \in {"turn_interrupt", "turn_error"} : Conclude(type)
        BY DEF ConcludeRun
    <1>2. PICK type \in Final :
              /\ Conclude(type)
              /\ \/ type = "turn_complete" /\ UNCHANGED files
                 \/ /\ run = "paused" /\ files' = files \cup {turn}
        BY <1>1 DEF Final
    <1>3. ~(Conclude(type) /\ type = "turn_interrupt") \/ (run = "paused" /\ turn \in files')
        BY <1>2
    <1>4. /\ LogInv' /\ OutInv' /\ log' \in Seq(Items) /\ sequence' \in Nat
          /\ taken' <= Len(log')
          /\ \A i \in DOMAIN log' : log'[i].type = "turn_interrupt" =>
                \/ i \in DOMAIN log /\ log[i].type = "turn_interrupt"
                \/ Conclude(type) /\ type = "turn_interrupt"
        <2>1. producer' = "over"
            BY <1>2 DEF Conclude
        <2> QED BY <1>1, <1>2, <2>1, CloseOK DEF response, mapping
    <1>5. turn \in 1..MaxStreams /\ files \subseteq files' /\ files' \subseteq files \cup {turn}
        BY <1>2 DEF IInv, TypeOK
    <1>6. TypeOK'
        BY <1>1, <1>2, <1>4, <1>5 DEF IInv, TypeOK, Conclude, response, sdk, mapping, Items
    <1>7. QueueInv'
        BY <1>1 DEF IInv, QueueInv, sdk
    <1>8. TurnInv'
        <2>1. turn - 1 # turn
            BY <1>5
        <2> QED BY <1>1, <1>3, <1>4, <1>5, <2>1
                DEF IInv, TurnInv, Completed, Interrupted, response, sdk
    <1> QED BY <1>4, <1>6, <1>7, <1>8 DEF IInv

LEMMA EmptyQueue ==
    ASSUME sdkq' = << >>
    PROVE  /\ QueueInv'
           /\ sdkq' \in Seq(({"updated", "called"} \cup Outputs) \X (Calls \cup {None}))
    BY DEF QueueInv

LEMMA ConcludeFailedOK == ASSUME IInv, ConcludeFailed PROVE IInv'
    <1>1. /\ producer = "running" /\ Conclude("turn_error") /\ sdkq' = << >>
          /\ UNCHANGED <<turn, run, call, nested, mapping, response, client, files>>
        BY DEF ConcludeFailed
    <1>2. "turn_error" \in Final /\ "turn_error" # "turn_interrupt" /\ producer' = "over"
        BY <1>1 DEF Final, Conclude
    <1>3. /\ LogInv' /\ OutInv' /\ log' \in Seq(Items) /\ sequence' \in Nat
          /\ taken' <= Len(log')
          /\ \A i \in DOMAIN log' : log'[i].type = "turn_interrupt" =>
                \/ i \in DOMAIN log /\ log[i].type = "turn_interrupt"
                \/ Conclude("turn_error") /\ "turn_error" = "turn_interrupt"
        BY <1>1, <1>2, CloseOK DEF response, mapping
    <1>4. TypeOK'
        BY <1>1, <1>2, <1>3, EmptyQueue DEF IInv, TypeOK, response, mapping, Items
    <1>5. TurnInv'
        BY <1>1, <1>2, <1>3 DEF IInv, TurnInv, Completed, Interrupted, response
    <1> QED BY <1>1, <1>3, <1>4, <1>5, EmptyQueue DEF IInv

LEMMA CancelProducerOK == ASSUME IInv, CancelProducer PROVE IInv'
    <1>1. /\ producer = "running" /\ producer' = "over"
          /\ run' = "cancelled" /\ sdkq' = << >> /\ log' = Append(log, Closed)
          /\ UNCHANGED <<turn, call, nested, mapping, sequence, response, client, files>>
        BY DEF CancelProducer
    <1>2. "turn_error" \in Final /\ "turn_error" # "turn_interrupt"
        BY DEF Final
    <1>3. /\ LogInv' /\ OutInv' /\ log' \in Seq(Items) /\ sequence' \in Nat
          /\ taken' <= Len(log')
          /\ \A i \in DOMAIN log' : log'[i].type = "turn_interrupt" =>
                \/ i \in DOMAIN log /\ log[i].type = "turn_interrupt"
                \/ Conclude("turn_error") /\ "turn_error" = "turn_interrupt"
        BY <1>1, <1>2, CloseOK DEF response, mapping
    <1>4. TypeOK'
        BY <1>1, <1>3, EmptyQueue DEF IInv, TypeOK, response, mapping, Items
    <1>5. TurnInv'
        BY <1>1, <1>2, <1>3 DEF IInv, TurnInv, Completed, Interrupted, response
    <1> QED BY <1>1, <1>3, <1>4, <1>5, EmptyQueue DEF IInv
-----------------------------------------------------------------------------
(***************************************************************************)
(* The response generator.                                                 *)
(***************************************************************************)
\* The log stays; its producer may end.
LEMMA SameLogOK ==
    ASSUME IInv, UNCHANGED <<mapping, sequence, log>>, producer' \in {producer, "over"}
    PROVE  LogInv'
    <1>1. NumberInv' /\ ClosedInv'
        BY DEF IInv, LogInv, NumberInv, ClosedInv
    <1>2. MemoryInv' /\ ResultsNamed' /\ InvocationsApart'
        BY DEF IInv, LogInv, MemoryInv, ResultsNamed, InvocationsApart, mapping
    <1> QED BY <1>1, <1>2 DEF LogInv

\* What the generator has pulled so far is what the client has read.
LEMMA PulledSoFar ==
    ASSUME IInv, gen = "pulling"
    PROVE  /\ log \in Seq(Items) /\ out \in Seq(Envelopes)
           /\ Len(out) = taken /\ taken \in Nat /\ DOMAIN out = 1..taken
           /\ Len(log) \in Nat /\ DOMAIN log = 1..Len(log) /\ taken <= Len(log)
           /\ \A i \in 1..taken : i \in DOMAIN log /\ out[i] = log[i] /\ log[i] # Closed
    <1>1. /\ log \in Seq(Items) /\ out \in Seq(Envelopes) /\ Len(out) = taken
          /\ taken \in Nat /\ taken <= Len(log)
          /\ \A i \in 1..taken : log[i] # Closed
        BY DEF IInv, TypeOK, OutInv, Items
    <1>2. Len(log) \in Nat /\ DOMAIN log = 1..Len(log) /\ DOMAIN out = 1..taken
        BY <1>1
    <1>3. \A i \in DOMAIN out : i \in DOMAIN log /\ out[i] = log[i]
        BY DEF IInv, OutInv
    <1> QED BY <1>1, <1>2, <1>3

LEMMA SendOK == ASSUME IInv, Send PROVE IInv'
    <1> DEFINE m == log[taken + 1]
    <1>1. /\ gen = "pulling" /\ taken < Len(log) /\ m # Closed
          /\ taken' = taken + 1 /\ out' = Append(out, m)
          /\ UNCHANGED <<turn, sdk, mapping, sink, gen, client, files>>
        BY DEF Send, Waiting, IsEvent
    <1>2. /\ log \in Seq(Items) /\ out \in Seq(Envelopes)
          /\ Len(out) = taken /\ taken \in Nat /\ Len(log) \in Nat
          /\ DOMAIN log = 1..Len(log)
          /\ \A i \in 1..taken : i \in DOMAIN log /\ out[i] = log[i] /\ log[i] # Closed
        BY <1>1, PulledSoFar
    <1>3. taken + 1 \in DOMAIN log /\ m \in Envelopes
        <2>1. taken + 1 \in DOMAIN log
            BY <1>1, <1>2
        <2>2. m \in Items
            BY <1>2, <2>1
        <2> QED BY <1>1, <2>1, <2>2 DEF Items
    <1> HIDE DEF m
    <1>4. /\ out' \in Seq(Envelopes) /\ Len(out') = taken + 1
          /\ DOMAIN out' = 1..(taken + 1)
          /\ \A i \in 1..taken : out'[i] = out[i]
          /\ out'[taken + 1] = m
        BY <1>1, <1>2, <1>3, AppendFacts
    <1>5. \A i \in 1..(taken + 1) : i \in DOMAIN log /\ out'[i] = log[i] /\ log[i] # Closed
        <2> SUFFICES ASSUME NEW i \in 1..(taken + 1)
                     PROVE  i \in DOMAIN log /\ out'[i] = log[i] /\ log[i] # Closed
            OBVIOUS
        <2>1. CASE i \in 1..taken
            BY <1>2, <1>4, <2>1
        <2>2. CASE i = taken + 1
            BY <1>1, <1>3, <1>4, <2>2 DEF m
        <2> QED BY <1>2, <2>1, <2>2
    <1>6. TypeOK'
        BY <1>1, <1>2, <1>4 DEF IInv, TypeOK, sdk, mapping, sink
    <1>7. OutInv'
        <2>1. \A i \in DOMAIN out' : \A j \in 1..i : j \in 1..(taken + 1)
            BY <1>2, <1>4
        <2> QED BY <1>1, <1>4, <1>5, <2>1 DEF OutInv, sink
    <1>8. QueueInv' /\ TurnInv'
        BY <1>1 DEF IInv, QueueInv, TurnInv, sdk, sink
    <1>9. LogInv'
        BY <1>1, SameLogOK DEF sink
    <1> QED BY <1>6, <1>7, <1>8, <1>9 DEF IInv

\* The adapter's own error after what the client has read so far.
LEMMA OwnErrorOK ==
    ASSUME IInv, gen = "pulling", UNCHANGED log, out' = Append(out, OwnError),
           \A i \in 1..taken : log[i].type # "turn_interrupt",
           gen' = "refused"
    PROVE  OutInv' /\ out' \in Seq(Envelopes)
    <1>1. /\ out \in Seq(Envelopes) /\ Len(out) = taken /\ taken \in Nat
          /\ \A i \in 1..taken : i \in DOMAIN log /\ out[i] = log[i] /\ log[i] # Closed
        BY PulledSoFar
    <1>2. /\ out' \in Seq(Envelopes) /\ Len(out') = taken + 1
          /\ DOMAIN out' = 1..(taken + 1)
          /\ \A i \in 1..taken : out'[i] = out[i]
          /\ out'[taken + 1] = OwnError
        BY <1>1, OwnErrorType, AppendFacts
    <1>3. \A i \in 1..(taken + 1) : i \in 1..taken \/ i = taken + 1
        BY <1>1
    <1>4. ~Interrupted'
        BY <1>1, <1>2, <1>3, OwnErrorType DEF Interrupted
    <1>5. \A i \in 1..taken : \A j \in 1..i : j \in 1..taken
        BY <1>1
    <1>6. \A i \in DOMAIN out' :
             \/ i \in DOMAIN log /\ out'[i] = log[i] /\ \A j \in 1..i : log[j] # Closed
             \/ out'[i] = OwnError /\ i = Len(out')
        BY <1>1, <1>2, <1>3, <1>5
    <1>7. Len(out') > 0
        BY <1>1, <1>2
    <1> QED BY <1>2, <1>4, <1>6, <1>7 DEF OutInv

\* The response ends without a further frame.
LEMMA NoFrameOK ==
    ASSUME IInv, gen = "pulling", UNCHANGED <<log, out>>, gen' \in {"broken", "gone"}
    PROVE  OutInv'
    BY DEF IInv, OutInv

LEMMA EncodeFailsOK == ASSUME IInv, EncodeFails PROVE IInv'
    <1>1. /\ gen = "pulling" /\ taken < Len(log)
          /\ log[taken + 1] # Closed
          /\ taken' = taken + 1
          /\ UNCHANGED <<turn, sdk, mapping, sink, client, files>>
        BY DEF EncodeFails, Waiting, IsEvent
    <1>2. \/ gen' = "broken" /\ UNCHANGED out
          \/ gen' = "refused" /\ out' = Append(out, OwnError)
        BY DEF EncodeFails, RaiseInResponse
    <1>3. /\ taken \in Nat /\ Len(log) \in Nat /\ DOMAIN log = 1..Len(log)
          /\ \A i \in 1..taken : i \in DOMAIN log /\ log[i] # Closed
        BY <1>1, PulledSoFar
    <1>4. ASSUME NEW i \in 1..taken PROVE log[i].type # "turn_interrupt"
        <2> SUFFICES ASSUME log[i].type = "turn_interrupt" PROVE FALSE
            OBVIOUS
        <2>1. i + 1 \in DOMAIN log /\ log[i + 1] = Closed
            BY <1>3 DEF IInv, LogInv, ClosedInv, Final
        <2>2. i = taken
            BY <1>3, <2>1
        <2> QED BY <1>1, <2>1, <2>2
    <1>5. OutInv' /\ out' \in Seq(Envelopes)
        <2>1. CASE gen' = "broken" /\ UNCHANGED out
            BY <1>1, <2>1, NoFrameOK DEF sink, IInv, TypeOK
        <2>2. CASE gen' = "refused" /\ out' = Append(out, OwnError)
            BY <1>1, <1>4, <2>2, OwnErrorOK DEF sink
        <2> QED BY <1>2, <2>1, <2>2
    <1>6. TypeOK'
        BY <1>1, <1>2, <1>3, <1>5 DEF IInv, TypeOK, sdk, mapping, sink
    <1>7. QueueInv' /\ TurnInv'
        BY <1>1, <1>2 DEF IInv, QueueInv, TurnInv, sdk, sink
    <1> QED BY <1>1, <1>5, <1>6, <1>7, SameLogOK DEF IInv, sink

LEMMA RefuseOK == ASSUME IInv, Refuse PROVE IInv'
    <1>1. /\ gen = "pulling" /\ log = << >> /\ producer' = "over" /\ run' = "none"
          /\ sdkq' = << >>
          /\ UNCHANGED <<turn, call, nested, mapping, sequence, log, taken, client, files>>
        BY DEF Refuse
    <1>2. \/ gen' = "broken" /\ UNCHANGED out
          \/ gen' = "refused" /\ out' = Append(out, OwnError)
        BY DEF Refuse, RaiseInResponse
    <1>3. \A i \in 1..taken : log[i].type # "turn_interrupt"
        BY <1>1, PulledSoFar
    <1>4. OutInv' /\ out' \in Seq(Envelopes)
        <2>1. CASE gen' = "broken" /\ UNCHANGED out
            BY <1>1, <2>1, NoFrameOK DEF IInv, TypeOK
        <2>2. CASE gen' = "refused" /\ out' = Append(out, OwnError)
            BY <1>1, <1>3, <2>2, OwnErrorOK
        <2> QED BY <1>2, <2>1, <2>2
    <1>5. TypeOK'
        BY <1>1, <1>2, <1>4, EmptyQueue DEF IInv, TypeOK, mapping
    <1>6. TurnInv'
        BY <1>1, <1>2 DEF IInv, TurnInv
    <1> QED BY <1>1, <1>4, <1>5, <1>6, SameLogOK, EmptyQueue DEF IInv

LEMMA EndResponseOK == ASSUME IInv, EndResponse PROVE IInv'
    <1>1. /\ gen = "pulling" /\ taken < Len(log) /\ log[taken + 1] = Closed
          /\ taken' = taken + 1 /\ gen' = "done"
          /\ files' = IF Completed THEN files \ {turn - 1} ELSE files
          /\ UNCHANGED <<turn, sdk, mapping, sink, out, client>>
        BY DEF EndResponse, Waiting
    <1>2. /\ taken \in Nat /\ Len(log) \in Nat /\ DOMAIN log = 1..Len(log)
          /\ Len(out) = taken /\ turn \in 1..MaxStreams
        BY <1>1, PulledSoFar DEF IInv, TypeOK
    <1>3. OutInv'
        <2>1. taken + 1 \in DOMAIN log
            BY <1>1, <1>2
        <2> QED BY <1>1, <1>2, <2>1 DEF IInv, OutInv, sink
    <1>4. TypeOK'
        BY <1>1, <1>2 DEF IInv, TypeOK, sdk, mapping, sink
    <1>5. TurnInv'
        <2>1. turn # turn - 1
            BY <1>2
        <2> QED BY <1>1, <2>1 DEF IInv, TurnInv, Completed, sdk, sink
    <1>6. QueueInv'
        BY <1>1 DEF IInv, QueueInv, sdk
    <1> QED BY <1>1, <1>3, <1>4, <1>5, <1>6, SameLogOK DEF IInv, sink

LEMMA DisconnectOK == ASSUME IInv, Disconnect PROVE IInv'
    <1>1. /\ gen = "pulling" /\ gen' = "gone"
          /\ UNCHANGED <<turn, sdk, mapping, sink, taken, out, client, files>>
        BY DEF Disconnect
    <1>2. TypeOK' /\ QueueInv' /\ TurnInv'
        BY <1>1 DEF IInv, TypeOK, QueueInv, TurnInv, sdk, mapping, sink
    <1> QED BY <1>1, <1>2, NoFrameOK, SameLogOK DEF IInv, sink
-----------------------------------------------------------------------------
(***************************************************************************)
(* The client.                                                             *)
(***************************************************************************)
LEMMA FinishReadingOK == ASSUME IInv, FinishReading PROVE IInv'
    <1>1. /\ gen \in {"done", "refused"} /\ client' = IF Interrupted THEN "deciding" ELSE "ended"
          /\ UNCHANGED <<turn, sdk, mapping, sink, response, files>>
        BY DEF FinishReading, AtEnd
    <1>2. TypeOK' /\ QueueInv'
        BY <1>1 DEF IInv, TypeOK, QueueInv, sdk, mapping, sink, response
    <1>3. TurnInv'
        BY <1>1 DEF IInv, TurnInv, OutInv, Completed, Interrupted, sdk, sink, response
    <1> QED BY <1>1, <1>2, <1>3, QuietOK DEF IInv

LEMMA GiveUpOK == ASSUME IInv, GiveUp PROVE IInv'
    <1>1. /\ client' = "failed" /\ UNCHANGED <<turn, sdk, mapping, sink, response, files>>
        BY DEF GiveUp
    <1>2. TypeOK' /\ QueueInv'
        BY <1>1 DEF IInv, TypeOK, QueueInv, sdk, mapping, sink, response
    <1>3. TurnInv'
        BY <1>1 DEF IInv, TurnInv, Completed, Interrupted, sdk, sink, response
    <1> QED BY <1>1, <1>2, <1>3, QuietOK DEF IInv

\* A client that decides has read the interruption, and the queue's end.
LEMMA DecidingOK ==
    ASSUME IInv, client = "deciding"
    PROVE  /\ turn < MaxStreams /\ files = {turn} /\ gen = "done"
           /\ \E i \in DOMAIN log : /\ log[i].type = "turn_interrupt" /\ i = Len(out)
                                    /\ i + 1 \in DOMAIN log /\ log[i + 1] = Closed
    <1>1. gen = "done" /\ Interrupted
        BY DEF IInv, TurnInv
    <1>2. PICK i \in DOMAIN out : out[i].type = "turn_interrupt"
        BY <1>1 DEF Interrupted
    <1>3. i \in DOMAIN log /\ log[i].type = "turn_interrupt"
        BY <1>1, <1>2 DEF IInv, OutInv
    <1>4. Completed
        BY <1>2 DEF Completed
    <1>5. turn < MaxStreams /\ files = {turn}
        BY <1>1, <1>3, <1>4 DEF IInv, TurnInv
    <1>6. i + 1 \in DOMAIN log /\ log[i + 1] = Closed
        BY <1>3 DEF IInv, LogInv, ClosedInv, Final
    <1>7. Len(out) + 1 = i + 1
        BY <1>1, <1>6 DEF IInv, OutInv, LogInv, ClosedInv
    <1>8. i \in Nat /\ Len(out) \in Nat
        BY DEF IInv, TypeOK
    <1> QED BY <1>1, <1>3, <1>5, <1>6, <1>7, <1>8

LEMMA ResumeOK == ASSUME IInv, Resume PROVE IInv'
    <1>1. turn < MaxStreams /\ files = {turn} /\ turn \in Nat
        BY DecidingOK DEF Resume, IInv, TypeOK
    <1>2. /\ sdkq' \in Seq(({"updated", "called"} \cup Outputs) \X (Calls \cup {None}))
          /\ QueueInv'
        BY DEF Resume, QueueInv
    <1>3. TypeOK'
        BY <1>1, <1>2, StreamsBounded DEF Resume, IInv, TypeOK
    <1>4. LogInv' /\ OutInv'
        BY DEF Resume, LogInv, NumberInv, ClosedInv, MemoryInv, ResultsNamed,
            InvocationsApart, OutInv
    <1>5. TurnInv'
        <2>1. turn' - 1 = turn
            BY <1>1 DEF Resume
        <2> QED BY <1>1, <2>1 DEF Resume, TurnInv
    <1> QED BY <1>2, <1>3, <1>4, <1>5 DEF IInv
-----------------------------------------------------------------------------
LEMMA StepOK == IInv /\ [Next]_vars => IInv'
    <1> SUFFICES ASSUME IInv, [Next]_vars PROVE IInv'
        OBVIOUS
    <1>1. ASSUME UNCHANGED vars PROVE IInv'
        <2>1. UNCHANGED <<turn, sdk, mapping, sink, response, client, files>>
            BY <1>1 DEF vars
        <2>2. TypeOK' /\ QueueInv' /\ TurnInv'
            BY <2>1 DEF IInv, TypeOK, QueueInv, TurnInv, Completed, Interrupted, sdk,
                mapping, sink, response
        <2> QED BY <2>1, <2>2, QuietOK DEF IInv
    <1>2. CASE Runner
        BY <1>2, StopRunOK, CallToolOK, AnswerCallOK, NestedEventOK, ChallengeOK DEF Runner
    <1>3. CASE Producer
        BY <1>3, MapNextOK, ConcludeRunOK, ConcludeFailedOK, CancelProducerOK DEF Producer
    <1>4. CASE Server
        BY <1>4, SendOK, EncodeFailsOK, EndResponseOK, DisconnectOK DEF Server
    <1>5. CASE Client
        BY <1>5, FinishReadingOK, GiveUpOK, ResumeOK DEF Client
    <1> QED BY <1>1, <1>2, <1>3, <1>4, <1>5, RefuseOK DEF Next, Over

\* The inductive invariant holds for any calls and number of streams.
THEOREM StreamInvariant == Spec => []IInv
    BY InitOK, StepOK, PTL DEF Spec

\* The producer, its sink, the response and the client keep to their types.
THEOREM StreamTypes == Spec => []TypeOK
    <1>1. IInv => TypeOK
        BY DEF IInv
    <1> QED BY <1>1, StreamInvariant, PTL

\* QueueEventSink numbers the events of all its emitters as the client reads
\* them, for any number of events.
THEOREM Numbering == Spec => []NumberedInOrder
    <1>1. IInv => NumberedInOrder
        BY DEF IInv, OutInv, LogInv, NumberInv, NumberedInOrder
    <1> QED BY <1>1, StreamInvariant, PTL

\* map_stream_event names each result whose call it has seen in this stream.
THEOREM NamesKept == Spec => []ResultsNamed
    <1>1. IInv => ResultsNamed
        BY DEF IInv, LogInv
    <1> QED BY <1>1, StreamInvariant, PTL

\* nested_stream_handler tells the invocations of a subagent apart: what one of
\* them is told of a previous agent comes from its own nested run.
THEOREM NestedApart == Spec => []InvocationsApart
    <1>1. IInv => InvocationsApart
        BY DEF IInv, LogInv
    <1> QED BY <1>1, StreamInvariant, PTL

\* A client that resumes at the end of each stream leaves no old checkpoint.
THEOREM CheckpointsSpent == Spec => []OneCheckpoint
    <1>1. IInv => OneCheckpoint
        BY DecidingOK DEF OneCheckpoint
    <1> QED BY <1>1, StreamInvariant, PTL
-----------------------------------------------------------------------------
(***************************************************************************)
(* EventStream implements EventFeed.                                       *)
(***************************************************************************)
LEMMA PrefixIsSubSeq ==
    ASSUME NEW S, NEW s \in Seq(S), NEW t \in Seq(S), Len(s) <= Len(t),
           \A i \in 1..Len(s) : t[i] = s[i]
    PROVE  SubSeq(t, 1, Len(s)) = s
    <1> DEFINE n == Len(s)
               u == SubSeq(t, 1, n)
    <1>1. n \in Nat /\ \A i \in 1..n : t[i] \in S
        OBVIOUS
    <1>2. /\ u \in Seq(S) /\ Len(u) = IF 1 <= n THEN n - 1 + 1 ELSE 0
          /\ \A i \in 1..(n - 1 + 1) : u[i] = t[1 + i - 1]
        BY <1>1, SubSeqProperties
    <1> HIDE DEF n, u
    <1>3. \A i \in 1..n : i \in 1..(n - 1 + 1) /\ 1 + i - 1 = i
        BY <1>1
    <1>4. Len(u) = n /\ \A i \in 1..n : u[i] = t[i]
        BY <1>1, <1>2, <1>3
    <1>5. u = s
        BY <1>2, <1>4, SeqEqual DEF n
    <1> QED BY <1>5 DEF u, n

\* The feed of the log l, and Feed as that of the log now and after the step.
FeedOf(l) ==
    LET n == IF \E i \in DOMAIN l : l[i] = Closed
             THEN (CHOOSE i \in DOMAIN l : l[i] = Closed) - 1
             ELSE Len(l)
    IN  SubSeq(l, 1, n)

LEMMA FeedIs == Feed = FeedOf(log) /\ Feed' = FeedOf(log')
    BY DEF Feed, IsClosed, FeedOf

\* The feed of a log that is not closed.
LEMMA FeedOfOpen ==
    ASSUME NEW l \in Seq(Items), \A i \in DOMAIN l : l[i] # Closed
    PROVE  FeedOf(l) = l
    <1>1. FeedOf(l) = SubSeq(l, 1, Len(l))
        BY DEF FeedOf
    <1>2. SubSeq(l, 1, Len(l)) = l
        BY SubSeqFull
    <1> QED BY <1>1, <1>2

LEMMA FeedOfEmpty == FeedOf(<< >>) = << >>
    <1>1. << >> \in Seq(Items) /\ DOMAIN << >> = {}
        OBVIOUS
    <1> QED BY <1>1, FeedOfOpen

\* The feed of a log that was closed at c.
LEMMA FeedOfClosed ==
    ASSUME NEW l \in Seq(Items), NEW c \in DOMAIN l, l[c] = Closed,
           \A i \in DOMAIN l : l[i] = Closed => i = c
    PROVE  /\ FeedOf(l) \in Seq(Items) /\ Len(FeedOf(l)) = c - 1
           /\ \A i \in 1..(c - 1) : FeedOf(l)[i] = l[i]
    <1>1. (CHOOSE i \in DOMAIN l : l[i] = Closed) = c
        OBVIOUS
    <1>2. FeedOf(l) = SubSeq(l, 1, c - 1)
        BY <1>1 DEF FeedOf
    <1>3. c \in Nat /\ c > 0 /\ c <= Len(l) /\ Len(l) \in Nat
        OBVIOUS
    <1> DEFINE n == c - 1
               f == FeedOf(l)
    <1>4. n \in Nat /\ \A i \in 1..n : l[i] \in Items
        BY <1>3
    <1>5. /\ f \in Seq(Items) /\ Len(f) = IF 1 <= n THEN n - 1 + 1 ELSE 0
          /\ \A i \in 1..(n - 1 + 1) : f[i] = l[1 + i - 1]
        BY <1>2, <1>4, SubSeqProperties
    <1> HIDE DEF n, f
    <1>6. \A i \in 1..n : i \in 1..(n - 1 + 1) /\ 1 + i - 1 = i
        BY <1>4
    <1>7. Len(f) = n /\ \A i \in 1..n : f[i] = l[i]
        BY <1>4, <1>5, <1>6
    <1> QED BY <1>5, <1>7 DEF n, f

\* How much the client has read of the feed.
Seen == IF gen = "refused" THEN Len(out) - 1 ELSE Len(out)

LEMMA FeedStays ==
    ASSUME Feed' = Feed, Seen' = Seen PROVE UNCHANGED Promise!vars
    BY DEF Seen, Promise!vars

\* A feed whose log is open is not finished.
LEMMA OpenIsUnfinished ==
    ASSUME IInv, \A i \in DOMAIN log : log[i] # Closed
    PROVE  Feed = log /\ log \in Seq(Items) /\ ~Promise!Finished
    <1>1. log \in Seq(Items) /\ Feed = log
        BY FeedIs, FeedOfOpen DEF IInv, TypeOK, Items
    <1>2. log # << >> => Len(log) \in DOMAIN log
        BY <1>1
    <1>3. \A i \in DOMAIN log : log[i].type \notin Final
        BY DEF IInv, LogInv, ClosedInv
    <1> QED BY <1>1, <1>2, <1>3 DEF Promise!Finished, IsTerminal

\* An event is put on the queue: it is published, unless the queue is closed.
LEMMA EmissionPublishes ==
    ASSUME IInv, NEW m \in Envelopes, log' = Append(log, m), Seen' = Seen
    PROVE  Promise!Publish \/ UNCHANGED Promise!vars
    <1>1. /\ log \in Seq(Items) /\ m \in Items /\ m # Closed
        BY ClosedIsNoEvent DEF IInv, TypeOK, Items
    <1>2. /\ log' \in Seq(Items) /\ Len(log) \in Nat /\ Len(log') = Len(log) + 1
          /\ DOMAIN log = 1..Len(log) /\ DOMAIN log' = 1..(Len(log) + 1)
          /\ \A i \in 1..Len(log) : log'[i] = log[i]
          /\ log'[Len(log) + 1] = m
        BY <1>1, AppendFacts
    <1>3. CASE \A i \in DOMAIN log : log[i] # Closed
        <2>1. Feed = log /\ ~Promise!Finished
            BY <1>3, OpenIsUnfinished
        <2>2. \A i \in DOMAIN log' : log'[i] # Closed
            BY <1>1, <1>2, <1>3
        <2>3. Feed' = log'
            BY <1>2, <2>2, FeedIs, FeedOfOpen
        <2>4. SubSeq(log', 1, Len(log)) = log
            BY <1>1, <1>2, PrefixIsSubSeq
        <2> QED BY <1>2, <2>1, <2>3, <2>4 DEF Promise!Publish, Seen
    <1>4. CASE \E i \in DOMAIN log : log[i] = Closed
        <2> PICK c \in DOMAIN log : log[c] = Closed
            BY <1>4
        <2>1. \A i \in DOMAIN log : log[i] = Closed => i = c
            BY DEF IInv, LogInv, ClosedInv
        <2>2. /\ c \in DOMAIN log' /\ log'[c] = Closed /\ c - 1 \in Nat
              /\ \A i \in DOMAIN log' : log'[i] = Closed => i = c
            BY <1>1, <1>2, <2>1
        <2>3. /\ Feed \in Seq(Items) /\ Len(Feed) = c - 1
              /\ \A i \in 1..(c - 1) : Feed[i] = log[i]
            BY <1>1, <2>1, FeedIs, FeedOfClosed
        <2>4. /\ Feed' \in Seq(Items) /\ Len(Feed') = c - 1
              /\ \A i \in 1..(c - 1) : Feed'[i] = log'[i]
            BY <1>2, <2>2, FeedIs, FeedOfClosed
        <2>5. \A i \in 1..(c - 1) : log'[i] = log[i]
            BY <1>2
        <2>6. Feed' = Feed
            BY <2>3, <2>4, <2>5, SeqEqual
        <2> QED BY <2>6, FeedStays
    <1> QED BY <1>3, <1>4

\* The producer's terminal event is published, and the queue closed behind it.
LEMMA ConcludePublishes ==
    ASSUME IInv, producer = "running", NEW type \in Final, Conclude(type), Seen' = Seen
    PROVE  Promise!Publish
    <1> DEFINE m == Numbered(Event(type, None, "none"), sequence + 1)
               l == Append(log, m)
               n == Len(log) + 1
    <1>1. \A i \in DOMAIN log : log[i] # Closed
        BY DEF IInv, LogInv, ClosedInv
    <1>2. Feed = log /\ log \in Seq(Items) /\ ~Promise!Finished
        BY <1>1, OpenIsUnfinished
    <1>3. m \in Items /\ m # Closed /\ Closed \in Items
        <2>1. type \in Types /\ "none" \in Notes /\ sequence + 1 \in Nat
            BY DEF Types, Final, Notes, IInv, TypeOK
        <2> QED BY <2>1, EventType, ClosedIsNoEvent DEF Items
    <1>4. log' = Append(l, Closed)
        BY DEF Conclude
    <1> HIDE DEF m
    <1>5. /\ l \in Seq(Items) /\ Len(log) \in Nat /\ Len(l) = n
          /\ DOMAIN log = 1..Len(log) /\ DOMAIN l = 1..n
          /\ \A i \in 1..Len(log) : l[i] = log[i]
          /\ l[n] = m
        BY <1>2, <1>3, AppendFacts
    <1> HIDE DEF l
    <1>6. /\ log' \in Seq(Items) /\ DOMAIN log' = 1..(n + 1)
          /\ \A i \in 1..n : log'[i] = l[i]
          /\ log'[n + 1] = Closed
        BY <1>3, <1>4, <1>5, AppendFacts
    <1>7. \A i \in DOMAIN l : l[i] # Closed
        BY <1>1, <1>3, <1>5
    <1>8. n + 1 \in DOMAIN log' /\ \A i \in DOMAIN log' : log'[i] = Closed => i = n + 1
        BY <1>5, <1>6, <1>7
    <1>9. /\ Feed' \in Seq(Items) /\ Len(Feed') = (n + 1) - 1
          /\ \A i \in 1..((n + 1) - 1) : Feed'[i] = log'[i]
        BY <1>6, <1>8, FeedIs, FeedOfClosed
    <1>10. Len(Feed') = n /\ \A i \in 1..Len(log) : Feed'[i] = log[i]
        BY <1>5, <1>6, <1>9
    <1>11. SubSeq(Feed', 1, Len(log)) = log
        BY <1>2, <1>5, <1>9, <1>10, PrefixIsSubSeq
    <1> QED BY <1>2, <1>10, <1>11 DEF Promise!Publish, Seen

\* The queue is closed without a terminal event.
LEMMA CancelPublishesNot ==
    ASSUME IInv, CancelProducer PROVE UNCHANGED Promise!vars
    <1>1. /\ producer = "running" /\ log' = Append(log, Closed) /\ Seen' = Seen
        BY DEF CancelProducer, response, Seen
    <1>2. \A i \in DOMAIN log : log[i] # Closed
        BY <1>1 DEF IInv, LogInv, ClosedInv
    <1>3. Feed = log /\ log \in Seq(Items) /\ Closed \in Items
        BY <1>2, OpenIsUnfinished DEF Items
    <1> DEFINE n == Len(log) + 1
    <1>4. /\ log' \in Seq(Items) /\ Len(log) \in Nat
          /\ DOMAIN log = 1..Len(log) /\ DOMAIN log' = 1..n
          /\ \A i \in 1..Len(log) : log'[i] = log[i]
          /\ log'[n] = Closed
        BY <1>1, <1>3, AppendFacts
    <1>5. n \in DOMAIN log' /\ \A i \in DOMAIN log' : log'[i] = Closed => i = n
        BY <1>2, <1>4
    <1>6. /\ Feed' \in Seq(Items) /\ Len(Feed') = n - 1
          /\ \A i \in 1..(n - 1) : Feed'[i] = log'[i]
        BY <1>4, <1>5, FeedIs, FeedOfClosed
    <1>7. n - 1 = Len(log)
        BY <1>4
    <1>8. Feed' = log
        BY <1>3, <1>4, <1>6, <1>7, SeqEqual
    <1> QED BY <1>1, <1>3, <1>8, FeedStays

\* The runner and the mapping put one event on the queue at a time, if any.
LEMMA OneEmission ==
    ASSUME IInv, Runner \/ MapNext
    PROVE  /\ UNCHANGED <<turn, gen, out, client, files, producer>>
           /\ UNCHANGED log \/ \E m \in Envelopes : log' = Append(log, m)
    <1>1. UNCHANGED <<turn, gen, out, client, files, producer>>
        BY DEF Runner, StopRun, CallTool, AnswerCall, NestedEvent, Challenge, MapNext,
            Emit, sink, response
    <1>2. CASE \/ StopRun
               \/ \E k \in Calls : CallTool(k) \/ AnswerCall(k)
        BY <1>1, <1>2 DEF StopRun, CallTool, AnswerCall, sink
    <1>3. ASSUME NEW k \in Calls, NestedEvent(k) \/ Challenge(k)
          PROVE  \E m \in Envelopes : log' = Append(log, m)
        <2>1. sequence + 1 \in Nat
            BY DEF IInv, TypeOK
        <2>2. PICK type \in Types, note \in Notes :
                  log' = Append(log, Numbered(Event(type, k, note), sequence + 1))
            <3>1. CASE Challenge(k)
                BY <3>1 DEF Challenge, Emit, Types, Notes
            <3>2. CASE NestedEvent(k) /\ nested[k] = 0
                BY <3>2 DEF NestedEvent, Emit, Types, Notes, PreviousOf
            <3>3. CASE NestedEvent(k) /\ nested[k] # 0
                BY <3>3 DEF NestedEvent, Emit, Types, Notes
            <3> QED BY <1>3, <3>1, <3>2, <3>3
        <2> QED BY <2>1, <2>2, EventType
    <1>4. ASSUME MapNext PROVE \E m \in Envelopes : log' = Append(log, m)
        <2> DEFINE x == Head(sdkq)
        <2>1. sequence + 1 \in Nat
            BY DEF IInv, TypeOK
        <2>2. /\ x[1] \in {"updated", "called"} \cup Outputs /\ x[2] \in Calls \cup {None}
              /\ log' = Append(log, Numbered(Mapped(x), sequence + 1))
            BY <1>4 DEF MapNext, Emit, IInv, TypeOK
        <2> HIDE DEF x
        <2>3. \E type \in Types, of \in Calls \cup {None}, note \in Notes :
                  Mapped(x) = Event(type, of, note)
            <3>1. CASE x[1] = "updated"
                BY <3>1 DEF Mapped, Outputs, Types, Notes
            <3>2. CASE x[1] = "called"
                BY <2>2, <3>2 DEF Mapped, Outputs, Types, Notes
            <3>3. CASE x[1] \in Outputs
                <4>1. Mapped(x) = Event("tool_result", x[2], NameOf(x))
                    BY <3>3 DEF Mapped, Outputs
                <4>2. "tool_result" \in Types /\ NameOf(x) \in Notes
                    BY DEF Types, Notes, NameOf
                <4> QED BY <2>2, <4>1, <4>2
            <3> QED BY <2>2, <3>1, <3>2, <3>3
        <2> QED BY <2>1, <2>2, <2>3, EventType
    <1> QED BY <1>1, <1>2, <1>3, <1>4 DEF Runner

LEMMA RunnerPublishes ==
    ASSUME IInv, Runner \/ MapNext PROVE Promise!Publish \/ UNCHANGED Promise!vars
    <1>1. Seen' = Seen
        BY OneEmission DEF Seen
    <1>2. CASE UNCHANGED log
        <2>1. Feed' = Feed
            BY <1>2 DEF Feed, IsClosed
        <2> QED BY <1>1, <2>1, FeedStays
    <1> QED BY <1>1, <1>2, OneEmission, EmissionPublishes

LEMMA ProducerPublishes ==
    ASSUME IInv, ConcludeRun \/ ConcludeFailed PROVE Promise!Publish
    <1>1. producer = "running" /\ Seen' = Seen
        BY DEF ConcludeRun, ConcludeFailed, response, Seen
    <1>2. \E type \in Final : Conclude(type)
        BY DEF ConcludeRun, ConcludeFailed, Final
    <1> QED BY <1>1, <1>2, ConcludePublishes

\* Frames are read in the feed's order; the adapter's own error is none of it.
LEMMA ServerReads ==
    ASSUME IInv, Server \/ Refuse PROVE Promise!Read \/ UNCHANGED Promise!vars
    <1>1. gen = "pulling" /\ UNCHANGED log
        BY DEF Server, Refuse, Send, EncodeFails, EndResponse, Disconnect, Waiting, sink
    <1>2. Feed' = Feed
        BY <1>1 DEF Feed, IsClosed
    <1>3. /\ log \in Seq(Items) /\ out \in Seq(Envelopes)
          /\ Len(out) = taken /\ taken \in Nat
          /\ Len(log) \in Nat /\ DOMAIN log = 1..Len(log) /\ taken <= Len(log)
          /\ \A i \in 1..taken : i \in DOMAIN log /\ out[i] = log[i] /\ log[i] # Closed
        BY <1>1, PulledSoFar
    <1>4. Seen = taken
        BY <1>1, <1>3 DEF Seen
    <1>5. CASE Send
        <2>1. /\ taken < Len(log) /\ log[taken + 1] # Closed /\ UNCHANGED gen
              /\ out' = Append(out, log[taken + 1])
            BY <1>5 DEF Send, Waiting, IsEvent
        <2>2. Seen' = taken + 1
            <3>1. taken + 1 \in DOMAIN log
                BY <1>3, <2>1
            <3>2. log[taken + 1] \in Envelopes
                BY <1>3, <2>1, <3>1 DEF Items
            <3> QED BY <1>1, <1>3, <2>1, <3>2, AppendFacts DEF Seen
        <2>3. taken < Len(Feed)
            <3>1. CASE \A i \in DOMAIN log : log[i] # Closed
                BY <1>3, <2>1, <3>1, FeedIs, FeedOfOpen
            <3>2. ASSUME NEW c \in DOMAIN log, log[c] = Closed PROVE taken < Len(Feed)
                <4>1. \A i \in DOMAIN log : log[i] = Closed => i = c
                    BY <3>2 DEF IInv, LogInv, ClosedInv
                <4>2. Len(Feed) = c - 1
                    BY <1>3, <3>2, <4>1, FeedIs, FeedOfClosed
                <4>3. c # taken + 1 /\ c \notin 1..taken /\ c \in 1..Len(log)
                    BY <1>3, <2>1, <3>2
                <4> QED BY <1>3, <4>2, <4>3
            <3> QED BY <3>1, <3>2
        <2> QED BY <1>2, <1>4, <2>2, <2>3 DEF Promise!Read, Seen
    <1>6. CASE \/ UNCHANGED out /\ gen' # "refused"
               \/ gen' = "refused" /\ out' = Append(out, OwnError)
        <2>1. CASE UNCHANGED out /\ gen' # "refused"
            <3>1. Seen' = Seen
                BY <1>1, <2>1 DEF Seen
            <3> QED BY <1>2, <3>1, FeedStays
        <2>2. CASE gen' = "refused" /\ out' = Append(out, OwnError)
            <3>1. Len(out') = taken + 1
                BY <1>3, <2>2, OwnErrorType, AppendFacts
            <3>2. Seen' = Seen
                BY <1>3, <1>4, <2>2, <3>1 DEF Seen
            <3> QED BY <1>2, <3>2, FeedStays
        <2> QED BY <1>6, <2>1, <2>2
    <1>7. Send \/ (UNCHANGED out /\ gen' # "refused")
               \/ (gen' = "refused" /\ out' = Append(out, OwnError))
        BY DEF Server, Refuse, EncodeFails, RaiseInResponse, EndResponse, Disconnect
    <1> QED BY <1>5, <1>6, <1>7

\* Only a feed that was read to its terminal event is followed by another.
LEMMA ClientRenews ==
    ASSUME IInv, Client PROVE Promise!Renew \/ UNCHANGED Promise!vars
    <1>1. CASE FinishReading \/ GiveUp
        <2>1. UNCHANGED <<log, gen, out>>
            BY <1>1 DEF FinishReading, GiveUp, sink, response
        <2>2. Feed' = Feed /\ Seen' = Seen
            BY <2>1 DEF Feed, IsClosed, Seen
        <2> QED BY <2>2, FeedStays
    <1>2. CASE Resume
        <2>1. gen = "done" /\ log \in Seq(Items)
            BY <1>2, DecidingOK DEF Resume, IInv, TypeOK, Items
        <2>2. PICK i \in DOMAIN log :
                  /\ log[i].type = "turn_interrupt" /\ i = Len(out)
                  /\ i + 1 \in DOMAIN log /\ log[i + 1] = Closed
            BY <1>2, DecidingOK DEF Resume
        <2>3. \A j \in DOMAIN log : log[j] = Closed => j = i + 1
            BY <2>2 DEF IInv, LogInv, ClosedInv
        <2>4. /\ Feed \in Seq(Items) /\ Len(Feed) = (i + 1) - 1
              /\ \A j \in 1..((i + 1) - 1) : Feed[j] = log[j]
            BY <2>1, <2>2, <2>3, FeedIs, FeedOfClosed
        <2>5. i \in Nat /\ i > 0
            BY <2>1
        <2>6. Len(Feed) = i /\ Feed[i] = log[i] /\ Feed # << >>
            BY <2>4, <2>5
        <2>7. log[i] \in Envelopes /\ IsTerminal(log[i])
            BY <2>1, <2>2 DEF Items, Closed, IsTerminal, Final
        <2>8. Promise!Finished
            BY <2>6, <2>7 DEF Promise!Finished
        <2>9. Feed' = << >>
            <3>1. log' = << >> /\ log' \in Seq(Items)
                BY <1>2 DEF Resume
            <3> QED BY <3>1, FeedIs, FeedOfEmpty
        <2>10. Seen = Len(Feed) /\ Seen' = 0
            BY <1>2, <2>1, <2>2, <2>6 DEF Resume, Seen
        <2> QED BY <2>8, <2>9, <2>10 DEF Promise!Renew, Seen
    <1> QED BY <1>1, <1>2 DEF Client

LEMMA FeedInit == Init => Promise!Init
    <1> SUFFICES ASSUME Init PROVE Promise!Init
        OBVIOUS
    <1>1. log = << >> /\ log \in Seq(Items)
        BY DEF Init
    <1>2. Feed = << >>
        BY <1>1, FeedIs, FeedOfEmpty
    <1> QED BY <1>2 DEF Init, Promise!Init

LEMMA FeedStep ==
    ASSUME IInv, [Next]_vars PROVE Promise!Next \/ UNCHANGED Promise!vars
    <1>1. ASSUME UNCHANGED vars PROVE UNCHANGED Promise!vars
        <2>1. UNCHANGED <<log, gen, out>>
            BY <1>1 DEF vars, sink, response
        <2>2. Feed' = Feed /\ Seen' = Seen
            BY <2>1 DEF Feed, IsClosed, Seen
        <2> QED BY <2>2, FeedStays
    <1>2. CASE Runner \/ Producer
        BY <1>2, RunnerPublishes, ProducerPublishes, CancelPublishesNot
        DEF Producer, Promise!Next
    <1>3. CASE Server \/ Refuse
        BY <1>3, ServerReads DEF Promise!Next
    <1>4. CASE Client
        BY <1>4, ClientRenews DEF Promise!Next
    <1> QED BY <1>1, <1>2, <1>3, <1>4 DEF Next, Over

\* Producer, nested handlers, guardrails, response and client implement one feed
\* of events, for any number of emitters, events and streams.
THEOREM StreamImplementsFeed == Spec => ImplementsFeed
    <1>1. Init => Promise!Init
        BY FeedInit
    <1>2. IInv /\ [Next]_vars => [Promise!Next]_(Promise!vars)
        BY FeedStep
    <1> QED BY <1>1, <1>2, StreamInvariant, PTL DEF Spec, ImplementsFeed, Promise!Spec
-----------------------------------------------------------------------------
(***************************************************************************)
(* A turn that is read to its end.                                         *)
(***************************************************************************)
\* Of what the client has read only the last event is a terminal one; who has
\* read to the end has such an event.
TerminalLast == \A i \in DOMAIN out : IsTerminal(out[i]) => i = Len(out)

ReadToTheEnd ==
    client \in {"ended", "deciding"} => out # << >> /\ IsTerminal(out[Len(out)])

\* While somebody reads, the queue is closed after a terminal event only.
ClosedAfterOutcome ==
    gen \in {"pulling", "done"} =>
        \A i \in DOMAIN log : log[i] = Closed => i > 1 /\ IsTerminal(log[i - 1])

\* A refusal is what comes last, and who has stopped reading was at the end.
LastWord ==
    /\ gen = "refused" => Len(out) > 0 /\ out[Len(out)] = OwnError
    /\ client \in {"ended", "deciding"} => AtEnd

TurnEnds == TerminalLast /\ ClosedAfterOutcome /\ LastWord

LEMMA TurnEndsInit == Init => TurnEnds
    BY DEF Init, TurnEnds, TerminalLast, ClosedAfterOutcome, LastWord

LEMMA TurnEndsEmit ==
    ASSUME IInv, TurnEnds, NEW m \in Envelopes, log' = Append(log, m),
           UNCHANGED <<gen, out, client>>
    PROVE  TurnEnds'
    <1>1. log \in Seq(Items) /\ m \in Items /\ m # Closed
        BY ClosedIsNoEvent DEF IInv, TypeOK, Items
    <1>2. /\ DOMAIN log = 1..Len(log) /\ DOMAIN log' = 1..(Len(log) + 1)
          /\ Len(log) \in Nat
          /\ \A i \in 1..Len(log) : log'[i] = log[i]
          /\ log'[Len(log) + 1] = m
        BY <1>1, AppendFacts
    <1>3. ASSUME gen \in {"pulling", "done"}, NEW i \in DOMAIN log', log'[i] = Closed
          PROVE  i > 1 /\ IsTerminal(log'[i - 1])
        <2>1. i \in DOMAIN log /\ log[i] = Closed
            BY <1>1, <1>2, <1>3
        <2>2. i > 1 /\ IsTerminal(log[i - 1])
            BY <1>3, <2>1 DEF TurnEnds, ClosedAfterOutcome
        <2>3. i - 1 \in 1..Len(log)
            BY <1>2, <2>1, <2>2
        <2> QED BY <1>2, <2>2, <2>3
    <1>4. ClosedAfterOutcome'
        BY <1>3 DEF ClosedAfterOutcome
    <1> QED BY <1>4 DEF TurnEnds, TerminalLast, LastWord, AtEnd

LEMMA TurnEndsConclude ==
    ASSUME IInv, TurnEnds, producer = "running", NEW type \in Final, Conclude(type),
           UNCHANGED <<gen, out, client>>
    PROVE  TurnEnds'
    <1> DEFINE m == Numbered(Event(type, None, "none"), sequence + 1)
               l == Append(log, m)
    <1>1. log \in Seq(Items) /\ m \in Items /\ IsTerminal(m) /\ Closed \in Items
        <2>1. sequence + 1 \in Nat /\ type \in Types /\ "none" \in Notes
            BY DEF IInv, TypeOK, Final, Types, Notes
        <2>2. m \in Envelopes
            BY <2>1, EventType
        <2> QED BY <2>2 DEF IInv, TypeOK, Items, IsTerminal, Numbered, Event
    <1>2. log' = Append(l, Closed)
        BY DEF Conclude
    <1> HIDE DEF m
    <1>3. /\ l \in Seq(Items) /\ Len(l) = Len(log) + 1 /\ Len(log) \in Nat
          /\ DOMAIN log = 1..Len(log)
          /\ \A i \in 1..Len(log) : l[i] = log[i]
          /\ l[Len(log) + 1] = m
        BY <1>1, AppendFacts
    <1> HIDE DEF l
    <1>4. /\ DOMAIN log' = 1..(Len(log) + 2)
          /\ \A i \in 1..(Len(log) + 1) : log'[i] = l[i]
        BY <1>1, <1>2, <1>3, AppendFacts
    <1>5. \A i \in DOMAIN log : log[i] # Closed
        BY DEF IInv, LogInv, ClosedInv
    <1>6. m # Closed
        BY <1>1 DEF IsTerminal, Closed, Final
    <1>7. ASSUME NEW i \in DOMAIN log', log'[i] = Closed
          PROVE  i > 1 /\ IsTerminal(log'[i - 1])
        <2>1. i = Len(log) + 2
            BY <1>3, <1>4, <1>5, <1>6, <1>7
        <2>2. log'[Len(log) + 1] = m
            BY <1>3, <1>4
        <2>3. i > 1 /\ i - 1 = Len(log) + 1
            BY <1>3, <2>1
        <2> QED BY <1>1, <2>2, <2>3
    <1>8. ClosedAfterOutcome'
        BY <1>7 DEF ClosedAfterOutcome
    <1> QED BY <1>8 DEF TurnEnds, TerminalLast, LastWord, AtEnd

\* What is on the queue after an event that was taken: the event was not the
\* terminal one, for that has the end of the queue next to it.
LEMMA NoneTerminalSoFar ==
    ASSUME IInv, gen = "pulling", taken < Len(log), log[taken + 1] # Closed
    PROVE  \A i \in DOMAIN out : ~IsTerminal(out[i])
    <1>1. /\ taken \in Nat /\ DOMAIN out = 1..taken /\ Len(log) \in Nat
          /\ \A i \in 1..taken : i \in DOMAIN log /\ out[i] = log[i] /\ log[i] # Closed
        BY PulledSoFar
    <1> SUFFICES ASSUME NEW i \in 1..taken, log[i].type \in Final PROVE FALSE
        BY <1>1 DEF IsTerminal
    <1>2. i + 1 \in DOMAIN log /\ log[i + 1] = Closed
        BY <1>1 DEF IInv, LogInv, ClosedInv
    <1>3. i + 1 \in 1..taken \/ i + 1 = taken + 1
        BY <1>1
    <1> QED BY <1>1, <1>2, <1>3

LEMMA TurnEndsServer ==
    ASSUME IInv, TurnEnds, Server \/ Refuse PROVE TurnEnds'
    <1>1. gen = "pulling" /\ UNCHANGED <<log, client>> /\ client \notin {"ended", "deciding"}
        BY DEF Server, Refuse, Send, EncodeFails, EndResponse, Disconnect, Waiting, sink,
            TurnEnds, LastWord, AtEnd
    <1>2. ClosedAfterOutcome'
        BY <1>1 DEF TurnEnds, ClosedAfterOutcome
    <1>3. /\ out \in Seq(Envelopes) /\ Len(out) = taken /\ taken \in Nat
          /\ log \in Seq(Items) /\ Len(log) \in Nat /\ DOMAIN log = 1..Len(log)
          /\ DOMAIN out = 1..taken
        BY <1>1, PulledSoFar
    <1>4. ASSUME NEW e \in Envelopes, out' = Append(out, e),
                 \A i \in DOMAIN out : ~IsTerminal(out[i])
          PROVE  TerminalLast' /\ Len(out') > 0 /\ out'[Len(out')] = e
        <2>1. /\ DOMAIN out' = 1..(taken + 1) /\ Len(out') = taken + 1
              /\ \A i \in 1..taken : out'[i] = out[i]
              /\ out'[taken + 1] = e
            BY <1>3, <1>4, AppendFacts
        <2>2. \A i \in 1..(taken + 1) : i \in 1..taken \/ i = taken + 1
            BY <1>3
        <2> QED BY <1>3, <1>4, <2>1, <2>2 DEF TerminalLast
    <1>5. CASE Send
        <2>1. taken < Len(log) /\ log[taken + 1] # Closed /\ out' = Append(out, log[taken + 1])
              /\ gen' = "pulling"
            BY <1>1, <1>5 DEF Send, Waiting, IsEvent
        <2>2. taken + 1 \in DOMAIN log
            BY <1>3, <2>1
        <2>3. log[taken + 1] \in Envelopes
            BY <1>3, <2>1, <2>2 DEF Items
        <2>4. TerminalLast'
            BY <1>1, <1>4, <2>1, <2>3, NoneTerminalSoFar
        <2> QED BY <1>1, <1>2, <2>1, <2>4 DEF TurnEnds, LastWord
    <1>6. CASE EncodeFails \/ Refuse
        <2>1. \A i \in DOMAIN out : ~IsTerminal(out[i])
            <3>1. CASE EncodeFails
                <4>1. taken < Len(log) /\ log[taken + 1] # Closed
                    BY <3>1 DEF EncodeFails, Waiting, IsEvent
                <4> QED BY <1>1, <4>1, NoneTerminalSoFar
            <3>2. CASE Refuse
                <4>1. taken = 0
                    BY <1>1, <3>2, PulledSoFar DEF Refuse
                <4> QED BY <1>3, <4>1
            <3> QED BY <1>6, <3>1, <3>2
        <2>2. CASE gen' = "broken" /\ UNCHANGED out
            BY <1>1, <1>2, <2>2 DEF TurnEnds, TerminalLast, LastWord
        <2>3. CASE gen' = "refused" /\ out' = Append(out, OwnError)
            <3>1. TerminalLast' /\ Len(out') > 0 /\ out'[Len(out')] = OwnError
                BY <1>4, <2>1, <2>3, OwnErrorType
            <3> QED BY <1>1, <1>2, <3>1 DEF TurnEnds, LastWord
        <2> QED BY <1>6, <2>2, <2>3 DEF EncodeFails, Refuse, RaiseInResponse
    <1>7. CASE EndResponse \/ Disconnect
        <2>1. UNCHANGED out /\ gen' \in {"done", "gone"}
            BY <1>7 DEF EndResponse, Disconnect
        <2> QED BY <1>1, <1>2, <2>1 DEF TurnEnds, TerminalLast, LastWord
    <1> QED BY <1>5, <1>6, <1>7 DEF Server

LEMMA TurnEndsClient ==
    ASSUME IInv, TurnEnds, Client PROVE TurnEnds'
    <1>1. CASE FinishReading \/ GiveUp
        <2>1. UNCHANGED <<log, gen, out>> /\ (AtEnd \/ client' = "failed")
            BY <1>1 DEF FinishReading, GiveUp, sink, response
        <2> QED BY <2>1, <1>1 DEF TurnEnds, TerminalLast, ClosedAfterOutcome, LastWord, AtEnd
    <1>2. CASE Resume
        BY <1>2 DEF Resume, TurnEnds, TerminalLast, ClosedAfterOutcome, LastWord
    <1> QED BY <1>1, <1>2 DEF Client

LEMMA TurnEndsStep == IInv /\ TurnEnds /\ [Next]_vars => TurnEnds'
    <1> SUFFICES ASSUME IInv, TurnEnds, [Next]_vars PROVE TurnEnds'
        OBVIOUS
    <1>1. ASSUME UNCHANGED <<log, gen, out, client>> PROVE TurnEnds'
        BY <1>1 DEF TurnEnds, TerminalLast, ClosedAfterOutcome, LastWord, AtEnd
    <1>2. CASE Runner \/ MapNext
        BY <1>1, <1>2, OneEmission, TurnEndsEmit
    <1>3. CASE ConcludeRun \/ ConcludeFailed
        <2>1. producer = "running" /\ UNCHANGED <<gen, out, client>>
            BY <1>3 DEF ConcludeRun, ConcludeFailed, response
        <2>2. \E type \in Final : Conclude(type)
            BY <1>3 DEF ConcludeRun, ConcludeFailed, Final
        <2> QED BY <2>1, <2>2, TurnEndsConclude
    <1>4. CASE CancelProducer
        BY <1>4 DEF CancelProducer, response, TurnEnds, TerminalLast, ClosedAfterOutcome,
            LastWord, AtEnd
    <1>5. CASE UNCHANGED vars
        BY <1>1, <1>5 DEF vars, sink, response
    <1> QED BY <1>2, <1>3, <1>4, <1>5, TurnEndsServer, TurnEndsClient
            DEF Next, Producer, Over

\* A client that reads on gets one outcome for each turn, as its last frame,
\* however the run ended and whoever closed the queue.
THEOREM WholeTurns == Spec => [](TerminalLast /\ ReadToTheEnd)
    <1>1. Spec => []TurnEnds
        BY TurnEndsInit, TurnEndsStep, StreamInvariant, PTL DEF Spec
    <1>2. IInv /\ TurnEnds => ReadToTheEnd
        <2> SUFFICES ASSUME IInv, TurnEnds, client \in {"ended", "deciding"}
                     PROVE  out # << >> /\ IsTerminal(out[Len(out)])
            BY DEF ReadToTheEnd
        <2>1. gen \in {"done", "refused"} /\ out \in Seq(Envelopes) /\ Len(out) \in Nat
            BY DEF TurnEnds, LastWord, AtEnd, IInv, TypeOK
        <2>2. CASE gen = "refused"
            BY <2>1, <2>2, OwnErrorType DEF TurnEnds, LastWord, IsTerminal, Final
        <2>3. CASE gen = "done"
            <3>1. Len(out) + 1 \in DOMAIN log /\ log[Len(out) + 1] = Closed
                BY <2>3 DEF IInv, OutInv
            <3>2. Len(out) + 1 > 1 /\ IsTerminal(log[(Len(out) + 1) - 1])
                BY <2>3, <3>1 DEF TurnEnds, ClosedAfterOutcome
            <3>3. Len(out) > 0 /\ IsTerminal(log[Len(out)]) /\ Len(out) \in DOMAIN out
                BY <2>1, <3>2
            <3>4. out[Len(out)] = log[Len(out)]
                BY <2>3, <3>3 DEF IInv, OutInv
            <3> QED BY <3>3, <3>4
        <2> QED BY <2>1, <2>2, <2>3
    <1> QED BY <1>1, <1>2, StreamInvariant, PTL DEF TurnEnds
-----------------------------------------------------------------------------
(***************************************************************************)
(* One conversation is a line of the ledger of checkpoints: the token of a *)
(* checkpoint is the number of the stream it ends, all of them belong to   *)
(* one subject, 1, and outcomes count when the response sends them.        *)
(***************************************************************************)
Streams == 1..MaxStreams

HeirOf(t) ==
    {s \in Streams : s = t + 1 /\ (s < turn \/ (s = turn /\ Interrupted))}

Answered == \E i \in DOMAIN out : out[i].type = "turn_complete"

Line == INSTANCE CheckpointLedgerProofs WITH
    Tokens <- Streams, Subjects <- {1}, None <- 0,
    owner    <- [t \in Streams |-> IF t < turn \/ t \in files THEN 1 ELSE 0],
    live     <- files,
    heirs    <- [t \in Streams |-> HeirOf(t)],
    finished <- {t \in Streams : t = turn - 1 /\ Answered}

\* A stream that is under way has no checkpoint of its own yet.
NoneOfItsOwn == producer = "running" => turn \notin files

LEMMA NoneOfItsOwnStep == IInv /\ NoneOfItsOwn /\ [Next]_vars => NoneOfItsOwn'
    <1> SUFFICES ASSUME IInv, NoneOfItsOwn, [Next]_vars PROVE NoneOfItsOwn'
        OBVIOUS
    <1>1. CASE Runner \/ MapNext
        BY <1>1, OneEmission DEF NoneOfItsOwn
    <1>2. CASE ConcludeRun \/ ConcludeFailed \/ CancelProducer \/ Refuse
        BY <1>2 DEF ConcludeRun, ConcludeFailed, CancelProducer, Refuse, Conclude, NoneOfItsOwn
    <1>3. CASE Server \/ FinishReading \/ GiveUp
        BY <1>3 DEF Server, Send, EncodeFails, EndResponse, Disconnect, FinishReading, GiveUp,
            sink, NoneOfItsOwn
    <1>4. CASE Resume
        <2>1. turn' = turn + 1 /\ files' = {turn} /\ turn \in Nat
            BY <1>4, DecidingOK DEF Resume, IInv, TypeOK
        <2> QED BY <2>1 DEF NoneOfItsOwn
    <1>5. CASE UNCHANGED vars
        BY <1>5 DEF vars, sink, NoneOfItsOwn
    <1> QED BY <1>1, <1>2, <1>3, <1>4, <1>5 DEF Next, Producer, Client, Over

LEMMA LineInit == Init => Line!Init
    BY DEF Init, Line!Init, Line!Issued, Streams, HeirOf, Interrupted, Answered

LEMMA LineStays ==
    ASSUME UNCHANGED <<turn, files>>, Interrupted' = Interrupted, Answered' = Answered
    PROVE  UNCHANGED Line!vars
    <1>1. ASSUME NEW t \in Streams PROVE HeirOf(t)' = HeirOf(t)
        BY DEF HeirOf
    <1> QED BY <1>1 DEF Line!vars

\* The run is interrupted: a checkpoint is issued.
LEMMA PauseIssues ==
    ASSUME IInv, NoneOfItsOwn, ConcludeRun PROVE Line!Next \/ UNCHANGED Line!vars
    <1>1. turn \in Streams /\ turn \notin files /\ UNCHANGED <<turn, out>>
        BY DEF ConcludeRun, NoneOfItsOwn, response, IInv, TypeOK, Streams
    <1>2. Interrupted' = Interrupted /\ Answered' = Answered
        BY <1>1 DEF Interrupted, Answered
    <1>3. CASE UNCHANGED files
        BY <1>1, <1>2, <1>3, LineStays
    <1>4. CASE files' = files \cup {turn}
        <2>1. ASSUME NEW t \in Streams PROVE HeirOf(t)' = HeirOf(t)
            BY <1>1, <1>2 DEF HeirOf
        <2>2. Line!Issue(turn, 1)
            <3>1. /\ ~(turn < turn) /\ files \subseteq Streams
                  /\ \A t \in Streams : (t < turn' \/ t \in files')
                                        <=> (t < turn \/ t \in files \/ t = turn)
                BY <1>1, <1>4, StreamsBounded DEF Streams, IInv, TypeOK
            <3>2. [t \in Streams |-> IF t < turn \/ t \in files THEN 1 ELSE 0]'
                  = [[t \in Streams |-> IF t < turn \/ t \in files THEN 1 ELSE 0]
                        EXCEPT ![turn] = 1]
                BY <1>1, <3>1
            <3>3. UNCHANGED <<[t \in Streams |-> HeirOf(t)],
                              {t \in Streams : t = turn - 1 /\ Answered}>>
                BY <1>1, <1>2, <2>1
            <3> QED BY <1>1, <1>4, <3>1, <3>2, <3>3 DEF Line!Issue, Line!Issued
        <2> QED BY <1>1, <2>2 DEF Line!Next
    <1> QED BY <1>3, <1>4 DEF ConcludeRun

\* The outcome is sent: the checkpoint that was resumed has its answer or heir.
LEMMA SendSettles ==
    ASSUME IInv, Send PROVE Line!Next \/ UNCHANGED Line!vars
    <1> DEFINE m == log[taken + 1]
    <1>1. /\ gen = "pulling" /\ taken < Len(log) /\ m # Closed
          /\ out' = Append(out, m) /\ UNCHANGED <<turn, files>>
        BY DEF Send, Waiting, IsEvent
    <1>2. /\ log \in Seq(Items) /\ DOMAIN log = 1..Len(log) /\ taken \in Nat
          /\ Len(log) \in Nat /\ out \in Seq(Envelopes)
        BY <1>1, PulledSoFar
    <1>3. taken + 1 \in DOMAIN log /\ m \in Envelopes
        BY <1>1, <1>2 DEF Items
    <1>4. ~Interrupted /\ ~Answered
        BY <1>1, NoneTerminalSoFar DEF Interrupted, Answered, IsTerminal, Final
    <1>5. m.type = "turn_interrupt" => turn \in files
        BY <1>3 DEF IInv, TurnInv
    <1>6. turn \in Streams /\ turn \in Nat /\ files \subseteq Streams
        BY DEF IInv, TypeOK, Streams
    <1> HIDE DEF m
    <1>7. /\ Interrupted' <=> m.type = "turn_interrupt"
          /\ Answered' <=> m.type = "turn_complete"
        <2>1. /\ DOMAIN out = 1..Len(out) /\ DOMAIN out' = 1..(Len(out) + 1)
              /\ \A i \in 1..Len(out) : out'[i] = out[i]
              /\ out'[Len(out) + 1] = m /\ Len(out) \in Nat
            BY <1>1, <1>2, <1>3, AppendFacts
        <2> QED BY <1>4, <2>1 DEF Interrupted, Answered
    <1>8. CASE m.type \notin {"turn_interrupt", "turn_complete"} \/ turn = 1
        <2>1. ASSUME NEW t \in Streams PROVE HeirOf(t)' = HeirOf(t)
            BY <1>1, <1>4, <1>7, <1>8 DEF HeirOf, Streams
        <2>2. \A t \in Streams : ~(t = turn' - 1 /\ Answered')
            BY <1>1, <1>7, <1>8 DEF Streams
        <2> QED BY <1>1, <1>4, <2>1, <2>2 DEF Line!vars
    <1>9. CASE m.type = "turn_interrupt" /\ turn # 1
        <2>1. /\ turn - 1 \in Streams /\ turn - 1 < turn /\ turn - 1 # turn
              /\ turn \in files /\ (turn - 1) + 1 = turn
            BY <1>5, <1>6, <1>9, StreamsBounded DEF Streams
        <2>2. HeirOf(turn) = {} /\ \A t \in Streams : turn \notin HeirOf(t)
            BY <1>4, <1>6 DEF HeirOf, Streams
        <2>3. ASSUME NEW t \in Streams
              PROVE  HeirOf(t)' = IF t = turn - 1 THEN HeirOf(t) \cup {turn} ELSE HeirOf(t)
            BY <1>1, <1>4, <1>6, <1>7, <1>9 DEF HeirOf, Streams
        <2>4. ~Answered'
            BY <1>7, <1>9
        <2>5. Line!Succeed(turn - 1, turn)
            <3>1. UNCHANGED <<files, {t \in Streams : t = turn - 1 /\ Answered}>>
                  /\ UNCHANGED [t \in Streams |-> IF t < turn \/ t \in files THEN 1 ELSE 0]
                BY <1>1, <1>4, <2>4
            <3>2. [t \in Streams |-> HeirOf(t)]'
                  = [[t \in Streams |-> HeirOf(t)] EXCEPT ![turn - 1] = @ \cup {turn}]
                BY <2>1, <2>3
            <3> QED BY <1>4, <1>6, <2>1, <2>2, <3>1, <3>2 DEF Line!Succeed, Line!Issued
        <2> QED BY <1>6, <2>1, <2>5 DEF Line!Next
    <1>10. CASE m.type = "turn_complete" /\ turn # 1
        <2>1. turn - 1 \in Streams /\ turn - 1 < turn
            BY <1>6, <1>10, StreamsBounded DEF Streams
        <2>2. ~Interrupted' /\ Answered'
            BY <1>7, <1>10
        <2>3. ASSUME NEW t \in Streams PROVE HeirOf(t)' = HeirOf(t)
            BY <1>1, <1>4, <2>2 DEF HeirOf
        <2> PICK p \in Streams : p = turn - 1
            BY <2>1
        <2>4. Line!Finish(p)
            BY <1>1, <1>4, <2>1, <2>2, <2>3 DEF Line!Finish, Line!Issued
        <2> QED BY <2>4 DEF Line!Next
    <1> QED BY <1>8, <1>9, <1>10

\* The response ends: the checkpoint that was resumed is spent.
LEMMA EndSpends ==
    ASSUME IInv, EndResponse PROVE Line!Next \/ UNCHANGED Line!vars
    <1>1. UNCHANGED <<turn, out>> /\ turn \in Streams /\ files \subseteq Streams
        BY DEF EndResponse, IInv, TypeOK, Streams
    <1>2. Interrupted' = Interrupted /\ Answered' = Answered
        BY <1>1 DEF Interrupted, Answered
    <1>3. CASE UNCHANGED files
        BY <1>1, <1>2, <1>3, LineStays
    <1>4. CASE files' # files
        <2>1. Completed /\ files' = files \ {turn - 1} /\ turn - 1 \in files
            BY <1>4 DEF EndResponse
        <2>2. Interrupted \/ Answered
            BY <2>1 DEF Completed, Interrupted, Answered
        <2>3. /\ turn - 1 \in Streams /\ turn - 1 < turn
              /\ (turn - 1) + 1 = turn
            BY <1>1, <2>1 DEF Streams
        <2>4. Interrupted => turn \in HeirOf(turn - 1)
            BY <1>1, <2>3 DEF HeirOf
        <2>5. ASSUME NEW t \in Streams
              PROVE  /\ HeirOf(t)' = HeirOf(t)
                     /\ (t < turn' \/ t \in files') <=> (t < turn \/ t \in files)
            BY <1>1, <1>2, <2>1, <2>3 DEF HeirOf
        <2>6. Line!Spend(turn - 1)
            BY <1>1, <1>2, <2>1, <2>2, <2>3, <2>4, <2>5 DEF Line!Spend
        <2> QED BY <2>3, <2>6 DEF Line!Next
    <1> QED BY <1>3, <1>4

\* The next stream is that of the heir.
LEMMA ResumeKeepsLine ==
    ASSUME IInv, TurnEnds, Resume PROVE UNCHANGED Line!vars
    <1>1. /\ turn' = turn + 1 /\ out' = << >> /\ files' = files /\ files = {turn}
          /\ turn \in Nat /\ Interrupted
        BY DecidingOK DEF Resume, IInv, TypeOK, TurnInv
    <1>2. ~Interrupted' /\ ~Answered'
        BY <1>1 DEF Interrupted, Answered
    <1>3. ~Answered
        <2> SUFFICES ASSUME NEW i \in DOMAIN out, out[i].type = "turn_complete" PROVE FALSE
            BY DEF Answered
        <2>1. PICK j \in DOMAIN out : out[j].type = "turn_interrupt"
            BY <1>1 DEF Interrupted
        <2>2. i = Len(out) /\ j = Len(out)
            BY <2>1 DEF TurnEnds, TerminalLast, IsTerminal, Final
        <2> QED BY <2>1, <2>2
    <1>4. ASSUME NEW t \in Streams
          PROVE  /\ HeirOf(t)' = HeirOf(t)
                 /\ (t < turn' \/ t \in files') <=> (t < turn \/ t \in files)
        <2>1. \A s \in Streams : s < turn' <=> s < turn \/ s = turn
            BY <1>1 DEF Streams
        <2> QED BY <1>1, <1>2, <2>1 DEF HeirOf
    <1> QED BY <1>1, <1>2, <1>3, <1>4 DEF Line!vars

LEMMA LineStep ==
    IInv /\ TurnEnds /\ NoneOfItsOwn /\ [Next]_vars => [Line!Next]_(Line!vars)
    <1> SUFFICES ASSUME IInv, TurnEnds, NoneOfItsOwn, [Next]_vars
                 PROVE  Line!Next \/ UNCHANGED Line!vars
        OBVIOUS
    <1>1. ASSUME UNCHANGED <<turn, files, out>> PROVE UNCHANGED Line!vars
        BY <1>1, LineStays DEF Interrupted, Answered
    <1>2. CASE \/ Runner \/ MapNext \/ ConcludeFailed \/ CancelProducer
               \/ Disconnect \/ FinishReading \/ GiveUp \/ UNCHANGED vars
        <2>1. UNCHANGED <<turn, files, out>>
            BY <1>2, OneEmission DEF ConcludeFailed, CancelProducer, Disconnect,
                FinishReading, GiveUp, vars, response
        <2> QED BY <1>1, <2>1
    <1>3. CASE EncodeFails \/ Refuse
        <2>1. UNCHANGED <<turn, files>> /\ out \in Seq(Envelopes)
              /\ (UNCHANGED out \/ out' = Append(out, OwnError))
            BY <1>3 DEF EncodeFails, Refuse, RaiseInResponse, IInv, TypeOK
        <2>2. CASE out' = Append(out, OwnError)
            <3>1. /\ DOMAIN out = 1..Len(out) /\ DOMAIN out' = 1..(Len(out) + 1)
                  /\ \A i \in 1..Len(out) : out'[i] = out[i]
                  /\ out'[Len(out) + 1].type = "turn_error" /\ Len(out) \in Nat
                BY <2>1, <2>2, OwnErrorType, AppendFacts
            <3>2. Interrupted' = Interrupted /\ Answered' = Answered
                BY <3>1 DEF Interrupted, Answered
            <3> QED BY <2>1, <3>2, LineStays
        <2> QED BY <1>1, <2>1, <2>2
    <1> QED BY <1>2, <1>3, PauseIssues, SendSettles, EndSpends, ResumeKeepsLine
            DEF Next, Producer, Server, Client, Over

\* A client's conversation, stream after stream, keeps to the ledger: its
\* checkpoint is spent when the client was sent the answer or the next one.
THEOREM ConversationIsLedger == Spec => Line!Spec
    <1>1. Spec => [](TurnEnds /\ NoneOfItsOwn)
        <2>1. Init => NoneOfItsOwn
            BY DEF Init, NoneOfItsOwn
        <2> QED BY <2>1, TurnEndsInit, TurnEndsStep, NoneOfItsOwnStep, StreamInvariant, PTL
                DEF Spec
    <1> QED BY <1>1, LineInit, LineStep, StreamInvariant, PTL DEF Spec, Line!Spec

\* A client that gave up, or whose response broke off, has not lost its
\* conversation: the last checkpoint is there unless its run's answer was sent.
THEOREM CheckpointOrAnswer == Spec => []Line!NoneStranded
    <1>1. 0 \notin {1}
        OBVIOUS
    <1> QED BY <1>1, ConversationIsLedger, Line!LeadsOut, PTL
=============================================================================
