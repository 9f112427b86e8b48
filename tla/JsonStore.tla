------------------------------ MODULE JsonStore ------------------------------
(***************************************************************************)
(* Conversation sessions: one JSON file for an owner and a session id, read *)
(* and rewritten as a whole by every operation.                            *)
(*                                                                         *)
(* No operation suspends while it holds its session's lock, so that each is *)
(* one step of the event loop; between the temporary file and its renaming *)
(* the process may still die.  What interleaves is the operations of runs  *)
(* that share a session: the SDK reads the history when a run starts and   *)
(* adds to it, or takes back from it, later.                               *)
(***************************************************************************)
EXTENDS Integers, Sequences

CONSTANTS
    Runs,           \* runs, each with a JsonSession of its own
    Owners,         \* subjects
    SessionIds,     \* what clients call their sessions
    KeyOf,          \* "owner:session id": not injective, either may have colons
    MaxItems,       \* bound: how many items are added in all
    MaxLimit,       \* bound: the limits that are asked for
    None

Keys == {KeyOf[s] : s \in Owners \X SessionIds}

ASSUME KeysForAll == KeyOf \in [Owners \X SessionIds -> Keys]

\* An item: who added it, and when.
Items    == [by : Owners, n : 1..MaxItems]
Payloads == [owner : Owners, items : Seq(Items)]

ASSUME NoneIsNothing == None \notin Nat \cup Owners \cup Payloads
ASSUME BoundsAreNaturals == MaxItems \in Nat /\ MaxLimit \in Nat

VARIABLES
    of,         \* the owner and the session id of each run's JsonSession
    files,      \* what is under each key: None, or a payload
    temporary,  \* the temporary file of the write under way, with its key
    got,        \* what each run was last answered by get_items (None: denied)
    made        \* how many items were added so far

vars == <<of, files, temporary, got, made>>

Owner(r) == of[r][1]
Key(r)   == KeyOf[of[r]]

Torn == [owner |-> None, items |-> << >>]

Init ==
    /\ of \in [Runs -> Owners \X SessionIds]
    /\ files = [k \in Keys |-> None]
    /\ temporary = None
    /\ got = [r \in Runs |-> << >>]
    /\ made = 0
-----------------------------------------------------------------------------
\* Mutated: whoever gets to the file reads it.
ReadableByAll(r) == TRUE

\* _read raises PermissionError for another owner's file.
Readable(r) == files[Key(r)] # None => files[Key(r)].owner = Owner(r)

\* Mutated: a JsonSession goes on from what it has read before.
ReadOnce(r) == IF got[r] = None THEN << >> ELSE got[r]

Read(r) == IF files[Key(r)] = None THEN << >> ELSE files[Key(r)].items

\* Mutated: the file itself is written, not a temporary one.
WriteInPlace(r, items) ==
    /\ temporary' = [key |-> Key(r), owner |-> Owner(r), items |-> items]
    /\ files' = [files EXCEPT ![Key(r)] = Torn]

\* _write up to the renaming.  Its directory stays, its name is new.
Write(r, items) ==
    /\ temporary' = [key |-> Key(r), owner |-> Owner(r), items |-> items]
    /\ UNCHANGED files

\* os.replace.
Replace ==
    /\ temporary # None
    /\ files' = [files EXCEPT ![temporary.key] =
                    [owner |-> temporary.owner, items |-> temporary.items]]
    /\ temporary' = None
    /\ UNCHANGED <<of, got, made>>

Idle == temporary = None

\* Python's items[-n:] takes all of the items when n is 0, or beyond their number.
Slice(items, n) ==
    IF n = 0 \/ n >= Len(items) THEN items
    ELSE SubSeq(items, Len(items) - n + 1, Len(items))

\* Mutated: a limit of 0 is not thought of.
SliceAny(items, limit) == IF limit = None THEN items ELSE Slice(items, limit)

Limited(items, limit) ==
    IF limit = None THEN items ELSE IF limit = 0 THEN << >> ELSE Slice(items, limit)

\* get_items.  The limit is the argument or that of the session's settings; a
\* negative one is refused.
GetItems(r, limit) ==
    /\ Idle
    /\ got' = [got EXCEPT ![r] = IF Readable(r) THEN Limited(Read(r), limit) ELSE None]
    /\ UNCHANGED <<of, files, temporary, made>>

\* What is added in one call: one or two items.
Batch(o, m, n) == [i \in 1..n |-> [by |-> o, n |-> m + i]]

\* Mutated: the new items come first.
ExtendFront(existing, items) == items \o existing

Extend(existing, items) == existing \o items

AddItems(r, n) ==
    /\ Idle /\ Readable(r) /\ made + n <= MaxItems
    /\ Write(r, Extend(Read(r), Batch(Owner(r), made, n)))
    /\ made' = made + n
    /\ UNCHANGED <<of, got>>

PopItem(r) ==
    /\ Idle /\ Readable(r) /\ Read(r) # << >>
    /\ Write(r, SubSeq(Read(r), 1, Len(Read(r)) - 1))
    /\ UNCHANGED <<of, got, made>>

\* clear_session does not read, and does not ask whose the file is.
ClearSession(r) ==
    /\ Idle
    /\ Write(r, << >>)
    /\ UNCHANGED <<of, got, made>>

\* The process dies; the temporary file is left behind, and never read.  The
\* next process's runs are called as these were.
Crash ==
    /\ temporary' = None
    /\ got' = [r \in Runs |-> << >>]
    /\ UNCHANGED <<of, files, made>>

Next ==
    \/ \E r \in Runs :
          \/ \E limit \in (0..MaxLimit) \cup {None} : GetItems(r, limit)
          \/ \E n \in {1, 2} : AddItems(r, n)
          \/ PopItem(r) \/ ClearSession(r)
    \/ Replace \/ Crash

Spec == Init /\ [][Next]_vars
-----------------------------------------------------------------------------
TypeOK ==
    /\ of \in [Runs -> Owners \X SessionIds]
    /\ files \in [Keys -> Payloads \cup {None}]
    /\ temporary = None \/ temporary \in [key : Keys, owner : Owners, items : Seq(Items)]
    /\ got \in [Runs -> Seq(Items) \cup {None}]
    /\ made \in 0..MaxItems

\* Two owners whose sessions come under one key share the file's name and the
\* lock: what a run is given was added by its own owner all the same.
OwnersApart ==
    \A r \in Runs : got[r] # None =>
        \A i \in DOMAIN got[r] : got[r][i].by = Owner(r)

\* However runs that share a session interleave, take back items and die, a
\* history holds no item twice, and is in the order in which items were added.
InOrderOnce ==
    \A k \in Keys : files[k] # None =>
        \A i, j \in DOMAIN files[k].items :
            i < j => files[k].items[i].n < files[k].items[j].n

\* A limit gives the newest items, as many as there are up to the limit.
NewestWithinLimit ==
    [][\A r \in Runs, limit \in 0..MaxLimit :
          GetItems(r, limit) /\ got'[r] # None =>
              /\ Len(got'[r]) = IF limit < Len(Read(r)) THEN limit ELSE Len(Read(r))
              /\ \A i \in DOMAIN got'[r] :
                    got'[r][i] = Read(r)[Len(Read(r)) - Len(got'[r]) + i]]_vars
-----------------------------------------------------------------------------
(***************************************************************************)
(* JsonStore implements SessionHistory.                                    *)
(***************************************************************************)
History == INSTANCE SessionHistory WITH
    Nobody  <- None,
    Batches <- {Batch(o, m, n) : o \in Owners, m \in 0..MaxItems, n \in {1, 2}},
    history <- [k \in Keys |-> IF files[k] = None THEN << >> ELSE files[k].items],
    holder  <- [k \in Keys |-> IF files[k] = None THEN None ELSE files[k].owner]

\* A file holds one owner's history and changes by whole operations, whichever
\* runs share it and whenever the process dies.
ImplementsHistory == History!Spec
=============================================================================
