-------------------------- MODULE JsonStoreProofs --------------------------
(***************************************************************************)
(* Proofs about JsonStore, for any runs, owners, session ids and number of *)
(* items, and whichever sessions come under one key.                       *)
(***************************************************************************)
EXTENDS JsonStore, SequenceTheorems, TLAPS

\* A history of one owner, in the order of its items, m of which were added.
Sound(o, items, m) ==
    /\ items \in Seq(Items)
    /\ \A i \in DOMAIN items : items[i].by = o /\ items[i].n <= m
    /\ \A i, j \in DOMAIN items : i < j => items[i].n < items[j].n

FilesInv ==
    /\ \A k \in Keys : files[k] # None => Sound(files[k].owner, files[k].items, made)
    /\ temporary # None => Sound(temporary.owner, temporary.items, made)

\* What SessionHistory has under a key.
HistoryOf(k) == IF files[k] = None THEN << >> ELSE files[k].items
HolderOf(k)  == IF files[k] = None THEN None ELSE files[k].owner
AllBatches == {Batch(o, m, n) : o \in Owners, m \in 0..MaxItems, n \in {1, 2}}

\* The write under way is one operation on what is still in the file.
WholeOperation(k, o, items) ==
    \/ items = << >>
    \/ /\ HolderOf(k) \in {None, o}
       /\ \/ \E batch \in AllBatches : items = HistoryOf(k) \o batch
          \/ /\ HistoryOf(k) # << >>
             /\ items = SubSeq(HistoryOf(k), 1, Len(HistoryOf(k)) - 1)

WriteInv ==
    temporary # None => WholeOperation(temporary.key, temporary.owner, temporary.items)

IInv == TypeOK /\ FilesInv /\ WriteInv /\ OwnersApart
-----------------------------------------------------------------------------
LEMMA RunsHaveKeys ==
    ASSUME TypeOK, NEW r \in Runs
    PROVE  Key(r) \in Keys /\ Owner(r) \in Owners
    BY KeysForAll DEF TypeOK, Key, Owner, Keys

LEMMA SoundLater ==
    ASSUME NEW o, NEW items, NEW m \in Nat, NEW n \in Nat, m <= n, Sound(o, items, m)
    PROVE  Sound(o, items, n)
    <1>1. \A i \in DOMAIN items : items[i] \in Items
        BY DEF Sound
    <1>2. \A i \in DOMAIN items : items[i].n \in Nat
        BY <1>1, BoundsAreNaturals DEF Items
    <1> QED BY <1>2 DEF Sound

LEMMA EmptyIsSound ==
    ASSUME NEW o, NEW m \in Nat
    PROVE  Sound(o, << >>, m)
    BY DEF Sound

\* Taking back the newest item leaves a sound history.
LEMMA PopIsSound ==
    ASSUME NEW o, NEW m \in Nat, NEW items, Sound(o, items, m), items # << >>
    PROVE  Sound(o, SubSeq(items, 1, Len(items) - 1), m)
    <1> DEFINE rest == SubSeq(items, 1, Len(items) - 1)
    <1>1. items \in Seq(Items) /\ Len(items) \in Nat /\ Len(items) > 0
        BY DEF Sound
    <1>2. \A i \in 1..(Len(items) - 1) : i \in DOMAIN items /\ items[i] \in Items
        BY <1>1
    <1>3. /\ rest \in Seq(Items) /\ Len(rest) = Len(items) - 1
          /\ \A i \in 1..(Len(items) - 1) : rest[i] = items[i]
        <2> DEFINE n == Len(items) - 1
        <2>1. n \in Nat
            BY <1>1
        <2>2. /\ rest \in Seq(Items)
              /\ Len(rest) = IF 1 <= n THEN n - 1 + 1 ELSE 0
              /\ \A i \in 1..(n - 1 + 1) : rest[i] = items[1 + i - 1]
            BY <1>2, <2>1, SubSeqProperties
        <2> HIDE DEF n, rest
        <2>3. \A i \in 1..n : i \in 1..(n - 1 + 1) /\ 1 + i - 1 = i
            BY <2>1
        <2>4. Len(rest) = n /\ \A i \in 1..n : rest[i] = items[i]
            BY <2>1, <2>2, <2>3
        <2> QED BY <2>2, <2>4 DEF n
    <1> HIDE DEF rest
    <1>4. DOMAIN rest = 1..(Len(items) - 1)
        BY <1>3
    <1>5. Sound(o, rest, m)
        BY <1>2, <1>3, <1>4 DEF Sound
    <1> QED BY <1>5 DEF rest

LEMMA BatchType ==
    ASSUME NEW o \in Owners, NEW m \in Nat, NEW n \in {1, 2}, m + n <= MaxItems
    PROVE  /\ Batch(o, m, n) \in Seq(Items) /\ Len(Batch(o, m, n)) = n
           /\ \A i \in 1..n : Batch(o, m, n)[i] = [by |-> o, n |-> m + i]
    <1>1. \A i \in 1..n : [by |-> o, n |-> m + i] \in Items
        BY BoundsAreNaturals DEF Items
    <1>2. Batch(o, m, n) \in [1..n -> Items]
        BY <1>1 DEF Batch
    <1>3. Batch(o, m, n) \in Seq(Items) /\ Len(Batch(o, m, n)) = n
        BY <1>2
    <1> QED BY <1>3 DEF Batch

\* New items are newer than those there are.
LEMMA ExtendIsSound ==
    ASSUME NEW o \in Owners, NEW m \in Nat, NEW n \in {1, 2}, m + n <= MaxItems,
           NEW items, Sound(o, items, m)
    PROVE  Sound(o, Extend(items, Batch(o, m, n)), m + n)
    <1> DEFINE batch == Batch(o, m, n)
               all   == items \o batch
    <1>1. items \in Seq(Items) /\ Len(items) \in Nat
        BY DEF Sound
    <1>2. /\ batch \in Seq(Items) /\ Len(batch) = n
          /\ \A i \in 1..n : batch[i] = [by |-> o, n |-> m + i]
        BY BatchType
    <1>3. \A i \in DOMAIN items : items[i].by = o /\ items[i].n \in Nat /\ items[i].n <= m
        <2>1. \A i \in DOMAIN items : items[i] \in Items
            BY <1>1
        <2> QED BY <2>1, BoundsAreNaturals DEF Sound, Items
    <1> HIDE DEF batch
    <1>4. all \in Seq(Items) /\ Len(all) = Len(items) + n
        BY <1>1, <1>2
    <1>5. ASSUME NEW i \in DOMAIN all
          PROVE  \/ i \in DOMAIN items /\ all[i] = items[i]
                 \/ /\ i \in Nat /\ i > Len(items)
                    /\ all[i] = [by |-> o, n |-> m + (i - Len(items))]
                    /\ i - Len(items) \in 1..n
        <2>1. i \in 1..(Len(items) + n)
            BY <1>4
        <2>2. CASE i <= Len(items)
            BY <1>1, <1>2, <2>1, <2>2
        <2>3. CASE i > Len(items)
            <3>1. all[i] = batch[i - Len(items)] /\ i - Len(items) \in 1..n
                BY <1>1, <1>2, <2>1, <2>3
            <3> QED BY <1>2, <2>1, <2>3, <3>1
        <2> QED BY <1>1, <2>1, <2>2, <2>3
    <1> HIDE DEF all
    <1>6. \A i \in DOMAIN all : all[i].by = o /\ all[i].n \in Nat /\ all[i].n <= m + n
        BY <1>1, <1>3, <1>5
    <1>7. ASSUME NEW i \in DOMAIN all, NEW j \in DOMAIN all, i < j
          PROVE  all[i].n < all[j].n
        <2>1. i \in Nat /\ j \in Nat /\ DOMAIN items = 1..Len(items)
            BY <1>1, <1>4
        <2>2. CASE j \in DOMAIN items
            <3>1. i \in DOMAIN items
                BY <1>1, <1>4, <1>7, <2>1, <2>2
            <3>2. all[i] = items[i] /\ all[j] = items[j]
                BY <1>1, <1>5, <2>1, <2>2, <3>1
            <3> QED BY <1>7, <2>2, <3>1, <3>2 DEF Sound
        <2>3. CASE j \notin DOMAIN items
            <3>1. j > Len(items) /\ all[j].n = m + (j - Len(items))
                BY <1>5, <2>3
            <3>2. CASE i \in DOMAIN items /\ all[i] = items[i]
                BY <1>1, <1>3, <2>1, <3>1, <3>2
            <3>3. CASE all[i] = [by |-> o, n |-> m + (i - Len(items))]
                BY <1>1, <1>7, <2>1, <3>1, <3>3
            <3> QED BY <1>5, <3>2, <3>3
        <2> QED BY <2>2, <2>3
    <1>8. Sound(o, all, m + n)
        BY <1>4, <1>6, <1>7 DEF Sound
    <1> QED BY <1>8 DEF all, batch, Extend

\* A limit other than None leaves the newest items.
LEMMA LimitedIsNewest ==
    ASSUME NEW items \in Seq(Items), NEW limit \in Nat
    PROVE  /\ Limited(items, limit) \in Seq(Items)
           /\ Len(Limited(items, limit)) = IF limit < Len(items) THEN limit ELSE Len(items)
           /\ \A i \in DOMAIN Limited(items, limit) :
                 /\ Len(items) - Len(Limited(items, limit)) + i \in DOMAIN items
                 /\ Limited(items, limit)[i] =
                        items[Len(items) - Len(Limited(items, limit)) + i]
    <1>1. limit # None
        BY NoneIsNothing
    <1>2. Len(items) \in Nat
        OBVIOUS
    <1>3. CASE limit = 0
        BY <1>1, <1>2, <1>3 DEF Limited
    <1>4. CASE limit # 0 /\ limit >= Len(items)
        <2>1. Limited(items, limit) = items
            BY <1>1, <1>4 DEF Limited, Slice
        <2> QED BY <1>2, <1>4, <2>1
    <1>5. CASE limit # 0 /\ limit < Len(items)
        <2> DEFINE newest == SubSeq(items, Len(items) - limit + 1, Len(items))
        <2>1. Limited(items, limit) = newest
            BY <1>1, <1>2, <1>5 DEF Limited, Slice
        <2>2. newest \in Seq(Items) /\ Len(newest) = limit
            BY <1>2, <1>5
        <2>3. \A i \in 1..limit : newest[i] = items[Len(items) - limit + i]
            BY <1>2, <1>5
        <2> HIDE DEF newest
        <2>4. \A i \in DOMAIN newest : i \in 1..limit /\ Len(items) - limit + i \in DOMAIN items
            BY <1>2, <1>5, <2>2
        <2> QED BY <1>5, <2>1, <2>2, <2>3, <2>4
    <1> QED BY <1>2, <1>3, <1>4, <1>5
-----------------------------------------------------------------------------
\* What a run reads is its own owner's.
LEMMA ReadIsSound ==
    ASSUME IInv, NEW r \in Runs, Readable(r)
    PROVE  Sound(Owner(r), Read(r), made)
    <1>1. Key(r) \in Keys /\ made \in Nat
        BY RunsHaveKeys, BoundsAreNaturals DEF IInv, TypeOK
    <1>2. CASE files[Key(r)] = None
        BY <1>1, <1>2, EmptyIsSound DEF Read
    <1>3. CASE files[Key(r)] # None
        BY <1>1, <1>3 DEF Read, Readable, IInv, FilesInv
    <1> QED BY <1>2, <1>3

LEMMA InitOK == Init => IInv
    <1> SUFFICES ASSUME Init PROVE IInv
        OBVIOUS
    <1>1. TypeOK
        BY BoundsAreNaturals DEF Init, TypeOK
    <1>2. FilesInv /\ WriteInv /\ OwnersApart
        BY DEF Init, FilesInv, WriteInv, OwnersApart
    <1> QED BY <1>1, <1>2 DEF IInv

LEMMA GetItemsOK ==
    ASSUME IInv, NEW r \in Runs, NEW limit \in (0..MaxLimit) \cup {None}, GetItems(r, limit)
    PROVE  IInv'
    <1> USE DEF IInv
    <1>1. /\ got' = [got EXCEPT ![r] = IF Readable(r) THEN Limited(Read(r), limit) ELSE None]
          /\ UNCHANGED <<of, files, temporary, made>>
        BY DEF GetItems
    <1>2. ASSUME Readable(r)
          PROVE  /\ Limited(Read(r), limit) \in Seq(Items)
                 /\ \A i \in DOMAIN Limited(Read(r), limit) :
                       Limited(Read(r), limit)[i].by = Owner(r)
        <2>1. Sound(Owner(r), Read(r), made)
            BY <1>2, ReadIsSound
        <2>2. CASE limit = None
            BY <2>1, <2>2 DEF Limited, Sound
        <2>3. CASE limit \in Nat
            BY <2>1, <2>3, LimitedIsNewest DEF Sound
        <2> QED BY <2>2, <2>3, BoundsAreNaturals
    <1>3. got'[r] = (IF Readable(r) THEN Limited(Read(r), limit) ELSE None)
          /\ \A q \in Runs : q # r => got'[q] = got[q]
        BY <1>1 DEF TypeOK
    <1>4. TypeOK'
        <2>1. got' \in [Runs -> Seq(Items) \cup {None}]
            BY <1>1, <1>2 DEF TypeOK
        <2> QED BY <1>1, <2>1 DEF TypeOK
    <1>5. FilesInv' /\ WriteInv'
        BY <1>1 DEF FilesInv, WriteInv, WholeOperation, HolderOf, HistoryOf
    <1>6. OwnersApart'
        <2> SUFFICES ASSUME NEW q \in Runs, got'[q] # None, NEW i \in DOMAIN got'[q]
                     PROVE  got'[q][i].by = Owner(q)
            BY <1>1 DEF OwnersApart, Owner
        <2>1. CASE q = r
            BY <1>2, <1>3, <2>1
        <2>2. CASE q # r
            BY <1>3, <2>2 DEF OwnersApart
        <2> QED BY <2>1, <2>2
    <1> QED BY <1>4, <1>5, <1>6

\* A write begins, of an operation as a whole.
LEMMA WriteOK ==
    ASSUME IInv, NEW r \in Runs, NEW items, Write(r, items), UNCHANGED <<of, got>>,
           made' \in 0..MaxItems, made <= made', Sound(Owner(r), items, made'),
           WholeOperation(Key(r), Owner(r), items)
    PROVE  IInv'
    <1> USE DEF IInv
    <1>1. /\ temporary' = [key |-> Key(r), owner |-> Owner(r), items |-> items]
          /\ UNCHANGED files
        BY DEF Write
    <1>2. Key(r) \in Keys /\ Owner(r) \in Owners /\ items \in Seq(Items)
        BY RunsHaveKeys DEF Sound
    <1>3. TypeOK'
        BY <1>1, <1>2 DEF TypeOK
    <1>4. made \in Nat /\ made' \in Nat
        BY BoundsAreNaturals DEF TypeOK
    <1>5. FilesInv'
        <2>1. \A k \in Keys : files[k] # None => Sound(files[k].owner, files[k].items, made')
            BY <1>4, SoundLater DEF FilesInv
        <2> QED BY <1>1, <2>1 DEF FilesInv
    <1>6. WriteInv'
        BY <1>1 DEF WriteInv, WholeOperation, HolderOf, HistoryOf
    <1>7. OwnersApart'
        BY DEF OwnersApart, Owner
    <1> QED BY <1>3, <1>5, <1>6, <1>7

\* A run that may read adds to, or takes from, the history it has read.
LEMMA ReadIsHistory ==
    ASSUME IInv, NEW r \in Runs, Readable(r)
    PROVE  Read(r) = HistoryOf(Key(r)) /\ HolderOf(Key(r)) \in {None, Owner(r)}
    BY DEF Readable, Read, HistoryOf, HolderOf

LEMMA AddItemsOK ==
    ASSUME IInv, NEW r \in Runs, NEW n \in {1, 2}, AddItems(r, n) PROVE IInv'
    <1> USE DEF IInv
    <1>1. /\ Readable(r) /\ made + n <= MaxItems /\ made' = made + n
          /\ Write(r, Extend(Read(r), Batch(Owner(r), made, n))) /\ UNCHANGED <<of, got>>
        BY DEF AddItems
    <1>2. made \in Nat /\ made \in 0..MaxItems /\ made' \in 0..MaxItems /\ made <= made'
        BY <1>1, BoundsAreNaturals DEF TypeOK
    <1>3. Owner(r) \in Owners
        BY RunsHaveKeys
    <1>4. Sound(Owner(r), Extend(Read(r), Batch(Owner(r), made, n)), made')
        BY <1>1, <1>2, <1>3, ReadIsSound, ExtendIsSound
    <1>5. Batch(Owner(r), made, n) \in AllBatches
        BY <1>2, <1>3 DEF AllBatches
    <1>6. WholeOperation(Key(r), Owner(r), Extend(Read(r), Batch(Owner(r), made, n)))
        BY <1>1, <1>5, ReadIsHistory DEF WholeOperation, Extend
    <1> QED BY <1>1, <1>2, <1>4, <1>6, WriteOK

LEMMA PopItemOK == ASSUME IInv, NEW r \in Runs, PopItem(r) PROVE IInv'
    <1> USE DEF IInv
    <1>1. /\ Readable(r) /\ Read(r) # << >> /\ UNCHANGED <<of, got, made>>
          /\ Write(r, SubSeq(Read(r), 1, Len(Read(r)) - 1))
        BY DEF PopItem
    <1>2. made \in Nat /\ made \in 0..MaxItems
        BY BoundsAreNaturals DEF TypeOK
    <1>3. Sound(Owner(r), SubSeq(Read(r), 1, Len(Read(r)) - 1), made)
        BY <1>1, <1>2, ReadIsSound, PopIsSound
    <1>4. WholeOperation(Key(r), Owner(r), SubSeq(Read(r), 1, Len(Read(r)) - 1))
        BY <1>1, ReadIsHistory DEF WholeOperation
    <1> QED BY <1>1, <1>2, <1>3, <1>4, WriteOK

LEMMA ClearSessionOK == ASSUME IInv, NEW r \in Runs, ClearSession(r) PROVE IInv'
    <1>1. made \in Nat /\ made \in 0..MaxItems /\ UNCHANGED <<of, got, made>>
        BY BoundsAreNaturals DEF IInv, TypeOK, ClearSession
    <1>2. WholeOperation(Key(r), Owner(r), << >>)
        BY DEF WholeOperation
    <1> QED BY <1>1, <1>2, EmptyIsSound, WriteOK DEF ClearSession

LEMMA ReplaceOK == ASSUME IInv, Replace PROVE IInv'
    <1> USE DEF IInv
    <1> DEFINE k == temporary.key
               payload == [owner |-> temporary.owner, items |-> temporary.items]
    <1>1. /\ temporary # None /\ files' = [files EXCEPT ![k] = payload] /\ temporary' = None
          /\ UNCHANGED <<of, got, made>>
        BY DEF Replace
    <1>2. k \in Keys /\ payload \in Payloads
        BY <1>1 DEF TypeOK, Payloads
    <1>3. TypeOK'
        BY <1>1, <1>2 DEF TypeOK
    <1>4. Sound(payload.owner, payload.items, made)
        BY <1>1 DEF FilesInv
    <1> HIDE DEF k, payload
    <1>5. FilesInv'
        BY <1>1, <1>2, <1>4 DEF FilesInv, TypeOK
    <1>6. WriteInv' /\ OwnersApart'
        BY <1>1 DEF WriteInv, OwnersApart, Owner
    <1> QED BY <1>3, <1>5, <1>6

LEMMA CrashOK == ASSUME IInv, Crash PROVE IInv'
    BY DEF IInv, Crash, TypeOK, FilesInv, WriteInv, OwnersApart

LEMMA StepOK == IInv /\ [Next]_vars => IInv'
    <1> SUFFICES ASSUME IInv, [Next]_vars PROVE IInv'
        OBVIOUS
    <1>1. CASE UNCHANGED vars
        BY <1>1 DEF vars, IInv, TypeOK, FilesInv, WriteInv, WholeOperation, HolderOf, HistoryOf,
            OwnersApart, Owner
    <1>2. CASE \E r \in Runs :
                  \/ \E limit \in (0..MaxLimit) \cup {None} : GetItems(r, limit)
                  \/ \E n \in {1, 2} : AddItems(r, n)
                  \/ PopItem(r) \/ ClearSession(r)
        BY <1>2, GetItemsOK, AddItemsOK, PopItemOK, ClearSessionOK
    <1>3. CASE Replace \/ Crash
        BY <1>3, ReplaceOK, CrashOK
    <1> QED BY <1>1, <1>2, <1>3 DEF Next

\* The inductive invariant holds for any runs and sessions.
THEOREM StoreInvariant == Spec => []IInv
    BY InitOK, StepOK, PTL DEF Spec

\* The operations of JsonSession keep the files to their type.
THEOREM StoreTypes == Spec => []TypeOK
    <1>1. IInv => TypeOK
        BY DEF IInv
    <1> QED BY <1>1, StoreInvariant, PTL

\* get_items answers a run with items of its own owner only, for any KeyOf.
THEOREM OwnItemsOnly == Spec => []OwnersApart
    <1>1. IInv => OwnersApart
        BY DEF IInv
    <1> QED BY <1>1, StoreInvariant, PTL

\* add_items, pop_item and clear_session keep each file in the order in which
\* its items were added, each of them once.
THEOREM Ordered == Spec => []InOrderOnce
    <1>1. IInv => InOrderOnce
        BY DEF IInv, FilesInv, Sound, InOrderOnce
    <1> QED BY <1>1, StoreInvariant, PTL

\* get_items answers a limit with the newest items, for every limit.
THEOREM Newest == Spec => NewestWithinLimit
    <1> DEFINE Newer ==
            \A r \in Runs, limit \in 0..MaxLimit :
                GetItems(r, limit) /\ got'[r] # None =>
                    /\ Len(got'[r]) = IF limit < Len(Read(r)) THEN limit ELSE Len(Read(r))
                    /\ \A i \in DOMAIN got'[r] :
                          got'[r][i] = Read(r)[Len(Read(r)) - Len(got'[r]) + i]
    <1>1. IInv => Newer
        <2> SUFFICES ASSUME IInv, NEW r \in Runs, NEW limit \in 0..MaxLimit,
                            GetItems(r, limit), got'[r] # None
                     PROVE  /\ Len(got'[r]) =
                                   IF limit < Len(Read(r)) THEN limit ELSE Len(Read(r))
                            /\ \A i \in DOMAIN got'[r] :
                                  got'[r][i] = Read(r)[Len(Read(r)) - Len(got'[r]) + i]
            OBVIOUS
        <2>1. Readable(r) /\ got'[r] = Limited(Read(r), limit)
            BY DEF GetItems, IInv, TypeOK
        <2>2. Read(r) \in Seq(Items) /\ limit \in Nat
            BY <2>1, ReadIsSound, BoundsAreNaturals DEF Sound
        <2> QED BY <2>1, <2>2, LimitedIsNewest
    <1> QED BY <1>1, StoreInvariant, PTL DEF NewestWithinLimit
-----------------------------------------------------------------------------
(***************************************************************************)
(* JsonStore implements SessionHistory.                                    *)
(***************************************************************************)
LEMMA HistoryInit == Init => History!Init
    BY DEF Init, History!Init

\* Between the renamings the histories stay as they are.
LEMMA HistoryStays == UNCHANGED files => UNCHANGED History!vars
    BY DEF History!vars

\* A renaming is the operation that began with the writing.
LEMMA ReplaceIsOperation == ASSUME IInv, Replace PROVE History!Next
    <1>1. temporary # None /\ temporary \in [key : Keys, owner : Owners, items : Seq(Items)]
        BY DEF Replace, IInv, TypeOK
    <1> PICK k \in Keys, o \in Owners, items \in Seq(Items) :
                temporary = [key |-> k, owner |-> o, items |-> items]
        BY <1>1
    <1> DEFINE h == [l \in Keys |-> HistoryOf(l)]
               w == [l \in Keys |-> HolderOf(l)]
               payload == [owner |-> o, items |-> items]
    <1>2. WholeOperation(k, o, items)
        BY <1>1 DEF IInv, WriteInv
    <1>3. payload \in Payloads /\ payload # None
        BY NoneIsNothing DEF Payloads
    <1>4. /\ files'[k] = payload
          /\ \A l \in Keys : l # k => files'[l] = files[l]
        BY DEF Replace, IInv, TypeOK
    <1>5. /\ HistoryOf(k)' = items /\ HolderOf(k)' = o
          /\ \A l \in Keys : l # k => HistoryOf(l)' = HistoryOf(l) /\ HolderOf(l)' = HolderOf(l)
        BY <1>3, <1>4 DEF HistoryOf, HolderOf
    <1>6. h' = [h EXCEPT ![k] = items] /\ w' = [w EXCEPT ![k] = o]
        BY <1>5
    <1>7. h[k] = HistoryOf(k) /\ w[k] = HolderOf(k)
        OBVIOUS
    <1>8. CASE items = << >>
        <2>1. History!Clear(k, o)
            BY <1>6, <1>8 DEF History!Clear, HistoryOf, HolderOf
        <2> QED BY <2>1 DEF History!Next
    <1>9. CASE /\ HolderOf(k) \in {None, o} /\ HistoryOf(k) # << >>
               /\ items = SubSeq(HistoryOf(k), 1, Len(HistoryOf(k)) - 1)
        <2>1. History!Pop(k, o)
            BY <1>6, <1>7, <1>9 DEF History!Pop, History!Claimed, HistoryOf, HolderOf
        <2> QED BY <2>1 DEF History!Next
    <1>10. ASSUME NEW batch \in AllBatches, HolderOf(k) \in {None, o},
                  items = HistoryOf(k) \o batch
           PROVE  History!Next
        <2>1. History!Add(k, o, batch)
            BY <1>6, <1>7, <1>10 DEF History!Add, History!Claimed, HistoryOf, HolderOf
        <2> QED BY <2>1 DEF History!Next, AllBatches
    <1> QED BY <1>2, <1>8, <1>9, <1>10 DEF WholeOperation

LEMMA HistoryStep ==
    ASSUME IInv, [Next]_vars PROVE History!Next \/ UNCHANGED History!vars
    <1>1. Replace \/ UNCHANGED files
        BY DEF Next, vars, GetItems, AddItems, PopItem, ClearSession, Write, Crash
    <1> QED BY <1>1, HistoryStays, ReplaceIsOperation

\* The files implement SessionHistory: whole operations only, each by who holds
\* the history or clears it, at any interleaving and with crashes at any time.
THEOREM StoreImplementsHistory == Spec => ImplementsHistory
    <1>1. Spec => History!Spec
        BY HistoryInit, HistoryStep, StoreInvariant, PTL DEF Spec, History!Spec
    <1> QED BY <1>1 DEF ImplementsHistory
=============================================================================
