----------------------------- MODULE SiloProofs -----------------------------
(***************************************************************************)
(* Proofs about Silo for every number of workers, every set of keys and    *)
(* requests and every layout of the values: first type correctness and the *)
(* lock discipline, which need no assumption on the transaction numbers.   *)
(* Then, as long as the numbers suffice: a TID names one value, the TIDs   *)
(* chosen grow, and the transactions are serializable.                     *)
(***************************************************************************)
EXTENDS Silo, DataProofs, SequenceTheorems, TLAPS

\* the program counters of a worker that reads, that writes, and that has got
\* past the assertion
Reading == {"load", "read", "check"}
Writers == {"copy", "overrun"}
Before == {"idle", "begin", "failed"}

KeyOf(w, i) == Keys(cur[w])[i]

\* A request is queued or with one worker, and at most once.
OneEach ==
    /\ \A w \in Worker : (cur[w] = NoXact <=> pc[w] = "idle") /\ cur[w] \notin queued
    /\ \A v, w \in Worker : v /= w /\ cur[v] = cur[w] => cur[v] = NoXact

\* A request that has passed the assertion has two different keys.
DistinctKeys == \A w \in Worker : pc[w] \notin Before => From[cur[w]] /= To[cur[w]]

\* Where the iterator and the copying stand, and how much has been read.
Places ==
    \A w \in Worker :
        /\ pc[w] \in Before \cup {"unlockFirst", "commit"} => idx[w] = 1
        /\ pc[w] \in Before => Len(read_set[w]) = 0
        /\ pc[w] \in Reading => Len(read_set[w]) = idx[w] - 1
        /\ pc[w] \notin Before \cup Reading => Len(read_set[w]) = 2
        /\ pc[w] \notin Writers => pos[w] = 0

LInv == TypeOK /\ OneEach /\ DistinctKeys /\ Places /\ LockDiscipline

-----------------------------------------------------------------------------
(* The data *)

\* Both keys of a request are keys of the store, in the order of Keys, and
\* they differ when the request's keys do.
LEMMA RequestKeys ==
    ASSUME NEW x \in Xact
    PROVE  /\ Key1(x) \in Key /\ Key2(x) \in Key
           /\ From[x] /= To[x] => Key1(x) /= Key2(x)
           /\ Keys(x)[1] = Key1(x) /\ Keys(x)[2] = Key2(x)
BY SiloAssumption DEF Key1, Key2, Keys

\* An amount negated stays in the range of the C type.
LEMMA MovedType == ASSUME NEW x \in Xact PROVE Moved(x) \in Int32
<1>1. Diff[x] \in Int32 /\ Diff[x] \in Int
    BY SiloAssumption, Int32IsInt
<1>2. Wrap(-Diff[x]) \in Int32
    BY <1>1, WrapType
<1> QED
    BY <1>1, <1>2 DEF Moved

LEMMA BytesAreFinite == IsFiniteSet(Place) /\ Place \subseteq Nat /\ 0 \in Place
<1>1. VAL_SIZE - 1 \in Int /\ VAL_SIZE \in Nat /\ VAL_SIZE >= 2
    BY RecordsAssumption
<1>2. IsFiniteSet(0 .. VAL_SIZE - 1)
    BY <1>1, FS_Interval
<1> QED
    BY <1>1, <1>2 DEF Place

LEMMA PowerIsInt == \A i \in Nat : Base ^ i \in Int
<1>1. Base \in Nat /\ Base >= 2
    BY RecordsAssumption
<1> QED
    BY <1>1, SMT

\* The bytes of a value, read as a number, give a number of the C type.
LEMMA AmountType == \A b \in Record : amount[b] \in Int32
<1> SUFFICES ASSUME NEW b \in Record PROVE amount[b] \in Int32
    OBVIOUS
<1> DEFINE f == [i \in Place |-> b[i] * Base ^ i]
<1>1. f \in [Place -> Int]
    <2> SUFFICES ASSUME NEW i \in Place PROVE b[i] * Base ^ i \in Int
        OBVIOUS
    <2>1. b[i] \in Int /\ i \in Nat /\ Base \in Nat
        BY RecordsAssumption, BytesAreFinite DEF Record
    <2> QED
        BY <2>1, PowerIsInt
<1> HIDE DEF f
<1>2. SumOver(f, Place) \in Int
    BY <1>1, BytesAreFinite, SumType
<1>3. amount[b] = Wrap(SumOver(f, Place))
    BY DEF amount, f
<1> QED
    BY <1>2, <1>3, WrapType

\* A number of the C type is written as bytes.
LEMMA ValType == \A v \in Int32 : val[v] \in Record
<1> SUFFICES ASSUME NEW v \in Int32, NEW i \in Place
             PROVE  ((v % Modulus) \div Base ^ i) % Base \in 0 .. Base - 1
    BY DEF val, Record
<1>1. v \in Int /\ Modulus \in Nat \ {0} /\ Base \in Nat /\ Base >= 2 /\ i \in Nat
    BY Int32IsInt, WidthIsPositive, RecordsAssumption, BytesAreFinite
<1> DEFINE u == v % Modulus
<1>2. u \in Int
    <2> HIDE DEF Modulus
    <2> QED
        BY <1>1
<1> HIDE DEF u
<1>3. (u \div Base ^ i) % Base \in 0 .. Base - 1
    BY <1>1, <1>2
<1> QED
    BY <1>3 DEF u

\* A finite set of numbers has a least element.
LEMMA MinOfSet ==
    ASSUME NEW S \in SUBSET Nat, IsFiniteSet(S), S /= {}
    PROVE  Min(S) \in S /\ \A n \in S : Min(S) <= n
<1> DEFINE X == {T \in SUBSET S : T /= {} => \E m \in T : \A n \in T : m <= n}
<1>1. ASSUME NEW T \in SUBSET S, \A U \in SUBSET T : U /= T => U \in X
      PROVE  T \in X
    <2> SUFFICES ASSUME NEW k \in T PROVE \E m \in T : \A n \in T : m <= n
        OBVIOUS
    <2>1. T \ {k} \in X
        BY <1>1
    <2>2. CASE T \ {k} = {}
        BY <2>2
    <2>3. CASE T \ {k} /= {}
        <3>1. PICK m \in T \ {k} : \A n \in T \ {k} : m <= n
            BY <2>1, <2>3
        <3>2. m \in Nat /\ k \in Nat
            OBVIOUS
        <3>3. CASE m <= k
            BY <3>1, <3>3
        <3>4. CASE k <= m
            BY <3>1, <3>2, <3>4
        <3> QED
            BY <3>2, <3>3, <3>4
    <2> QED
        BY <2>2, <2>3
<1>2. SUBSET S \subseteq X
    <2> HIDE DEF X
    <2> QED
        BY <1>1, SubsetInduction
<1>3. \E m \in S : \A n \in S : m <= n
    BY <1>2
<1> QED
    BY <1>3 DEF Min

\* strlen finds a place of the value, or none.
LEMMA StrlenType == \A b \in Record : strlen[b] \in 0 .. VAL_SIZE
<1> SUFFICES ASSUME NEW b \in Record PROVE strlen[b] \in 0 .. VAL_SIZE
    OBVIOUS
<1> DEFINE S == {i \in Place : b[i] = 0} \cup {VAL_SIZE}
<1>1. S \subseteq 0 .. VAL_SIZE /\ S /= {} /\ S \subseteq Nat
    BY RecordsAssumption DEF Place
<1> HIDE DEF S
<1>2. IsFiniteSet(S)
    <2>1. IsFiniteSet(0 .. VAL_SIZE)
        BY RecordsAssumption, FS_Interval
    <2> QED
        BY <1>1, <2>1, FS_Subset
<1>3. Min(S) \in S
    BY <1>1, <1>2, MinOfSet
<1> QED
    BY <1>1, <1>3 DEF strlen, S

\* What writePhase copies is at least one byte and at most a whole value.
LEMMA SourceType ==
    ASSUME NEW b \in Record, NEW fixed \in Record
    PROVE  Source(b, fixed).bytes \in Record /\ Source(b, fixed).size \in 1 .. VAL_SIZE
<1>1. strlen[b] \in 0 .. VAL_SIZE /\ VAL_SIZE \in Nat /\ VAL_SIZE >= 2
    BY StrlenType, RecordsAssumption
<1> QED
    BY <1>1 DEF Source

\* The transaction number never gets negative.
LEMMA IncrementType == ASSUME NEW t \in Nat PROVE Increment(t) \in Nat
<1>1. TIDS \in Nat /\ TIDS >= 2
    BY SiloAssumption
<1>2. t \div TIDS \in Nat /\ (t + 1) % TIDS \in Nat
    BY <1>1
<1> QED
    BY <1>1, <1>2 DEF Increment

-----------------------------------------------------------------------------
(* Types *)

\* the local state of a worker that takes no step
Rests(v) ==
    /\ pc'[v] = pc[v] /\ cur'[v] = cur[v] /\ idx'[v] = idx[v]
    /\ expected'[v] = expected[v] /\ return_val'[v] = return_val[v]
    /\ read_set'[v] = read_set[v] /\ max_set'[v] = max_set[v]
    /\ mrctid'[v] = mrctid[v] /\ pos'[v] = pos[v]

LEMMA OthersSame ==
    ASSUME TypeOK, NEW w \in Worker, xactDequeue(w) \/ transferWork(w),
           NEW v \in Worker, v /= w
    PROVE  Rests(v)
<1> USE DEF TypeOK, Rests, Step, Goto, Point, Loop, abort, local
<1>1. CASE xactDequeue(w)
    BY <1>1 DEF xactDequeue
<1>2. CASE AssertFails(w) \/ begin(w)
    BY <1>2 DEF AssertFails, begin
<1>3. CASE read(w)
    BY <1>3 DEF read, LoadTid, ReadVal, AddToReadSet, ReadAgain
<1>4. CASE validationPhase(w)
    BY <1>4 DEF validationPhase, LockRecord, LockBusy, Validate, ValidateFails, unlockWriteSet
<1>5. CASE writePhase(w)
    BY <1>5 DEF writePhase, ChooseTid, CopyByte, StoreTid, Overrun
<1> QED
    BY <1>1, <1>2, <1>3, <1>4, <1>5 DEF transferWork

\* The request of a worker, and the keys that it works on.
LEMMA CurrentKeys ==
    ASSUME LInv, NEW w \in Worker, pc[w] /= "idle"
    PROVE  /\ cur[w] \in Xact
           /\ KeyOf(w, 1) = Key1(cur[w]) /\ KeyOf(w, 2) = Key2(cur[w])
           /\ KeyOf(w, 1) \in Key /\ KeyOf(w, 2) \in Key
           /\ pc[w] \notin Before => KeyOf(w, 1) /= KeyOf(w, 2)
           /\ At(w) = KeyOf(w, idx[w]) /\ idx[w] \in 1 .. 2 /\ At(w) \in Key
<1>1. cur[w] \in Xact /\ idx[w] \in 1 .. 2
    BY DEF LInv, TypeOK, OneEach
<1>2. pc[w] \notin Before => From[cur[w]] /= To[cur[w]]
    BY DEF LInv, DistinctKeys
<1> QED
    BY <1>1, <1>2, RequestKeys DEF KeyOf, At

\* What a worker copies in its write phase.
LEMMA ElementType ==
    ASSUME LInv, NEW w \in Worker, pc[w] \in Writers \cup {"commit"}, NEW i \in 1 .. 2
    PROVE  /\ NewVal(w, i) \in Record
           /\ Element(w, i).bytes \in Record /\ Element(w, i).size \in 1 .. VAL_SIZE
           /\ read_set[w][i].val \in Record /\ read_set[w][i].tid \in Nat
<1>1. cur[w] \in Xact /\ read_set[w] \in Seq([tid : Nat, val : Record]) /\ Len(read_set[w]) = 2
    BY CurrentKeys DEF LInv, TypeOK, Places, Writers, Before, Reading
<1>2. read_set[w][i] \in [tid : Nat, val : Record]
    BY <1>1, ElementOfSeq
<1>3. read_set[w][i].val \in Record /\ read_set[w][i].tid \in Nat
    BY <1>2
<1>4. amount[read_set[w][i].val] \in Int /\ Moved(cur[w]) \in Int
    BY <1>1, <1>3, AmountType, MovedType, Int32IsInt
<1>5. NewVal(w, i) \in Record
    <2> DEFINE a == amount[read_set[w][i].val]
               m == Moved(cur[w])
    <2>1. Wrap(a - m) \in Int32 /\ Wrap(a + m) \in Int32
        <3>1. a \in Int /\ m \in Int
            BY <1>4
        <3> HIDE DEF a, m
        <3>2. a - m \in Int /\ a + m \in Int
            BY <3>1
        <3> QED
            BY <3>2, WrapType
    <2>2. NewVal(w, i) = val[Wrap(IF i = 1 THEN a - m ELSE a + m)]
        BY DEF NewVal
    <2> HIDE DEF a, m
    <2> QED
        BY <2>1, <2>2, ValType
<1>6. write_val[w] \in Record
    BY SiloAssumption
<1> QED
    BY <1>3, <1>5, <1>6, SourceType DEF Element

LEMMA ReadType ==
    ASSUME LInv, NEW w \in Worker
    PROVE  /\ read_set[w] \in Seq([tid : Nat, val : Record])
           /\ pc[w] \in Reading => Len(read_set[w]) = idx[w] - 1
           /\ \A i \in 1 .. Len(read_set[w]) :
                 read_set[w][i].tid \in Nat /\ read_set[w][i].val \in Record
<1>1. read_set[w] \in Seq([tid : Nat, val : Record])
    BY DEF LInv, TypeOK
<1>2. \A i \in 1 .. Len(read_set[w]) : read_set[w][i] \in [tid : Nat, val : Record]
    BY <1>1, ElementOfSeq
<1> QED
    BY <1>1, <1>2 DEF LInv, Places

LEMMA CommitTidType == ASSUME TypeOK, NEW w \in Worker PROVE CommitTid(w) \in Nat
<1>1. /\ Increment(max_set[w]) \in Nat /\ Increment(mrctid[w]) \in Nat /\ FirstTid \in Nat
    BY IncrementType, SiloAssumption DEF TypeOK, FirstTid
<1> QED
    BY <1>1 DEF CommitTid, Larger

\* One round of a loop over the two elements of a set.
LEMMA LoopStep ==
    ASSUME TypeOK, NEW w \in Worker, NEW p, NEW again \in Pc, NEW q \in Pc,
           Loop(w, p, again, q)
    PROVE  /\ pc' \in [Worker -> Pc] /\ idx' \in [Worker -> 1 .. 2] /\ pc[w] = p
           /\ \/ idx[w] = 1 /\ idx'[w] = 2 /\ pc'[w] = again
              \/ idx[w] = 2 /\ idx'[w] = 1 /\ pc'[w] = q
<1>1. pc \in [Worker -> Pc] /\ idx \in [Worker -> 1 .. 2]
    BY DEF TypeOK
<1>2. CASE idx[w] = 1 /\ Point(w, 2) /\ Goto(w, again)
    BY <1>1, <1>2 DEF Loop, Point, Goto
<1>3. CASE idx[w] = 2 /\ Point(w, 1) /\ Goto(w, q)
    BY <1>1, <1>3 DEF Loop, Point, Goto
<1> QED
    BY <1>2, <1>3 DEF Loop

ReadSets ==
    /\ DOMAIN read_set = Worker
    /\ \A v \in Worker : /\ read_set[v] \in Seq([tid : Nat, val : Record])
                          /\ Len(read_set[v]) <= 2

\* The read set of a worker is cleared.
LEMMA ReadSetCleared ==
    ASSUME ReadSets, NEW w \in Worker, read_set' = [read_set EXCEPT ![w] = <<>>]
    PROVE  ReadSets'
<1>1. DOMAIN read_set' = Worker /\ read_set'[w] = <<>>
    BY DEF ReadSets
<1>2. \A v \in Worker : v /= w => read_set'[v] = read_set[v]
    BY DEF ReadSets
<1>3. <<>> \in Seq([tid : Nat, val : Record]) /\ Len(<<>>) = 0
    OBVIOUS
<1>4. /\ read_set'[w] \in Seq([tid : Nat, val : Record])
      /\ Len(read_set'[w]) <= 2
    BY <1>1, <1>3
<1> QED
    BY <1>1, <1>2, <1>4 DEF ReadSets

LEMMA TypeKept ==
    ASSUME LInv, NEW w \in Worker, xactDequeue(w) \/ transferWork(w)
    PROVE  TypeOK'
<1>0. TypeOK /\ ReadSets
    BY DEF LInv, TypeOK, ReadSets
<1> USE DEF Step, Goto, Point, local
<1>1. CASE xactDequeue(w)
    BY <1>0, <1>1 DEF xactDequeue, TypeOK, tuples, Pc
<1>2. CASE AssertFails(w)
    BY <1>0, <1>2 DEF AssertFails, TypeOK, tuples, Pc
<1>3. CASE begin(w)
    BY <1>0, <1>3 DEF begin, TypeOK, tuples, Pc
<1>4. CASE LoadTid(w)
    <2>1. At(w) \in Key
        BY <1>4, CurrentKeys DEF LoadTid
    <2> QED
        BY <1>0, <1>4, <2>1 DEF LoadTid, TypeOK, tuples, Pc
<1>5. CASE ReadVal(w)
    <2>1. At(w) \in Key
        BY <1>5, CurrentKeys DEF ReadVal
    <2> QED
        BY <1>0, <1>5, <2>1 DEF ReadVal, TypeOK, tuples, Pc
<1>6. CASE AddToReadSet(w)
    <2> DEFINE e == [tid |-> expected[w], val |-> return_val[w]]
    <2>1. e \in [tid : Nat, val : Record]
        BY <1>0 DEF TypeOK
    <2>2. Len(read_set[w]) = idx[w] - 1 /\ read_set[w] \in Seq([tid : Nat, val : Record])
        BY <1>6, ReadType DEF AddToReadSet, Loop, Reading
    <2> HIDE DEF e
    <2>3. /\ Append(read_set[w], e) \in Seq([tid : Nat, val : Record])
          /\ Len(Append(read_set[w], e)) = Len(read_set[w]) + 1
        BY <2>1, <2>2
    <2>4. read_set' = [read_set EXCEPT ![w] = Append(read_set[w], e)]
        BY <1>6 DEF AddToReadSet, e
    <2>5. Len(read_set'[w]) <= 2 /\ read_set'[w] \in Seq([tid : Nat, val : Record])
        <3>1. read_set'[w] = Append(read_set[w], e)
            BY <1>0, <2>4 DEF TypeOK
        <3>2. idx[w] \in 1 .. 2
            BY <1>0 DEF TypeOK
        <3> QED
            BY <2>2, <2>3, <3>1, <3>2
    <2>6. /\ \A v \in Worker : /\ read_set'[v] \in Seq([tid : Nat, val : Record])
                               /\ Len(read_set'[v]) <= 2
          /\ DOMAIN read_set' = Worker
        BY <1>0, <2>4, <2>5 DEF TypeOK
    <2>7. pc' \in [Worker -> Pc] /\ idx' \in [Worker -> 1 .. 2]
        BY <1>0, <1>6, LoopStep DEF AddToReadSet, Pc
    <2>8. expected' \in [Worker -> Nat]
        BY <1>0, <1>6 DEF AddToReadSet, TypeOK
    <2> QED
        BY <1>0, <1>6, <2>6, <2>7, <2>8 DEF AddToReadSet, TypeOK, tuples
<1>7. CASE ReadAgain(w)
    <2>1. At(w) \in Key
        BY <1>7, CurrentKeys DEF ReadAgain
    <2> QED
        BY <1>0, <1>7, <2>1 DEF ReadAgain, TypeOK, tuples, Pc
<1>8. CASE LockRecord(w)
    <2>1. At(w) \in Key
        BY <1>8, CurrentKeys DEF LockRecord, Loop
    <2>2. Larger(max_set[w], tid[At(w)]) \in Nat
        BY <1>0, <2>1 DEF TypeOK, Larger
    <2>3. max_set' \in [Worker -> Nat] /\ lock' \in [Key -> BOOLEAN]
        BY <1>0, <1>8, <2>1, <2>2 DEF LockRecord, TypeOK
    <2>4. pc' \in [Worker -> Pc] /\ idx' \in [Worker -> 1 .. 2]
        BY <1>0, <1>8, LoopStep DEF LockRecord, Pc
    <2> QED
        BY <1>0, <1>8, <2>3, <2>4 DEF LockRecord, TypeOK
<1>9. CASE LockBusy(w)
    <2>1. ReadSets'
        <3>1. read_set' = read_set \/ read_set' = [read_set EXCEPT ![w] = <<>>]
            BY <1>9 DEF LockBusy, abort
        <3>2. CASE read_set' = read_set
            BY <1>0, <3>2 DEF ReadSets
        <3>3. CASE read_set' = [read_set EXCEPT ![w] = <<>>]
            BY <1>0, <3>3, ReadSetCleared
        <3> QED
            BY <3>1, <3>2, <3>3
    <2>2. pc' \in [Worker -> Pc] /\ idx' \in [Worker -> 1 .. 2]
        <3>1. PICK p \in {"begin", "unlockFirst"} : pc' = [pc EXCEPT ![w] = p]
            BY <1>9 DEF LockBusy, abort
        <3>2. idx' = [idx EXCEPT ![w] = 1]
            BY <1>9 DEF LockBusy, abort
        <3> QED
            BY <1>0, <3>1, <3>2 DEF TypeOK, Pc
    <2> QED
        BY <1>0, <1>9, <2>1, <2>2 DEF LockBusy, TypeOK, ReadSets, tuples
<1>10. CASE Validate(w)
    <2>1. At(w) \in Key
        BY <1>10, CurrentKeys DEF Validate, Loop
    <2>2. Larger(max_set[w], tid[At(w)]) \in Nat
        BY <1>0, <2>1 DEF TypeOK, Larger
    <2>3. max_set' \in [Worker -> Nat]
        BY <1>0, <1>10, <2>1, <2>2 DEF Validate, TypeOK
    <2>4. pc' \in [Worker -> Pc] /\ idx' \in [Worker -> 1 .. 2]
        BY <1>0, <1>10, LoopStep DEF Validate, Pc
    <2> QED
        BY <1>0, <1>10, <2>3, <2>4 DEF Validate, TypeOK, tuples
<1>11. CASE ValidateFails(w)
    <2>1. pc' \in [Worker -> Pc] /\ idx' \in [Worker -> 1 .. 2]
        BY <1>0, <1>11 DEF ValidateFails, TypeOK, Pc
    <2> QED
        BY <1>0, <1>11, <2>1 DEF ValidateFails, TypeOK, tuples
<1>12. CASE unlockWriteSet(w)
    <2>1. lock' \in [Key -> BOOLEAN]
        BY <1>0, <1>12 DEF unlockWriteSet, TypeOK
    <2>2. ReadSets'
        <3>1. read_set' = read_set \/ read_set' = [read_set EXCEPT ![w] = <<>>]
            BY <1>12 DEF unlockWriteSet, abort
        <3>2. CASE read_set' = read_set
            BY <1>0, <3>2 DEF ReadSets
        <3>3. CASE read_set' = [read_set EXCEPT ![w] = <<>>]
            BY <1>0, <3>3, ReadSetCleared
        <3> QED
            BY <3>1, <3>2, <3>3
    <2>3. pc' \in [Worker -> Pc] /\ idx' \in [Worker -> 1 .. 2]
        <3>1. PICK i \in 1 .. 2 : idx' = [idx EXCEPT ![w] = i]
            BY <1>12 DEF unlockWriteSet, abort
        <3>2. pc' = pc \/ pc' = [pc EXCEPT ![w] = "begin"]
            BY <1>12 DEF unlockWriteSet, abort
        <3> QED
            BY <1>0, <3>1, <3>2 DEF TypeOK, Pc
    <2> QED
        BY <1>0, <1>12, <2>1, <2>2, <2>3 DEF unlockWriteSet, TypeOK, ReadSets
<1>13. CASE ChooseTid(w)
    BY <1>0, <1>13, CommitTidType DEF ChooseTid, TypeOK, tuples, Pc
<1>14. CASE CopyByte(w)
    <2> DEFINE e == Element(w, idx[w])
    <2>1. /\ At(w) \in Key /\ idx[w] \in 1 .. 2 /\ pc[w] = "copy" /\ pos[w] < e.size
          /\ record' = [record EXCEPT ![At(w)][pos[w]] = e.bytes[pos[w]]]
          /\ pos' = [pos EXCEPT ![w] = @ + 1]
        BY <1>14, CurrentKeys DEF CopyByte
    <2>2. e.bytes \in Record /\ e.size \in 1 .. VAL_SIZE
        BY <2>1, ElementType DEF Writers
    <2> HIDE DEF e
    <2>3. VAL_SIZE \in Nat
        BY RecordsAssumption
    <2>4. pos[w] \in 0 .. VAL_SIZE
        BY <1>0 DEF TypeOK
    <2>5. pos[w] + 1 \in 0 .. VAL_SIZE /\ pos[w] \in Place
        BY <2>1, <2>2, <2>3, <2>4 DEF Place
    <2>6. pos' \in [Worker -> 0 .. VAL_SIZE]
        BY <1>0, <2>1, <2>5 DEF TypeOK
    <2>7. record' \in [Key -> Record]
        <3>1. e.bytes[pos[w]] \in 0 .. Base - 1
            BY <2>2, <2>5 DEF Record
        <3>2. [record[At(w)] EXCEPT ![pos[w]] = e.bytes[pos[w]]] \in Record
            BY <1>0, <2>1, <3>1 DEF TypeOK, Record
        <3> QED
            BY <1>0, <2>1, <3>2 DEF TypeOK
    <2> QED
        BY <1>0, <1>14, <2>6, <2>7 DEF CopyByte, TypeOK
<1>15. CASE StoreTid(w)
    <2>0. At(w) \in Key
        BY <1>15, CurrentKeys DEF StoreTid, Loop
    <2>1. tid' \in [Key -> Nat] /\ lock' \in [Key -> BOOLEAN]
        BY <1>0, <1>15, <2>0 DEF StoreTid, TypeOK
    <2>2. pc' \in [Worker -> Pc] /\ idx' \in [Worker -> 1 .. 2]
        BY <1>0, <1>15, LoopStep DEF StoreTid, Pc
    <2>3. pos' \in [Worker -> 0 .. VAL_SIZE]
        BY <1>0, <1>15, RecordsAssumption DEF StoreTid, TypeOK
    <2>4. ReadSets'
        BY <1>0, <1>15, ReadSetCleared DEF StoreTid, ReadSets
    <2>5. cur' \in [Worker -> Xact \cup {NoXact}]
        BY <1>0, <1>15 DEF StoreTid, TypeOK
    <2> QED
        BY <1>0, <1>15, <2>1, <2>2, <2>3, <2>4, <2>5 DEF StoreTid, TypeOK, ReadSets
<1>16. CASE Overrun(w)
    BY <1>0, <1>16 DEF Overrun, TypeOK, tuples, Pc
<1> QED
    BY <1>1, <1>2, <1>3, <1>4, <1>5, <1>6, <1>7, <1>8, <1>9, <1>10, <1>11, <1>12, <1>13,
       <1>14, <1>15, <1>16
    DEF transferWork, read, validationPhase, writePhase

-----------------------------------------------------------------------------
(* Control: requests, keys, iterators *)

\* The places of one worker.
PlacesOf(w) ==
    /\ pc[w] \in Before \cup {"unlockFirst", "commit"} => idx[w] = 1
    /\ pc[w] \in Before => Len(read_set[w]) = 0
    /\ pc[w] \in Reading => Len(read_set[w]) = idx[w] - 1
    /\ pc[w] \notin Before \cup Reading => Len(read_set[w]) = 2
    /\ pc[w] \notin Writers => pos[w] = 0

\* The only steps that change the request of a worker are the first and the
\* last.
LEMMA RequestKept ==
    ASSUME LInv, NEW w \in Worker, xactDequeue(w) \/ transferWork(w)
    PROVE  \/ /\ pc[w] = "idle" /\ pc'[w] = "begin" /\ cur'[w] \in queued
              /\ queued' = queued \ {cur'[w]}
           \/ /\ pc[w] = "copy" /\ pc'[w] = "idle" /\ cur'[w] = NoXact
              /\ idx[w] = 2 /\ queued' = queued
           \/ /\ pc[w] /= "idle" /\ pc'[w] /= "idle" /\ cur'[w] = cur[w]
              /\ queued' = queued
              /\ pc'[w] \notin Before => pc[w] \notin Before \/ From[cur[w]] /= To[cur[w]]
<1>0. /\ pc \in [Worker -> Pc] /\ cur \in [Worker -> Xact \cup {NoXact}]
      /\ idx \in [Worker -> 1 .. 2] /\ TypeOK
    BY DEF LInv, TypeOK
<1> USE DEF Step, Goto, local, Before
<1>1. CASE xactDequeue(w)
    BY <1>0, <1>1 DEF xactDequeue
<1>2. CASE AssertFails(w)
    BY <1>0, <1>2 DEF AssertFails
<1>3. CASE begin(w)
    BY <1>0, <1>3 DEF begin
<1>4. CASE LoadTid(w) \/ ReadVal(w) \/ ReadAgain(w)
    BY <1>0, <1>4 DEF LoadTid, ReadVal, ReadAgain
<1>5. CASE AddToReadSet(w)
    BY <1>0, <1>5, LoopStep DEF AddToReadSet, Pc
<1>6. CASE LockRecord(w)
    BY <1>0, <1>6, LoopStep DEF LockRecord, Pc
<1>7. CASE LockBusy(w)
    BY <1>0, <1>7 DEF LockBusy, abort
<1>8. CASE Validate(w)
    BY <1>0, <1>8, LoopStep DEF Validate, Pc
<1>9. CASE ValidateFails(w)
    BY <1>0, <1>9 DEF ValidateFails
<1>10. CASE unlockWriteSet(w)
    BY <1>0, <1>10 DEF unlockWriteSet, abort
<1>11. CASE ChooseTid(w) \/ CopyByte(w) \/ Overrun(w)
    BY <1>0, <1>11 DEF ChooseTid, CopyByte, Overrun
<1>12. CASE StoreTid(w)
    BY <1>0, <1>12, LoopStep DEF StoreTid, Pc
<1> QED
    BY <1>1, <1>2, <1>3, <1>4, <1>5, <1>6, <1>7, <1>8, <1>9, <1>10, <1>11, <1>12
    DEF transferWork, read, validationPhase, writePhase

LEMMA ControlKept ==
    ASSUME LInv, NEW w \in Worker, xactDequeue(w) \/ transferWork(w)
    PROVE  OneEach' /\ DistinctKeys'
<1>1. \A v \in Worker : v /= w => pc'[v] = pc[v] /\ cur'[v] = cur[v]
    BY OthersSame DEF LInv, Rests
<1>2. OneEach /\ DistinctKeys /\ NoXact \notin Xact /\ queued \subseteq Xact
    BY SiloAssumption DEF LInv, TypeOK
<1>3. \A v \in Worker : cur[v] \in Xact \cup {NoXact}
    BY DEF LInv, TypeOK
<1>4. CASE /\ pc[w] = "idle" /\ pc'[w] = "begin" /\ cur'[w] \in queued
           /\ queued' = queued \ {cur'[w]}
    BY <1>1, <1>2, <1>4 DEF OneEach, DistinctKeys, Before
<1>5. CASE /\ pc[w] = "copy" /\ pc'[w] = "idle" /\ cur'[w] = NoXact
           /\ idx[w] = 2 /\ queued' = queued
    BY <1>1, <1>2, <1>5 DEF OneEach, DistinctKeys, Before
<1>6. CASE /\ pc[w] /= "idle" /\ pc'[w] /= "idle" /\ cur'[w] = cur[w]
           /\ queued' = queued
           /\ pc'[w] \notin Before => pc[w] \notin Before \/ From[cur[w]] /= To[cur[w]]
    BY <1>1, <1>2, <1>6 DEF OneEach, DistinctKeys
<1> QED
    BY RequestKept, <1>4, <1>5, <1>6

LEMMA PlacesKept ==
    ASSUME LInv, NEW w \in Worker, xactDequeue(w) \/ transferWork(w)
    PROVE  Places'
<1>0. /\ pc \in [Worker -> Pc] /\ idx \in [Worker -> 1 .. 2]
      /\ DOMAIN read_set = Worker /\ pos \in [Worker -> 0 .. VAL_SIZE] /\ TypeOK
      /\ read_set[w] \in Seq([tid : Nat, val : Record])
    BY DEF LInv, TypeOK
<1>1. PlacesOf(w)
    BY DEF LInv, Places, PlacesOf
<1> USE DEF Step, Goto, Point, local, PlacesOf, Before, Reading, Writers
<1>2. PlacesOf(w)'
    <2>1. CASE xactDequeue(w)
        BY <1>0, <1>1, <2>1 DEF xactDequeue
    <2>2. CASE AssertFails(w)
        BY <1>0, <1>1, <2>2 DEF AssertFails
    <2>3. CASE begin(w)
        BY <1>0, <1>1, <2>3 DEF begin
    <2>4. CASE LoadTid(w) \/ ReadVal(w) \/ ReadAgain(w)
        BY <1>0, <1>1, <2>4 DEF LoadTid, ReadVal, ReadAgain
    <2>5. CASE AddToReadSet(w)
        <3> DEFINE e == [tid |-> expected[w], val |-> return_val[w]]
        <3>1. read_set'[w] = Append(read_set[w], e)
            BY <1>0, <2>5 DEF AddToReadSet
        <3>2. Len(read_set'[w]) = Len(read_set[w]) + 1 /\ Len(read_set[w]) \in Nat
            <4>1. e \in [tid : Nat, val : Record]
                BY <1>0 DEF TypeOK
            <4> HIDE DEF e
            <4> QED
                BY <1>0, <3>1, <4>1
        <3>3. /\ pc[w] = "check"
              /\ \/ idx[w] = 1 /\ idx'[w] = 2 /\ pc'[w] = "load"
                 \/ idx[w] = 2 /\ idx'[w] = 1 /\ pc'[w] = "lock"
            BY <1>0, <2>5, LoopStep DEF AddToReadSet, Pc
        <3>4. pos' = pos
            BY <2>5 DEF AddToReadSet
        <3> QED
            BY <1>0, <1>1, <3>2, <3>3, <3>4
    <2>6. CASE LockRecord(w)
        BY <1>0, <1>1, <2>6, LoopStep DEF LockRecord, Pc
    <2>7. CASE LockBusy(w)
        BY <1>0, <1>1, <2>7 DEF LockBusy, abort
    <2>8. CASE Validate(w)
        BY <1>0, <1>1, <2>8, LoopStep DEF Validate, Pc
    <2>9. CASE ValidateFails(w)
        BY <1>0, <1>1, <2>9 DEF ValidateFails
    <2>10. CASE unlockWriteSet(w)
        BY <1>0, <1>1, <2>10 DEF unlockWriteSet, abort
    <2>11. CASE ChooseTid(w) \/ CopyByte(w) \/ Overrun(w)
        BY <1>0, <1>1, <2>11 DEF ChooseTid, CopyByte, Overrun
    <2>12. CASE StoreTid(w)
        BY <1>0, <1>1, <2>12, LoopStep DEF StoreTid, Pc
    <2> QED
        BY <2>1, <2>2, <2>3, <2>4, <2>5, <2>6, <2>7, <2>8, <2>9, <2>10, <2>11, <2>12
        DEF transferWork, read, validationPhase, writePhase
<1>3. ASSUME NEW v \in Worker, v /= w PROVE PlacesOf(v)'
    <2>1. Rests(v) /\ PlacesOf(v)
        BY <1>0, <1>3, OthersSame DEF LInv, Places
    <2> QED
        BY <2>1 DEF Rests
<1> QED
    BY <1>2, <1>3 DEF Places

-----------------------------------------------------------------------------
(* Locks *)

\* The keys that a worker has locked, as its program counter and iterator say.
HeldAs(w) ==
    /\ pc[w] \in Before \cup Reading => Held(w) = {}
    /\ pc[w] = "lock" /\ idx[w] = 1 => Held(w) = {}
    /\ pc[w] = "lock" /\ idx[w] = 2 => Held(w) = {KeyOf(w, 1)}
    /\ pc[w] = "unlockFirst" => Held(w) = {KeyOf(w, 1)}
    /\ pc[w] \in {"validate", "commit"} => Held(w) = {KeyOf(w, 1), KeyOf(w, 2)}
    /\ pc[w] \in Writers \cup {"unlockAll"} /\ idx[w] = 1
          => Held(w) = {KeyOf(w, 1), KeyOf(w, 2)}
    /\ pc[w] \in Writers \cup {"unlockAll"} /\ idx[w] = 2 => Held(w) = {KeyOf(w, 2)}

LEMMA HeldAre == TypeOK => \A w \in Worker : HeldAs(w)
<1> SUFFICES ASSUME TypeOK, NEW w \in Worker PROVE HeldAs(w)
    OBVIOUS
<1>1. pc[w] \in Pc /\ idx[w] \in 1 .. 2
    BY DEF TypeOK
<1>2. pc[w] \in Before \cup Reading => HeldIdx(w) = {}
    BY DEF HeldIdx, Before, Reading
<1>3. pc[w] = "lock" => HeldIdx(w) = IF idx[w] = 1 THEN {} ELSE {1}
    BY <1>1 DEF HeldIdx
<1>4. pc[w] = "unlockFirst" => HeldIdx(w) = {1}
    BY DEF HeldIdx
<1>5. pc[w] \in {"validate", "commit"} => HeldIdx(w) = {1, 2}
    BY DEF HeldIdx
<1>6. pc[w] \in Writers \cup {"unlockAll"} => HeldIdx(w) = IF idx[w] = 1 THEN {1, 2} ELSE {2}
    BY <1>1 DEF HeldIdx, Writers
<1>7. Held(w) = {KeyOf(w, i) : i \in HeldIdx(w)}
    BY DEF Held, KeyOf
<1> QED
    BY <1>1, <1>2, <1>3, <1>4, <1>5, <1>6, <1>7 DEF HeldAs, Writers

LEMMA HeldAreNext == (TypeOK => \A w \in Worker : HeldAs(w))'
BY HeldAre, PTL

\* The keys held depend on the local state alone.
LEMMA HeldRests ==
    ASSUME NEW v, Rests(v)
    PROVE  /\ Held(v)' = Held(v) /\ HeldIdx(v)' = HeldIdx(v)
           /\ \A i : KeyOf(v, i)' = KeyOf(v, i)
BY DEF Rests, Held, HeldIdx, KeyOf, Keys

\* A step of one worker locks a key that is free, unlocks one that it holds, or
\* leaves the locks alone.
LEMMA LockKeeps ==
    ASSUME TypeOK, LockDiscipline, NEW w \in Worker, NEW k \in Key, ~lock[k],
           \A v \in Worker : v /= w => Held(v)' = Held(v),
           Held(w)' = Held(w) \cup {k}, lock' = [lock EXCEPT ![k] = TRUE]
    PROVE  LockDiscipline'
<1>1. \A v \in Worker : k \notin Held(v)
    BY DEF LockDiscipline
<1>2. \A j \in Key : lock'[j] <=> lock[j] \/ j = k
    BY DEF TypeOK
<1> QED
    BY <1>1, <1>2 DEF LockDiscipline

LEMMA UnlockKeeps ==
    ASSUME TypeOK, LockDiscipline, NEW w \in Worker, NEW k \in Held(w),
           \A v \in Worker : v /= w => Held(v)' = Held(v),
           Held(w)' = Held(w) \ {k}, lock' = [lock EXCEPT ![k] = FALSE]
    PROVE  LockDiscipline'
<1>1. \A v \in Worker : v /= w => k \notin Held(v)
    BY DEF LockDiscipline
<1>2. \A j \in Key : lock'[j] <=> lock[j] /\ j /= k
    BY DEF TypeOK
<1> QED
    BY <1>1, <1>2 DEF LockDiscipline

LEMMA SameLocksKeep ==
    ASSUME LockDiscipline, NEW w \in Worker,
           \A v \in Worker : v /= w => Held(v)' = Held(v),
           Held(w)' = Held(w), lock' = lock
    PROVE  LockDiscipline'
BY DEF LockDiscipline

LEMMA LocksKept ==
    ASSUME LInv, NEW w \in Worker, xactDequeue(w) \/ transferWork(w)
    PROVE  LockDiscipline'
<1>0. /\ TypeOK /\ TypeOK' /\ LockDiscipline /\ idx[w] \in 1 .. 2
      /\ pc \in [Worker -> Pc] /\ idx \in [Worker -> 1 .. 2]
    BY TypeKept DEF LInv, TypeOK
<1>1. HeldAs(w) /\ HeldAs(w)'
    BY <1>0, HeldAre, HeldAreNext
<1>2. \A v \in Worker : v /= w => Held(v)' = Held(v)
    BY <1>0, OthersSame, HeldRests
<1>3. Places
    BY DEF LInv
<1>4. (cur'[w] = cur[w]) => \A i : KeyOf(w, i)' = KeyOf(w, i)
    BY DEF KeyOf, Keys
<1> USE DEF Step, Goto, Point, local, HeldAs, Before, Reading, Writers
<1>5. CASE xactDequeue(w) \/ AssertFails(w) \/ begin(w)
    <2>1. Held(w)' = Held(w) /\ lock' = lock
        BY <1>0, <1>1, <1>5 DEF xactDequeue, AssertFails, begin, tuples
    <2> QED
        BY <1>0, <1>2, <2>1, SameLocksKeep
<1>6. CASE LoadTid(w) \/ ReadVal(w) \/ ReadAgain(w)
    <2>1. Held(w)' = Held(w) /\ lock' = lock
        BY <1>0, <1>1, <1>6 DEF LoadTid, ReadVal, ReadAgain, tuples
    <2> QED
        BY <1>0, <1>2, <2>1, SameLocksKeep
<1>7. CASE AddToReadSet(w)
    <2>1. Held(w)' = Held(w) /\ lock' = lock
        BY <1>0, <1>1, <1>7, LoopStep DEF AddToReadSet, tuples, Pc
    <2> QED
        BY <1>0, <1>2, <2>1, SameLocksKeep
<1>8. CASE LockRecord(w)
    <2>1. /\ pc[w] = "lock" /\ cur' = cur /\ ~lock[At(w)] /\ lock' = [lock EXCEPT ![At(w)] = TRUE]
          /\ \/ idx[w] = 1 /\ idx'[w] = 2 /\ pc'[w] = "lock"
             \/ idx[w] = 2 /\ idx'[w] = 1 /\ pc'[w] = "validate"
        BY <1>0, <1>8, LoopStep DEF LockRecord, Pc
    <2>2. At(w) = KeyOf(w, idx[w]) /\ At(w) \in Key
        BY <2>1, CurrentKeys
    <2>3. Held(w)' = Held(w) \cup {At(w)}
        BY <1>1, <1>4, <2>1, <2>2
    <2> QED
        BY <1>0, <1>2, <2>1, <2>2, <2>3, LockKeeps
<1>9. CASE LockBusy(w)
    <2>1. /\ pc[w] = "lock" /\ cur' = cur /\ lock' = lock
          /\ \/ idx[w] = 1 /\ pc'[w] = "begin"
             \/ idx[w] = 2 /\ pc'[w] = "unlockFirst"
        BY <1>0, <1>9 DEF LockBusy, abort, tuples
    <2>2. Held(w)' = Held(w)
        BY <1>1, <1>4, <2>1
    <2> QED
        BY <1>0, <1>2, <2>1, <2>2, SameLocksKeep
<1>10. CASE Validate(w) \/ ValidateFails(w)
    <2>1. /\ pc[w] = "validate" /\ cur' = cur /\ lock' = lock
          /\ \/ pc'[w] = "validate" \/ pc'[w] = "commit" \/ (pc'[w] = "unlockAll" /\ idx'[w] = 1)
        BY <1>0, <1>10, LoopStep DEF Validate, ValidateFails, tuples, Pc
    <2>2. Held(w)' = Held(w)
        BY <1>1, <1>4, <2>1
    <2> QED
        BY <1>0, <1>2, <2>1, <2>2, SameLocksKeep
<1>11. CASE unlockWriteSet(w)
    <2>1. /\ cur' = cur /\ lock' = [lock EXCEPT ![At(w)] = FALSE]
          /\ \/ pc[w] = "unlockAll" /\ idx[w] = 1 /\ pc'[w] = "unlockAll" /\ idx'[w] = 2
             \/ pc[w] = "unlockAll" /\ idx[w] = 2 /\ pc'[w] = "begin"
             \/ pc[w] = "unlockFirst" /\ idx[w] = 1 /\ pc'[w] = "begin"
        BY <1>0, <1>3, <1>11 DEF unlockWriteSet, abort, Places
    <2>2. At(w) = KeyOf(w, idx[w]) /\ KeyOf(w, 1) /= KeyOf(w, 2)
        BY <2>1, CurrentKeys
    <2>3. At(w) \in Held(w) /\ Held(w)' = Held(w) \ {At(w)}
        BY <1>1, <1>4, <2>1, <2>2
    <2> QED
        BY <1>0, <1>2, <2>1, <2>3, UnlockKeeps
<1>12. CASE ChooseTid(w) \/ CopyByte(w) \/ Overrun(w)
    <2>1. /\ cur' = cur /\ lock' = lock /\ idx'[w] = idx[w]
          /\ \/ pc[w] = "commit" /\ idx[w] = 1 /\ pc'[w] = "copy"
             \/ pc[w] = "copy" /\ pc'[w] \in Writers
        BY <1>0, <1>3, <1>12 DEF ChooseTid, CopyByte, Overrun, tuples, Places
    <2>2. Held(w)' = Held(w)
        BY <1>0, <1>1, <1>4, <2>1
    <2> QED
        BY <1>0, <1>2, <2>1, <2>2, SameLocksKeep
<1>13. CASE StoreTid(w)
    <2>1. /\ pc[w] = "copy" /\ lock' = [lock EXCEPT ![At(w)] = FALSE]
          /\ \/ idx[w] = 1 /\ idx'[w] = 2 /\ pc'[w] = "copy" /\ cur' = cur
             \/ idx[w] = 2 /\ idx'[w] = 1 /\ pc'[w] = "idle"
        BY <1>0, <1>13, LoopStep DEF StoreTid, Pc
    <2>2. At(w) = KeyOf(w, idx[w]) /\ KeyOf(w, 1) /= KeyOf(w, 2)
        BY <2>1, CurrentKeys
    <2>3. At(w) \in Held(w) /\ Held(w)' = Held(w) \ {At(w)}
        BY <1>1, <1>4, <2>1, <2>2
    <2> QED
        BY <1>0, <1>2, <2>1, <2>3, UnlockKeeps
<1> QED
    BY <1>5, <1>6, <1>7, <1>8, <1>9, <1>10, <1>11, <1>12, <1>13
    DEF transferWork, read, validationPhase, writePhase

-----------------------------------------------------------------------------

LEMMA InitRecordType ==
    \A k \in Key : [Memory[k] EXCEPT ![0] = Letter, ![1] = 0] \in Record
<1>1. /\ \A k \in Key : Memory[k] \in [Place -> 0 .. Base - 1]
      /\ Letter \in 0 .. Base - 1 /\ 0 \in 0 .. Base - 1
    BY SiloAssumption, RecordsAssumption DEF Record
<1> QED
    BY <1>1 DEF Record

LEMMA LockInit == Init => LInv
<1> SUFFICES ASSUME Init PROVE LInv
    OBVIOUS
<1> USE DEF Init, Before, Reading, Writers
<1>1. TypeOK
    <2>1. /\ FirstTid \in Nat /\ TIDS \in Nat /\ VAL_SIZE \in Nat /\ 0 \in 0 .. Base - 1
        BY SiloAssumption, RecordsAssumption DEF FirstTid
    <2>2. record \in [Key -> Record]
        BY InitRecordType
    <2>3. return_val \in [Worker -> Record]
        BY <2>1 DEF Record
    <2>4. \A w \in Worker : read_set[w] \in Seq([tid : Nat, val : Record]) /\ Len(read_set[w]) <= 2
        <3>1. <<>> \in Seq([tid : Nat, val : Record]) /\ Len(<<>>) = 0
            OBVIOUS
        <3>2. \A w \in Worker : read_set[w] = <<>>
            OBVIOUS
        <3> QED
            BY <3>1, <3>2
    <2>5. /\ lock \in [Key -> BOOLEAN] /\ tid \in [Key -> Nat]
          /\ queued \subseteq Xact
          /\ cur \in [Worker -> Xact \cup {NoXact}]
        BY <2>1
    <2>6. /\ idx \in [Worker -> 1 .. 2] /\ pos \in [Worker -> 0 .. VAL_SIZE]
          /\ expected \in [Worker -> Nat] /\ max_set \in [Worker -> Nat]
          /\ mrctid \in [Worker -> Nat] /\ DOMAIN read_set = Worker
        BY <2>1
    <2>7. pc \in [Worker -> Pc]
        BY DEF Pc
    <2> HIDE DEF Init
    <2> QED
        BY <2>2, <2>3, <2>4, <2>5, <2>6, <2>7 DEF TypeOK
<1>2. OneEach /\ DistinctKeys
    BY SiloAssumption DEF OneEach, DistinctKeys
<1>3. Places
    <2>1. \A w \in Worker : Len(read_set[w]) = 0
        OBVIOUS
    <2> QED
        BY <2>1 DEF Places
<1>4. \A w \in Worker : Held(w) = {}
    BY <1>1, HeldAre DEF HeldAs
<1>5. LockDiscipline
    BY <1>4 DEF LockDiscipline
<1> QED
    BY <1>1, <1>2, <1>3, <1>5 DEF LInv

LEMMA LockStutter == LInv /\ UNCHANGED vars => LInv'
<1> SUFFICES ASSUME LInv, UNCHANGED vars PROVE LInv'
    OBVIOUS
<1>1. \A w \in Worker : Held(w)' = Held(w)
    BY DEF vars, local, Held, HeldIdx, Keys
<1>2. OneEach' /\ DistinctKeys' /\ Places' /\ TypeOK'
    BY DEF vars, tuples, local, LInv, OneEach, DistinctKeys, Places, TypeOK
<1>3. LockDiscipline'
    BY <1>1 DEF vars, tuples, LInv, LockDiscipline
<1> QED
    BY <1>2, <1>3 DEF LInv

LEMMA LockStep ==
    ASSUME LInv, NEW w \in Worker, xactDequeue(w) \/ transferWork(w)
    PROVE  LInv'
BY TypeKept, ControlKept, PlacesKept, LocksKept DEF LInv

\* The part of the invariant that needs no assumption on the numbers.
THEOREM LockInvariance == Spec => []LInv
<1>1. LInv /\ [Next]_vars => LInv'
    BY LockStep, LockStutter DEF Next
<1> QED
    BY LockInit, <1>1, PTL DEF Spec

\* Every word, value, iterator and program counter of Silo stays in its range
\* (transaction.cc), and a read set never has more than the two records.
THEOREM TypeCorrect == Spec => []TypeOK
<1>1. LInv => TypeOK
    BY DEF LInv
<1> QED
    BY <1>1, LockInvariance, PTL

\* LockDiscipline (transaction.cc, lockWriteSet, unlockWriteSet, writePhase):
\* through all the ways to abort, a record is locked exactly while one worker
\* has it locked.
THEOREM LockDisciplineHolds == Spec => []LockDiscipline
<1>1. LInv => LockDiscipline
    BY DEF LInv
<1> QED
    BY <1>1, LockInvariance, PTL

-----------------------------------------------------------------------------
(* Giving way *)

HasFirst(w) == pc[w] = "unlockFirst" \/ (pc[w] = "lock" /\ idx[w] = 2)

HasBoth(w) == pc[w] \in {"validate", "commit", "unlockAll", "copy", "overrun"}

SecondFree(w) == ~ lock[Key2(cur[w])]

\* A transaction that has its first lock finds the second one taken only by one
\* that has got both, or holds a larger record.
GivesWayUpwards ==
    \A w \in Worker : HasFirst(w) /\ ~ SecondFree(w) =>
        \E v \in Worker :
            /\ Key2(cur[w]) \in Held(v)
            /\ HasBoth(v) \/ (HasFirst(v) /\ Key1(cur[v]) > Key1(cur[w]))

\* When transactions have their first lock and none has both, one of them finds
\* its second record unlocked.
SomebodyGetsOn ==
    (\E w \in Worker : HasFirst(w)) /\ (\A w \in Worker : ~ HasBoth(w)) =>
        \E w \in Worker : HasFirst(w) /\ SecondFree(w)

LEMMA HolderIsAbove ==
    ASSUME LInv, NEW w \in Worker, HasFirst(w), ~ SecondFree(w)
    PROVE  \E v \in Worker :
              /\ Key2(cur[w]) \in Held(v)
              /\ HasBoth(v) \/ (HasFirst(v) /\ Key1(cur[v]) > Key1(cur[w]))
<1>1. /\ cur[w] \in Xact /\ Key2(cur[w]) \in Key /\ From[cur[w]] /= To[cur[w]]
    BY RequestKeys DEF LInv, TypeOK, OneEach, DistinctKeys, HasFirst, Before
<1>2. PICK v \in Worker : Key2(cur[w]) \in Held(v)
    BY <1>1 DEF LInv, LockDiscipline, SecondFree
<1>3. PICK i \in HeldIdx(v) : Keys(cur[v])[i] = Key2(cur[w])
    BY <1>2 DEF Held
<1>4. idx[v] \in 1 .. 2 /\ i \in 1 .. 2 /\ (HasBoth(v) \/ (HasFirst(v) /\ i = 1))
    BY <1>3 DEF LInv, TypeOK, HeldIdx, HasBoth, HasFirst
<1>5. i = 1 => Key1(cur[v]) = Key2(cur[w])
    BY <1>3 DEF Keys
<1>6. Key2(cur[w]) > Key1(cur[w])
    <2>1. From[cur[w]] \in Nat /\ To[cur[w]] \in Nat
        BY <1>1, SiloAssumption, DataAssumption
    <2> QED
        BY <1>1, <2>1 DEF Key1, Key2
<1> QED
    BY <1>2, <1>4, <1>5, <1>6

\* lockWriteSet gives up at the first record that is locked; but the write sets
\* are sorted, so transactions that make each other abort never form a circle,
\* and as long as none has both locks one of them can get its second.
THEOREM GivingWayEnds ==
    /\ Spec => []GivesWayUpwards
    /\ IsFiniteSet(Worker) => (Spec => []SomebodyGetsOn)
<1>1. LInv => GivesWayUpwards
    BY HolderIsAbove DEF GivesWayUpwards
<1>2. ASSUME IsFiniteSet(Worker) PROVE LInv => SomebodyGetsOn
    <2> SUFFICES ASSUME LInv, \E w \in Worker : HasFirst(w), \A w \in Worker : ~ HasBoth(w)
                 PROVE  \E w \in Worker : HasFirst(w) /\ SecondFree(w)
        BY DEF SomebodyGetsOn
    <2> DEFINE H == {w \in Worker : HasFirst(w)}
               f == [w \in H |-> Key1(cur[w])]
    <2>1. IsFiniteSet(H) /\ H /= {}
        BY <1>2, FS_Subset
    <2>2. ASSUME NEW w \in H PROVE f[w] = Key1(cur[w]) /\ f[w] \in Nat
        <3>1. cur[w] \in Xact
            BY DEF LInv, TypeOK, OneEach, HasFirst
        <3> QED
            BY <3>1, RequestKeys, DataAssumption
    <2>3. PICK w \in H : \A v \in H : f[v] <= f[w]
        <3> HIDE DEF H, f
        <3> QED
            BY <2>1, <2>2, LargestIs
    <2>4. ASSUME ~ SecondFree(w) PROVE FALSE
        <3>1. PICK v \in Worker : HasFirst(v) /\ Key1(cur[v]) > Key1(cur[w])
            BY <2>4, HolderIsAbove
        <3>2. f[v] <= f[w]
            BY <2>3, <3>1
        <3> QED
            BY <2>2, <3>1, <3>2
    <2> QED
        BY <2>4
<1>3. Spec => []GivesWayUpwards
    BY <1>1, LockInvariance, PTL
<1>4. ASSUME IsFiniteSet(Worker) PROVE Spec => []SomebodyGetsOn
    BY <1>2, <1>4, LockInvariance, PTL
<1> QED
    BY <1>3, <1>4

-----------------------------------------------------------------------------
(* Transaction numbers *)

(* A run commits fewer transactions than a TID word has numbers: 2^29.     *)
NumbersSuffice == IsFiniteSet(Xact) /\ Cardinality(Xact) < TIDS

\* somebody may be copying into the record
Writing(k) == \E w \in Worker : pc[w] \in Writers /\ k \in Held(w)

\* A value read with a TID is not from the future, and it is the value of the
\* record while the record has that TID and nobody is writing it.
EntryOK(k, t, v) == t <= tid[k] /\ (t = tid[k] /\ ~Writing(k) => v = record[k])

FreshOf(w) ==
    /\ \A i \in 1 .. Len(read_set[w]) :
          EntryOK(KeyOf(w, i), read_set[w][i].tid, read_set[w][i].val)
    /\ pc[w] \in {"read", "check"} => expected[w] <= tid[At(w)]
    /\ pc[w] = "check" => EntryOK(At(w), expected[w], return_val[w])

Fresh == \A w \in Worker : FreshOf(w)

SameTidSameVal ==
    \A v, w \in Worker : \A i \in 1 .. Len(read_set[v]), j \in 1 .. Len(read_set[w]) :
        KeyOf(v, i) = KeyOf(w, j) /\ read_set[v][i].tid = read_set[w][j].tid
            => read_set[v][i].val = read_set[w][j].val

\* the elements whose validation a worker still relies on
Validated(w) ==
    CASE pc[w] = "validate"  -> {i \in 1 .. 2 : i < idx[w]}
      [] pc[w] = "commit"    -> 1 .. 2
      [] pc[w] \in Writers   -> {i \in 1 .. 2 : i >= idx[w]}
      [] OTHER               -> {}

StillCurrent ==
    \A w \in Worker : \A i \in Validated(w) : read_set[w][i].tid = tid[KeyOf(w, i)]

\* What the record that a worker is copying into looks like.
HalfWrittenBy(w) ==
    pc[w] \in Writers =>
        /\ pos[w] <= Element(w, idx[w]).size
        /\ record[At(w)] = Overwrite(read_set[w][idx[w]].val, Element(w, idx[w]).bytes, pos[w])
        /\ idx[w] = 1 => record[KeyOf(w, 2)] = read_set[w][2].val

HalfWritten == \A w \in Worker : HalfWrittenBy(w)

\* The TIDs collected by a worker, and the one chosen, against those of the
\* records it has locked.
AboveOf(w) ==
    \A i \in HeldIdx(w) :
        /\ pc[w] \in {"lock", "validate", "commit"} => max_set[w] >= tid[KeyOf(w, i)]
        /\ pc[w] \in Writers => mrctid[w] > tid[KeyOf(w, i)]

Above == \A w \in Worker : AboveOf(w)

\* the requests for which a number has been chosen
Numbered == {x \in Xact \ queued : \A w \in Worker : cur[w] = x => pc[w] \in Writers}

Numbers == TIDS .. TIDS + Cardinality(Numbered)

NumbersBounded ==
    /\ \A k \in Key : tid[k] \in Numbers
    /\ \A w \in Worker : mrctid[w] \in Numbers \cup {0} /\ max_set[w] \in Numbers \cup {0}

TInv ==
    /\ LInv
    /\ Fresh /\ SameTidSameVal /\ StillCurrent /\ HalfWritten /\ Above /\ NumbersBounded

-----------------------------------------------------------------------------
(* Numbers *)

\* As long as the numbers suffice, incrementing one does not wrap around.
LEMMA IncrementAdds ==
    ASSUME NEW t \in (TIDS .. 2 * TIDS - 2) \cup {0}
    PROVE  Increment(t) = t + 1
<1>1. TIDS \in Nat /\ TIDS >= 2
    BY SiloAssumption
<1>2. CASE t = 0
    <2>1. 0 \div TIDS = 0 /\ (0 + 1) % TIDS = 1
        BY <1>1
    <2> QED
        BY <1>1, <1>2, <2>1 DEF Increment
<1>3. CASE t \in TIDS .. 2 * TIDS - 2
    <2>1. t \div TIDS = 1 /\ (t + 1) % TIDS = t + 1 - TIDS
        <3> DEFINE r == t - TIDS
        <3>1. r \in 0 .. TIDS - 2 /\ t = 1 * TIDS + r
            BY <1>1, <1>3
        <3> HIDE DEF r
        <3>2. (1 * TIDS + r) \div TIDS = 1 /\ ((1 * TIDS + r) + 1) % TIDS = r + 1
            BY <1>1, <3>1
        <3> QED
            BY <1>1, <1>3, <3>1, <3>2
    <2> QED
        BY <1>1, <1>3, <2>1 DEF Increment
<1> QED
    BY <1>2, <1>3

\* While a request has no number yet, there is room for one more.
LEMMA RoomForOne ==
    ASSUME NumbersSuffice, NEW x \in Xact, x \notin Numbered
    PROVE  /\ IsFiniteSet(Numbered) /\ Cardinality(Numbered) \in Nat
           /\ Cardinality(Numbered \cup {x}) = Cardinality(Numbered) + 1
           /\ Cardinality(Numbered) + 1 < TIDS
<1>1. Numbered \subseteq Xact /\ IsFiniteSet(Xact)
    BY DEF Numbered, NumbersSuffice
<1>2. IsFiniteSet(Numbered) /\ Cardinality(Numbered) \in Nat
    BY <1>1, FS_Subset, FS_CardinalityType
<1>3. /\ Cardinality(Numbered \cup {x}) = Cardinality(Numbered) + 1
      /\ IsFiniteSet(Numbered \cup {x})
    BY <1>2, FS_AddElement
<1>4. Cardinality(Numbered \cup {x}) <= Cardinality(Xact)
    BY <1>1, FS_Subset
<1>5. Cardinality(Xact) \in Nat /\ TIDS \in Nat /\ Cardinality(Xact) < TIDS
    BY <1>1, FS_CardinalityType, SiloAssumption DEF NumbersSuffice
<1> QED
    BY <1>2, <1>3, <1>4, <1>5

\* The request that a worker has in its commit phase gets the next number.
LEMMA CommitTidIs ==
    ASSUME NumbersSuffice, LInv, NumbersBounded, NEW w \in Worker, pc[w] = "commit"
    PROVE  /\ cur[w] \in Xact \ queued /\ cur[w] \notin Numbered
           /\ Cardinality(Numbered) \in Nat /\ TIDS \in Nat
           /\ CommitTid(w) \in TIDS .. TIDS + Cardinality(Numbered) + 1
           /\ CommitTid(w) > max_set[w] /\ CommitTid(w) > mrctid[w]
<1>1. cur[w] \in Xact \ queued /\ cur[w] \notin Numbered
    BY CurrentKeys DEF LInv, OneEach, Numbered, Writers
<1>2. Cardinality(Numbered) \in Nat /\ Cardinality(Numbered) + 1 < TIDS
    BY <1>1, RoomForOne
<1>3. TIDS \in Nat /\ TIDS >= 2
    BY SiloAssumption
<1> DEFINE c == Cardinality(Numbered)
           m == max_set[w]
           n == mrctid[w]
<1>4. m \in TIDS .. TIDS + c \cup {0} /\ n \in TIDS .. TIDS + c \cup {0}
    BY DEF NumbersBounded, Numbers
<1>5. CommitTid(w) = Larger(Increment(m), Larger(Increment(n), FirstTid))
    BY DEF CommitTid
<1>6. c \in Nat /\ c + 1 < TIDS
    BY <1>2
<1> HIDE DEF c, m, n
<1>7. Increment(m) = m + 1 /\ Increment(n) = n + 1
    <2>1. m \in (TIDS .. 2 * TIDS - 2) \cup {0} /\ n \in (TIDS .. 2 * TIDS - 2) \cup {0}
        BY <1>3, <1>4, <1>6
    <2> QED
        BY <2>1, IncrementAdds
<1>8. /\ CommitTid(w) \in TIDS .. TIDS + c + 1
      /\ CommitTid(w) > m /\ CommitTid(w) > n
    BY <1>3, <1>4, <1>5, <1>6, <1>7 DEF Larger, FirstTid
<1> QED
    BY <1>1, <1>2, <1>3, <1>8 DEF c, m, n

-----------------------------------------------------------------------------
(* What one step does to the shared words *)

\* A record that is not locked is not being written; a record that one worker
\* holds is not held, so not written, by another one.
LEMMA NotWriting ==
    ASSUME LInv
    PROVE  /\ \A k \in Key : ~lock[k] => ~Writing(k)
           /\ \A v, w \in Worker : v /= w => Held(v) \cap Held(w) = {}
           /\ \A w \in Worker : \A k \in Held(w) :
                 pc[w] \notin Writers => ~Writing(k)
BY DEF LInv, LockDiscipline, Writing

\* What a worker has locked are records of its request.
LEMMA HeldKeys ==
    ASSUME LInv, NEW w \in Worker
    PROVE  /\ Held(w) = {KeyOf(w, i) : i \in HeldIdx(w)}
           /\ HeldIdx(w) \subseteq 1 .. 2
           /\ pc[w] \in Before \cup Reading => HeldIdx(w) = {}
           /\ HeldIdx(w) /= {} => pc[w] \notin Before
           /\ \A i \in HeldIdx(w) : KeyOf(w, i) \in Key
<1>1. HeldIdx(w) \subseteq 1 .. 2
    BY DEF HeldIdx
<1>2. pc[w] \in Before \cup Reading => HeldIdx(w) = {}
    BY DEF HeldIdx, Before, Reading
<1>3. pc[w] /= "idle" => KeyOf(w, 1) \in Key /\ KeyOf(w, 2) \in Key
    BY CurrentKeys
<1> QED
    BY <1>1, <1>2, <1>3 DEF Held, KeyOf, Before

\* Every step except the copying of a byte and the storing of a TID.
Quiet(w) ==
    \/ xactDequeue(w) \/ AssertFails(w) \/ begin(w) \/ read(w) \/ validationPhase(w)
    \/ ChooseTid(w) \/ Overrun(w)

LEMMA QuietStep ==
    ASSUME LInv, NEW w \in Worker, Quiet(w)
    PROVE  /\ tid' = tid /\ record' = record
           /\ pc[w] \in Writers => pc'[w] \in Writers /\ Held(w)' = Held(w)
<1>0. pc \in [Worker -> Pc]
    BY DEF LInv, TypeOK
<1> USE DEF Step, Goto, Loop, Writers, tuples, local
<1>1. CASE xactDequeue(w) \/ AssertFails(w) \/ begin(w) \/ read(w) \/ ChooseTid(w)
    BY <1>1 DEF xactDequeue, AssertFails, begin, read, LoadTid, ReadVal, AddToReadSet,
       ReadAgain, ChooseTid
<1>2. CASE validationPhase(w)
    BY <1>2 DEF validationPhase, LockRecord, LockBusy, Validate, ValidateFails, unlockWriteSet
<1>3. CASE Overrun(w)
    <2>1. tid' = tid /\ record' = record /\ pc[w] = "copy" /\ pc'[w] = "overrun"
          /\ cur' = cur /\ idx' = idx
        BY <1>0, <1>3 DEF Overrun
    <2>2. Held(w)' = Held(w)
        BY <2>1 DEF Held, HeldIdx, Keys
    <2> QED
        BY <2>1, <2>2
<1> QED
    BY <1>1, <1>2, <1>3 DEF Quiet

LEMMA CopyStep ==
    ASSUME LInv, NEW w \in Worker, CopyByte(w)
    PROVE  /\ tid' = tid /\ At(w) \in Key /\ At(w) \in Held(w) /\ Held(w)' = Held(w)
           /\ pc[w] \in Writers /\ pc'[w] \in Writers
           /\ \A k \in Key : k /= At(w) => record'[k] = record[k]
<1>0. HeldAs(w) /\ idx[w] \in 1 .. 2
    BY HeldAre DEF LInv, TypeOK
<1>1. pc[w] = "copy" /\ At(w) \in Key /\ At(w) = KeyOf(w, idx[w])
    BY CurrentKeys DEF CopyByte
<1>2. /\ tid' = tid /\ pc' = pc /\ cur' = cur /\ idx' = idx
      /\ \A k \in Key : k /= At(w) => record'[k] = record[k]
    BY <1>1 DEF CopyByte, LInv, TypeOK
<1>3. Held(w)' = Held(w)
    BY <1>2 DEF Held, HeldIdx, Keys
<1>4. At(w) \in Held(w)
    BY <1>0, <1>1 DEF HeldAs, Writers
<1> QED
    BY <1>1, <1>2, <1>3, <1>4 DEF Writers

LEMMA StoreStep ==
    ASSUME LInv, NEW w \in Worker, StoreTid(w)
    PROVE  /\ record' = record /\ At(w) \in Key /\ idx[w] \in HeldIdx(w)
           /\ At(w) = KeyOf(w, idx[w]) /\ At(w) \in Held(w) /\ pc[w] = "copy"
           /\ tid'[At(w)] = mrctid[w]
           /\ \A k \in Key : k /= At(w) => tid'[k] = tid[k]
           /\ Held(w)' = Held(w) \ {At(w)}
           /\ \/ /\ idx[w] = 1 /\ idx'[w] = 2 /\ pc'[w] = "copy" /\ cur' = cur
                 /\ read_set' = read_set
              \/ /\ idx[w] = 2 /\ idx'[w] = 1 /\ pc'[w] = "idle" /\ cur'[w] = NoXact
                 /\ read_set'[w] = <<>>
<1>0. HeldAs(w) /\ HeldAs(w)' /\ TypeOK /\ TypeOK' /\ idx[w] \in 1 .. 2
    BY HeldAre, HeldAreNext, TypeKept DEF LInv, TypeOK, transferWork, writePhase
<1>1. /\ pc[w] = "copy" /\ record' = record
      /\ \/ idx[w] = 1 /\ idx'[w] = 2 /\ pc'[w] = "copy"
         \/ idx[w] = 2 /\ idx'[w] = 1 /\ pc'[w] = "idle"
    BY <1>0, LoopStep DEF StoreTid, Pc
<1>2. /\ At(w) = KeyOf(w, idx[w]) /\ KeyOf(w, 1) /= KeyOf(w, 2) /\ At(w) \in Key
    BY <1>1, CurrentKeys DEF Before
<1>3. /\ idx[w] = 1 => cur' = cur /\ read_set' = read_set
      /\ idx[w] = 2 => cur'[w] = NoXact /\ read_set'[w] = <<>>
    BY <1>0 DEF StoreTid, TypeOK
<1>4. tid'[At(w)] = mrctid[w] /\ \A k \in Key : k /= At(w) => tid'[k] = tid[k]
    BY <1>0, <1>2 DEF StoreTid, TypeOK
<1>5. idx[w] \in HeldIdx(w) /\ At(w) \in Held(w)
    BY <1>0, <1>1, <1>2 DEF HeldAs, HeldIdx, Writers
<1>6. idx[w] = 1 => KeyOf(w, 2)' = KeyOf(w, 2)
    BY <1>3 DEF KeyOf, Keys
<1>7. Held(w)' = Held(w) \ {At(w)}
    BY <1>0, <1>1, <1>2, <1>6 DEF HeldAs, Writers, Before, Reading
<1> QED
    BY <1>1, <1>2, <1>3, <1>4, <1>5, <1>7

\* The steps of a worker are quiet ones and those two.
LEMMA StepKinds ==
    ASSUME NEW w, xactDequeue(w) \/ transferWork(w)
    PROVE  Quiet(w) \/ CopyByte(w) \/ StoreTid(w)
BY DEF transferWork, Quiet, writePhase

\* Copying is within what is being written, and the TID stored in the end is
\* above all that anybody has read.
LEMMA EntryStable ==
    ASSUME LInv, Above, NumbersBounded, NEW w \in Worker, xactDequeue(w) \/ transferWork(w),
           NEW k \in Key, NEW t \in Nat, NEW x, EntryOK(k, t, x)
    PROVE  t <= tid'[k] /\ (t = tid'[k] /\ ~(Writing(k)') => x = record'[k])
<1>0. tid[k] \in Nat /\ tid'[k] \in Nat
    BY TypeKept DEF LInv, TypeOK
<1>1. \A v \in Worker : v /= w => pc'[v] = pc[v] /\ Held(v)' = Held(v)
    <2>1. \A v \in Worker : v /= w => Rests(v)
        BY OthersSame DEF LInv
    <2> QED
        BY <2>1, HeldRests DEF Rests
<1>2. t <= tid[k] /\ (t = tid[k] /\ ~Writing(k) => x = record[k])
    BY DEF EntryOK
<1>3. CASE tid'[k] = tid[k] /\ record'[k] = record[k] /\ (Writing(k) => Writing(k)')
    BY <1>2, <1>3
<1>4. CASE Quiet(w)
    <2>1. /\ tid' = tid /\ record' = record
          /\ pc[w] \in Writers => pc'[w] \in Writers /\ Held(w)' = Held(w)
        BY <1>4, QuietStep
    <2>2. Writing(k) => Writing(k)'
        BY <1>1, <2>1 DEF Writing
    <2> QED
        BY <1>3, <2>1, <2>2
<1>5. CASE CopyByte(w)
    <2>1. /\ tid' = tid /\ At(w) \in Key /\ At(w) \in Held(w) /\ Held(w)' = Held(w)
          /\ pc[w] \in Writers /\ pc'[w] \in Writers
          /\ k /= At(w) => record'[k] = record[k]
        BY <1>5, CopyStep
    <2>2. k = At(w) => Writing(k)'
        BY <2>1 DEF Writing
    <2>3. Writing(k) => Writing(k)'
        BY <1>1, <2>1 DEF Writing
    <2> QED
        BY <1>2, <1>3, <2>1, <2>2, <2>3
<1>6. CASE StoreTid(w)
    <2>1. /\ record' = record /\ At(w) \in Key /\ idx[w] \in HeldIdx(w)
          /\ At(w) = KeyOf(w, idx[w]) /\ pc[w] = "copy"
          /\ tid'[At(w)] = mrctid[w]
          /\ k /= At(w) => tid'[k] = tid[k]
          /\ Held(w)' = Held(w) \ {At(w)} /\ (idx[w] = 1 \/ idx[w] = 2)
          /\ idx[w] = 1 => pc'[w] = "copy"
        BY <1>6, StoreStep
    <2>2. k = At(w) => tid[k] < tid'[k]
        BY <2>1 DEF Above, AboveOf, Writers
    <2>3. CASE k = At(w)
        BY <1>0, <1>2, <2>2, <2>3
    <2>4. CASE k /= At(w)
        <3>1. idx[w] = 2 => Held(w) = {At(w)}
            <4>1. HeldAs(w)
                BY HeldAre DEF LInv
            <4> QED
                BY <2>1, <4>1 DEF HeldAs, Writers
        <3>2. Writing(k) => Writing(k)'
            BY <1>1, <2>1, <2>4, <3>1 DEF Writing, Writers
        <3> QED
            BY <1>3, <2>1, <2>4, <3>2
    <2> QED
        BY <2>3, <2>4
<1> QED
    BY <1>4, <1>5, <1>6, StepKinds
-----------------------------------------------------------------------------
(* What has been read *)

\* A read set grows by one element, stays, or is empty after the step.
LEMMA ReadSetStep ==
    ASSUME LInv, NEW w \in Worker, xactDequeue(w) \/ transferWork(w)
    PROVE  /\ \/ AddToReadSet(w)
              \/ Len(read_set'[w]) = 0
              \/ read_set'[w] = read_set[w] /\ cur'[w] = cur[w]
           /\ pc'[w] \in {"read", "check"} => LoadTid(w) \/ ReadVal(w) \/ ReadAgain(w)
<1>0. /\ pc \in [Worker -> Pc] /\ cur \in [Worker -> Xact \cup {NoXact}]
      /\ DOMAIN read_set = Worker /\ Len(<<>>) = 0 /\ TypeOK
      /\ pc[w] = "idle" => Len(read_set[w]) = 0
    BY DEF LInv, TypeOK, Places, Before
<1> USE DEF Step, Goto, local
<1>1. CASE xactDequeue(w)
    BY <1>0, <1>1 DEF xactDequeue
<1>2. CASE AssertFails(w) \/ begin(w)
    BY <1>0, <1>2 DEF AssertFails, begin
<1>3. CASE LoadTid(w) \/ ReadVal(w) \/ ReadAgain(w)
    BY <1>3 DEF LoadTid, ReadVal, ReadAgain
<1>4. CASE AddToReadSet(w)
    BY <1>0, <1>4, LoopStep DEF AddToReadSet, Pc
<1>5. CASE LockRecord(w)
    BY <1>0, <1>5, LoopStep DEF LockRecord, Pc
<1>6. CASE LockBusy(w)
    BY <1>0, <1>6 DEF LockBusy, abort
<1>7. CASE Validate(w)
    BY <1>0, <1>7, LoopStep DEF Validate, Pc
<1>8. CASE ValidateFails(w)
    BY <1>0, <1>8 DEF ValidateFails
<1>9. CASE unlockWriteSet(w)
    BY <1>0, <1>9 DEF unlockWriteSet, abort
<1>10. CASE ChooseTid(w) \/ CopyByte(w) \/ Overrun(w)
    BY <1>0, <1>10 DEF ChooseTid, CopyByte, Overrun
<1>11. CASE StoreTid(w)
    BY <1>0, <1>11, StoreStep
<1> QED
    BY <1>1, <1>2, <1>3, <1>4, <1>5, <1>6, <1>7, <1>8, <1>9, <1>10, <1>11
    DEF transferWork, read, validationPhase, writePhase

\* A request that has read something has its keys.
LEMMA ReadKeys ==
    ASSUME LInv, NEW v \in Worker, NEW i \in 1 .. Len(read_set[v])
    PROVE  /\ i \in 1 .. 2 /\ KeyOf(v, i) \in Key /\ pc[v] \notin Before
           /\ read_set[v][i].tid \in Nat
<1> DEFINE n == Len(read_set[v])
<1>1. n \in 1 .. 2 /\ pc[v] \notin Before
    <2>1. n <= 2
        BY DEF LInv, TypeOK
    <2>2. n \in Nat /\ i \in 1 .. n
        BY ReadType
    <2>3. pc[v] \in Before => n = 0
        BY DEF LInv, Places
    <2>4. n \in 1 .. 2 /\ n /= 0
        <3> HIDE DEF n
        <3> QED
            BY <2>1, <2>2
    <2> QED
        BY <2>3, <2>4
<1>2. i \in 1 .. 2
    <2>1. i \in 1 .. n
        OBVIOUS
    <2> HIDE DEF n
    <2> QED
        BY <1>1, <2>1
<1>3. KeyOf(v, 1) \in Key /\ KeyOf(v, 2) \in Key
    BY <1>1, CurrentKeys DEF Before
<1> QED
    BY <1>1, <1>2, <1>3, ReadType

\* What is in the read sets stays right.
LEMMA ReadsStable ==
    ASSUME LInv, Above, NumbersBounded, Fresh,
           NEW w \in Worker, xactDequeue(w) \/ transferWork(w),
           NEW v \in Worker, NEW i \in 1 .. Len(read_set[v])
    PROVE  \E k \in Key : \E t \in Nat : \E x :
              /\ k = KeyOf(v, i) /\ t = read_set[v][i].tid /\ x = read_set[v][i].val
              /\ t <= tid'[k] /\ (t = tid'[k] /\ ~(Writing(k)') => x = record'[k])
<1>1. PICK k \in Key : k = KeyOf(v, i)
    BY ReadKeys
<1>2. PICK t \in Nat : t = read_set[v][i].tid
    BY ReadKeys
<1>3. PICK x : x = read_set[v][i].val
    OBVIOUS
<1>4. EntryOK(k, t, x)
    BY <1>1, <1>2, <1>3 DEF Fresh, FreshOf
<1>5. t <= tid'[k] /\ (t = tid'[k] /\ ~(Writing(k)') => x = record'[k])
    BY <1>4, EntryStable
<1> QED
    BY <1>1, <1>2, <1>3, <1>5

\* A worker that rests, or whose read set stays, keeps what it has read.
LEMMA EntriesKept ==
    ASSUME LInv, Above, NumbersBounded, Fresh,
           NEW w \in Worker, xactDequeue(w) \/ transferWork(w),
           NEW v \in Worker, read_set'[v] = read_set[v], cur'[v] = cur[v]
    PROVE  (\A i \in 1 .. Len(read_set[v]) :
               EntryOK(KeyOf(v, i), read_set[v][i].tid, read_set[v][i].val))'
<1> SUFFICES ASSUME NEW i \in 1 .. Len(read_set[v])
             PROVE  EntryOK(KeyOf(v, i), read_set[v][i].tid, read_set[v][i].val)'
    OBVIOUS
<1>1. PICK k \in Key : \E t \in Nat : \E x :
              /\ k = KeyOf(v, i) /\ t = read_set[v][i].tid /\ x = read_set[v][i].val
              /\ t <= tid'[k] /\ (t = tid'[k] /\ ~(Writing(k)') => x = record'[k])
    BY ReadsStable
<1>2. KeyOf(v, i)' = k
    BY <1>1 DEF KeyOf, Keys
<1> QED
    BY <1>1, <1>2 DEF EntryOK, Writing

\* So does a worker between looking at the TID and looking at it again.
LEMMA ReadingKept ==
    ASSUME LInv, Above, NumbersBounded, Fresh,
           NEW w \in Worker, xactDequeue(w) \/ transferWork(w), NEW v \in Worker, Rests(v)
    PROVE  FreshOf(v)'
<1>1. (\A i \in 1 .. Len(read_set[v]) :
          EntryOK(KeyOf(v, i), read_set[v][i].tid, read_set[v][i].val))'
    BY EntriesKept DEF Rests
<1>2. /\ pc'[v] = pc[v] /\ expected'[v] = expected[v] /\ return_val'[v] = return_val[v]
      /\ At(v)' = At(v)
    BY DEF Rests, At, Keys
<1>3. FreshOf(v) /\ expected[v] \in Nat
    BY DEF Fresh, LInv, TypeOK
<1>4. CASE pc[v] \in {"read", "check"}
    <2>1. PICK k \in Key : k = At(v)
        BY <1>4, CurrentKeys
    <2>2. PICK t \in Nat : t = expected[v]
        BY <1>3
    <2>3. PICK x : x = return_val[v]
        OBVIOUS
    <2>4. CASE pc[v] = "check"
        <3>1. EntryOK(k, t, x)
            BY <1>3, <2>1, <2>2, <2>3, <2>4 DEF FreshOf
        <3>2. t <= tid'[k] /\ (t = tid'[k] /\ ~(Writing(k)') => x = record'[k])
            BY <3>1, EntryStable
        <3>3. At(v)' = k /\ expected'[v] = t /\ return_val'[v] = x
            BY <1>2, <2>1, <2>2, <2>3
        <3>4. EntryOK(At(v), expected[v], return_val[v])'
            BY <3>2, <3>3 DEF EntryOK, Writing
        <3> QED
            BY <1>1, <3>2, <3>3, <3>4 DEF FreshOf
    <2>5. CASE pc[v] = "read"
        <3> DEFINE y == record[k]
        <3>1. t <= tid[k]
            BY <1>3, <2>1, <2>2, <2>5 DEF FreshOf
        <3>2. EntryOK(k, t, y)
            BY <3>1 DEF EntryOK
        <3>3. PICK z : z = y
            OBVIOUS
        <3>4. EntryOK(k, t, z)
            BY <3>2, <3>3
        <3>5. t <= tid'[k]
            BY <3>4, EntryStable
        <3> QED
            BY <1>1, <1>2, <2>1, <2>2, <2>5, <3>5 DEF FreshOf
    <2> QED
        BY <1>4, <2>4, <2>5
<1>5. CASE pc[v] \notin {"read", "check"}
    BY <1>1, <1>2, <1>5 DEF FreshOf
<1> QED
    BY <1>4, <1>5

LEMMA FreshKept ==
    ASSUME LInv, Above, NumbersBounded, Fresh,
           NEW w \in Worker, xactDequeue(w) \/ transferWork(w)
    PROVE  Fresh'
<1>0. TypeOK /\ TypeOK'
    BY TypeKept DEF LInv
<1>1. ASSUME NEW v \in Worker, v /= w PROVE FreshOf(v)'
    BY <1>0, <1>1, OthersSame, ReadingKept
<1>2. (\A i \in 1 .. Len(read_set[w]) :
          EntryOK(KeyOf(w, i), read_set[w][i].tid, read_set[w][i].val))'
    <2>1. CASE read_set'[w] = read_set[w] /\ cur'[w] = cur[w]
        BY <2>1, EntriesKept
    <2>2. CASE Len(read_set'[w]) = 0
        BY <2>2
    <2>3. CASE AddToReadSet(w)
        <3> DEFINE e == [tid |-> expected[w], val |-> return_val[w]]
        <3>1. /\ pc[w] = "check" /\ cur' = cur /\ Same(w) /\ tid' = tid /\ record' = record
              /\ read_set'[w] = Append(read_set[w], e)
            BY <1>0, <2>3 DEF AddToReadSet, Loop, TypeOK, tuples
        <3>2. /\ read_set[w] \in Seq([tid : Nat, val : Record])
              /\ Len(read_set[w]) = idx[w] - 1 /\ idx[w] \in 1 .. 2
            BY <1>0, <3>1, ReadType DEF Reading, TypeOK
        <3>3. e \in [tid : Nat, val : Record]
            BY <1>0 DEF TypeOK
        <3>4. e.tid = expected[w] /\ e.val = return_val[w]
            OBVIOUS
        <3> HIDE DEF e
        <3>5. /\ Len(read_set'[w]) = idx[w]
              /\ \A i \in 1 .. idx[w] : read_set'[w][i] = IF i = idx[w] THEN e ELSE read_set[w][i]
            BY <3>1, <3>2, <3>3
        <3>6. \A i : KeyOf(w, i)' = KeyOf(w, i)
            BY <3>1 DEF KeyOf, Keys
        <3> SUFFICES ASSUME NEW i \in 1 .. idx[w]
                     PROVE  EntryOK(KeyOf(w, i), read_set[w][i].tid, read_set[w][i].val)'
            BY <3>5
        <3>7. CASE i = idx[w]
            <4>1. KeyOf(w, i) = At(w) /\ At(w) \in Key
                BY <3>1, <3>7, CurrentKeys
            <4>2. EntryOK(At(w), expected[w], return_val[w])
                BY <3>1 DEF Fresh, FreshOf
            <4>3. tid[At(w)] = expected[w] /\ ~Writing(At(w))
                BY <3>1, <4>1, NotWriting DEF Same
            <4>4. record[At(w)] = return_val[w] /\ expected[w] \in Nat
                BY <1>0, <4>2, <4>3 DEF EntryOK, TypeOK
            <4>5. read_set'[w][i] = e
                BY <3>5, <3>7
            <4>6. /\ KeyOf(w, i)' = At(w) /\ tid'[At(w)] = tid[At(w)]
                  /\ record'[At(w)] = record[At(w)]
                BY <3>1, <3>6, <4>1
            <4> QED
                BY <3>4, <4>3, <4>4, <4>5, <4>6 DEF EntryOK
        <3>8. CASE i /= idx[w]
            <4>1. i \in 1 .. Len(read_set[w])
                BY <3>2, <3>8
            <4>2. PICK k \in Key : \E t \in Nat : \E x :
                      /\ k = KeyOf(w, i) /\ t = read_set[w][i].tid /\ x = read_set[w][i].val
                      /\ t <= tid'[k] /\ (t = tid'[k] /\ ~(Writing(k)') => x = record'[k])
                BY <4>1, ReadsStable
            <4>3. KeyOf(w, i)' = k /\ read_set'[w][i] = read_set[w][i]
                BY <3>5, <3>6, <3>8, <4>2
            <4> QED
                BY <4>2, <4>3 DEF EntryOK, Writing
        <3> QED
            BY <3>7, <3>8
    <2> QED
        BY <2>1, <2>2, <2>3, ReadSetStep
<1>3. /\ (pc[w] \in {"read", "check"} => expected[w] <= tid[At(w)])'
      /\ (pc[w] = "check" => EntryOK(At(w), expected[w], return_val[w]))'
    <2> USE DEF Step, Goto, tuples
    <2>1. CASE pc'[w] \notin {"read", "check"}
        BY <2>1
    <2>2. CASE LoadTid(w) \/ ReadAgain(w)
        <3>1. /\ At(w)' = At(w) /\ expected'[w] = tid[At(w)] /\ tid' = tid
              /\ pc'[w] /= "check"
            BY <1>0, <2>2 DEF LoadTid, ReadAgain, TypeOK, At, Keys
        <3>2. tid[At(w)] \in Nat
            <4>1. At(w) \in Key
                BY <2>2, CurrentKeys DEF LoadTid, ReadAgain
            <4> QED
                BY <1>0, <4>1 DEF TypeOK
        <3> QED
            BY <3>1, <3>2
    <2>3. CASE ReadVal(w)
        <3>1. /\ At(w)' = At(w) /\ expected' = expected /\ tid' = tid /\ record' = record
              /\ pc[w] = "read" /\ return_val'[w] = record[At(w)]
            BY <1>0, <2>3 DEF ReadVal, TypeOK, At, Keys
        <3>2. expected[w] <= tid[At(w)]
            BY <3>1 DEF Fresh, FreshOf
        <3> QED
            BY <3>1, <3>2 DEF EntryOK
    <2> QED
        BY <2>1, <2>2, <2>3, ReadSetStep
<1>4. FreshOf(w)'
    BY <1>2, <1>3 DEF FreshOf
<1> QED
    BY <1>1, <1>4 DEF Fresh
-----------------------------------------------------------------------------
(* One TID, one value *)

LEMMA SameValKept ==
    ASSUME LInv, Fresh, SameTidSameVal,
           NEW w \in Worker, xactDequeue(w) \/ transferWork(w)
    PROVE  SameTidSameVal'
<1>0. TypeOK /\ \A v \in Worker : v /= w => Rests(v)
    BY OthersSame DEF LInv
<1>1. CASE ~AddToReadSet(w)
    <2>1. \A v \in Worker : \/ Len(read_set'[v]) = 0
                            \/ /\ read_set'[v] = read_set[v]
                               /\ \A i : KeyOf(v, i)' = KeyOf(v, i)
        BY <1>0, <1>1, ReadSetStep DEF Rests, KeyOf, Keys
    <2> QED
        BY <2>1 DEF SameTidSameVal
<1>2. CASE AddToReadSet(w)
    <2> DEFINE e == [tid |-> expected[w], val |-> return_val[w]]
               n == idx[w]
    <2>1. /\ pc[w] = "check" /\ cur' = cur /\ Same(w)
          /\ read_set'[w] = Append(read_set[w], e)
          /\ \A v \in Worker : v /= w => read_set'[v] = read_set[v]
        BY <1>0, <1>2 DEF AddToReadSet, Loop, TypeOK
    <2>2. /\ read_set[w] \in Seq([tid : Nat, val : Record])
          /\ Len(read_set[w]) = n - 1 /\ n \in 1 .. 2
        BY <1>0, <2>1, ReadType DEF Reading, TypeOK
    <2>3. e \in [tid : Nat, val : Record]
        BY <1>0 DEF TypeOK
    <2>4. e.tid = expected[w] /\ e.val = return_val[w]
        OBVIOUS
    <2>5. PICK k \in Key : k = KeyOf(w, n)
        BY <2>1, CurrentKeys
    <2>6. e.tid = tid[k] /\ e.val = record[k] /\ ~Writing(k)
        <3>1. k = At(w)
            BY <2>5 DEF KeyOf, At
        <3>2. tid[k] = expected[w] /\ ~Writing(k)
            BY <2>1, <3>1, NotWriting DEF Same
        <3>3. EntryOK(k, expected[w], return_val[w])
            BY <2>1, <3>1 DEF Fresh, FreshOf
        <3> QED
            BY <2>4, <3>2, <3>3 DEF EntryOK
    <2> HIDE DEF e, n
    <2>7. /\ Len(read_set'[w]) = n /\ read_set'[w][n] = e
          /\ \A i \in 1 .. n : i /= n => i \in 1 .. Len(read_set[w]) /\ read_set'[w][i] = read_set[w][i]
        BY <2>1, <2>2, <2>3
    <2>8. \A v \in Worker : \A i : KeyOf(v, i)' = KeyOf(v, i)
        BY <2>1 DEF KeyOf, Keys
    <2>9. ASSUME NEW v \in Worker, NEW i \in 1 .. Len(read_set[v]), KeyOf(v, i) = k,
                 read_set[v][i].tid = e.tid
          PROVE  read_set[v][i].val = e.val
        BY <2>6, <2>9 DEF Fresh, FreshOf, EntryOK
    <2>10. ASSUME NEW v \in Worker, NEW i \in 1 .. Len(read_set'[v])
           PROVE  \/ i \in 1 .. Len(read_set[v]) /\ read_set'[v][i] = read_set[v][i]
                  \/ KeyOf(v, i) = k /\ read_set'[v][i] = e
        BY <2>1, <2>5, <2>7
    <2> SUFFICES ASSUME NEW v \in Worker, NEW u \in Worker,
                        NEW i \in 1 .. Len(read_set'[v]), NEW j \in 1 .. Len(read_set'[u]),
                        KeyOf(v, i) = KeyOf(u, j), read_set'[v][i].tid = read_set'[u][j].tid
                 PROVE  read_set'[v][i].val = read_set'[u][j].val
        BY <2>8 DEF SameTidSameVal
    <2>11. CASE /\ i \in 1 .. Len(read_set[v]) /\ read_set'[v][i] = read_set[v][i]
                /\ j \in 1 .. Len(read_set[u]) /\ read_set'[u][j] = read_set[u][j]
        BY <2>11 DEF SameTidSameVal
    <2>12. CASE /\ i \in 1 .. Len(read_set[v]) /\ read_set'[v][i] = read_set[v][i]
                /\ KeyOf(u, j) = k /\ read_set'[u][j] = e
        BY <2>9, <2>12
    <2>13. CASE /\ KeyOf(v, i) = k /\ read_set'[v][i] = e
                /\ j \in 1 .. Len(read_set[u]) /\ read_set'[u][j] = read_set[u][j]
        BY <2>9, <2>13
    <2>14. CASE read_set'[v][i] = e /\ read_set'[u][j] = e
        BY <2>14
    <2> QED
        BY <2>10, <2>11, <2>12, <2>13, <2>14
<1> QED
    BY <1>1, <1>2

-----------------------------------------------------------------------------
(* The late phases of a transaction *)

Late == {"lock", "validate", "commit"} \cup Writers

\* How a worker gets on after its first lock.
LEMMA LateStep ==
    ASSUME LInv, NEW w \in Worker, xactDequeue(w) \/ transferWork(w), pc'[w] \in Late
    PROVE  /\ cur'[w] = cur[w] /\ pc[w] \in Late \cup {"check"}
           /\ \/ pc'[w] = "lock" /\ idx'[w] = 1
              \/ /\ LockRecord(w) /\ pc[w] = "lock" /\ read_set'[w] = read_set[w]
                 /\ \/ idx[w] = 1 /\ idx'[w] = 2 /\ pc'[w] = "lock"
                    \/ idx[w] = 2 /\ idx'[w] = 1 /\ pc'[w] = "validate"
              \/ /\ Validate(w) /\ pc[w] = "validate" /\ read_set'[w] = read_set[w]
                 /\ \/ idx[w] = 1 /\ idx'[w] = 2 /\ pc'[w] = "validate"
                    \/ idx[w] = 2 /\ idx'[w] = 1 /\ pc'[w] = "commit"
              \/ /\ ChooseTid(w) /\ pc[w] = "commit" /\ pc'[w] = "copy"
                 /\ idx[w] = 1 /\ idx'[w] = 1 /\ read_set'[w] = read_set[w]
              \/ /\ CopyByte(w) \/ Overrun(w)
                 /\ pc[w] = "copy" /\ idx'[w] = idx[w] /\ read_set'[w] = read_set[w]
              \/ /\ StoreTid(w) /\ pc[w] = "copy" /\ pc'[w] = "copy"
                 /\ idx[w] = 1 /\ idx'[w] = 2 /\ read_set'[w] = read_set[w]
<1>0. /\ pc \in [Worker -> Pc] /\ TypeOK /\ idx \in [Worker -> 1 .. 2]
      /\ pc[w] = "commit" => idx[w] = 1
    BY DEF LInv, TypeOK, Places
<1> USE DEF Step, Goto, Point, local, Late, Writers
<1>1. CASE xactDequeue(w) \/ AssertFails(w) \/ begin(w)
    BY <1>0, <1>1 DEF xactDequeue, AssertFails, begin
<1>2. CASE LoadTid(w) \/ ReadVal(w) \/ ReadAgain(w)
    BY <1>0, <1>2 DEF LoadTid, ReadVal, ReadAgain
<1>3. CASE AddToReadSet(w)
    BY <1>0, <1>3, LoopStep DEF AddToReadSet, Pc
<1>4. CASE LockRecord(w)
    BY <1>0, <1>4, LoopStep DEF LockRecord, Pc
<1>5. CASE LockBusy(w)
    BY <1>0, <1>5 DEF LockBusy, abort
<1>6. CASE Validate(w)
    BY <1>0, <1>6, LoopStep DEF Validate, Pc
<1>7. CASE ValidateFails(w)
    BY <1>0, <1>7 DEF ValidateFails
<1>8. CASE unlockWriteSet(w)
    BY <1>0, <1>8 DEF unlockWriteSet, abort
<1>9. CASE ChooseTid(w)
    BY <1>0, <1>9 DEF ChooseTid
<1>10. CASE CopyByte(w) \/ Overrun(w)
    BY <1>0, <1>10 DEF CopyByte, Overrun
<1>11. CASE StoreTid(w)
    BY <1>0, <1>11, StoreStep
<1> QED
    BY <1>1, <1>2, <1>3, <1>4, <1>5, <1>6, <1>7, <1>8, <1>9, <1>10, <1>11
    DEF transferWork, read, validationPhase, writePhase

\* Another worker's step leaves the words of the records that one has locked
\* alone.
LEMMA HeldUntouched ==
    ASSUME LInv, NEW w \in Worker, xactDequeue(w) \/ transferWork(w),
           NEW v \in Worker, v /= w, NEW k \in Held(v)
    PROVE  tid'[k] = tid[k] /\ record'[k] = record[k]
<1>1. k \in Key /\ k \notin Held(w)
    BY NotWriting, HeldKeys
<1>2. CASE Quiet(w)
    BY <1>2, QuietStep
<1>3. CASE CopyByte(w)
    BY <1>1, <1>3, CopyStep
<1>4. CASE StoreTid(w)
    BY <1>1, <1>4, StoreStep
<1> QED
    BY <1>2, <1>3, <1>4, StepKinds

\* The validated elements are among the locked ones.
ValidatedAs(w) ==
    /\ Validated(w) \subseteq HeldIdx(w)
    /\ pc[w] = "validate" => HeldIdx(w) = 1 .. 2
    /\ pc[w] = "validate" /\ idx[w] = 1 => Validated(w) = {}
    /\ pc[w] = "validate" /\ idx[w] = 2 => Validated(w) = {1}
    /\ pc[w] = "commit" => Validated(w) = 1 .. 2 /\ HeldIdx(w) = 1 .. 2
    /\ pc[w] \in Writers => Validated(w) = HeldIdx(w)
    /\ pc[w] \in Writers /\ idx[w] = 1 => HeldIdx(w) = 1 .. 2
    /\ pc[w] \in Writers /\ idx[w] = 2 => HeldIdx(w) = {2}
    /\ pc[w] = "lock" /\ idx[w] = 1 => HeldIdx(w) = {}
    /\ pc[w] = "lock" /\ idx[w] = 2 => HeldIdx(w) = {1}
    /\ pc[w] \notin {"validate", "commit"} \cup Writers => Validated(w) = {}

LEMMA ValidatedAre == LInv => \A w \in Worker : ValidatedAs(w)
<1> SUFFICES ASSUME LInv, NEW w \in Worker PROVE ValidatedAs(w)
    OBVIOUS
<1>1. idx[w] = 1 \/ idx[w] = 2
    BY DEF LInv, TypeOK
<1> QED
    BY <1>1 DEF ValidatedAs, Validated, HeldIdx, Writers

LEMMA ValidatedAreNext == (LInv => \A w \in Worker : ValidatedAs(w))'
BY ValidatedAre, PTL

\* What LInv and the late phases say before and after a step.
LEMMA Around ==
    ASSUME LInv, NEW w \in Worker, xactDequeue(w) \/ transferWork(w)
    PROVE  /\ TypeOK /\ TypeOK' /\ LInv'
           /\ \A v \in Worker : ValidatedAs(v) /\ ValidatedAs(v)'
           /\ \A v \in Worker : v /= w => Rests(v)
           /\ cur'[w] = cur[w] => \A i : KeyOf(w, i)' = KeyOf(w, i)
<1>1. LInv' /\ TypeOK /\ TypeOK'
    BY LockStep DEF LInv
<1>2. \A v \in Worker : ValidatedAs(v) /\ ValidatedAs(v)'
    BY <1>1, ValidatedAre, ValidatedAreNext
<1>3. cur'[w] = cur[w] => \A i : KeyOf(w, i)' = KeyOf(w, i)
    BY DEF KeyOf, Keys
<1> QED
    BY <1>1, <1>2, <1>3, OthersSame

\* The number of a record that a worker has locked changes only when this
\* worker stores it.
LEMMA OwnTids ==
    ASSUME LInv, NEW w \in Worker, xactDequeue(w) \/ transferWork(w), NEW i \in HeldIdx(w),
           ~StoreTid(w) \/ i /= idx[w]
    PROVE  tid'[KeyOf(w, i)] = tid[KeyOf(w, i)]
<1>1. CASE Quiet(w) \/ CopyByte(w)
    BY <1>1, QuietStep, CopyStep
<1>2. CASE StoreTid(w)
    <2>1. /\ At(w) = KeyOf(w, idx[w]) /\ pc[w] = "copy" /\ (idx[w] = 1 \/ idx[w] = 2)
          /\ \A k \in Key : k /= At(w) => tid'[k] = tid[k]
        BY <1>2, StoreStep
    <2>2. KeyOf(w, 1) /= KeyOf(w, 2) /\ KeyOf(w, 1) \in Key /\ KeyOf(w, 2) \in Key
        BY <2>1, CurrentKeys DEF Before
    <2>3. i = 1 \/ i = 2
        BY HeldKeys
    <2> QED
        BY <1>2, <2>1, <2>2, <2>3
<1> QED
    BY <1>1, <1>2, StepKinds

LEMMA CurrentKept ==
    ASSUME LInv, StillCurrent, NEW w \in Worker, xactDequeue(w) \/ transferWork(w)
    PROVE  StillCurrent'
<1> DEFINE P(v) == \A i \in Validated(v) : read_set[v][i].tid = tid[KeyOf(v, i)]
<1>0. /\ \A v \in Worker : ValidatedAs(v) /\ ValidatedAs(v)'
      /\ \A v \in Worker : v /= w => Rests(v)
      /\ cur'[w] = cur[w] => \A i : KeyOf(w, i)' = KeyOf(w, i)
    BY Around
<1>1. ASSUME NEW v \in Worker, v /= w PROVE P(v)'
    <2>1. /\ Validated(v)' = Validated(v) /\ read_set'[v] = read_set[v]
          /\ \A i : KeyOf(v, i)' = KeyOf(v, i)
        BY <1>0, <1>1, HeldRests DEF Rests, Validated
    <2>2. \A i \in Validated(v) : KeyOf(v, i) \in Held(v)
        BY <1>0, HeldKeys DEF ValidatedAs
    <2>3. \A i \in Validated(v) : tid'[KeyOf(v, i)] = tid[KeyOf(v, i)]
        BY <1>1, <2>2, HeldUntouched
    <2> QED
        BY <2>1, <2>3 DEF StillCurrent
<1>2. P(w)'
    <2> USE DEF ValidatedAs, Writers
    <2>1. CASE pc'[w] \notin Late \/ pc'[w] = "lock"
        BY <1>0, <2>1 DEF Late
    <2>2. CASE LockRecord(w) /\ pc'[w] = "validate" /\ idx'[w] = 1
        BY <1>0, <2>2
    <2>3. CASE /\ Validate(w) /\ pc[w] = "validate" /\ read_set'[w] = read_set[w]
               /\ cur'[w] = cur[w]
               /\ \/ idx[w] = 1 /\ idx'[w] = 2 /\ pc'[w] = "validate"
                  \/ idx[w] = 2 /\ idx'[w] = 1 /\ pc'[w] = "commit"
        <3>1. read_set[w][idx[w]].tid = tid[KeyOf(w, idx[w])] /\ tid' = tid
            BY <2>3 DEF Validate, Unchanged, KeyOf, At, tuples
        <3>2. \A i \in Validated(w) : read_set[w][i].tid = tid[KeyOf(w, i)]
            BY DEF StillCurrent
        <3>3. \A i : KeyOf(w, i)' = KeyOf(w, i)
            BY <1>0, <2>3
        <3>4. CASE idx[w] = 1 /\ idx'[w] = 2 /\ pc'[w] = "validate"
            <4>1. Validated(w)' = {1}
                BY <1>0, <3>4
            <4> QED
                BY <2>3, <3>1, <3>3, <3>4, <4>1
        <3>5. CASE idx[w] = 2 /\ idx'[w] = 1 /\ pc'[w] = "commit"
            <4>1. Validated(w)' = {1, 2} /\ Validated(w) = {1}
                BY <1>0, <2>3, <3>5
            <4> QED
                BY <2>3, <3>1, <3>2, <3>3, <3>5, <4>1
        <3> QED
            BY <2>3, <3>4, <3>5
    <2>4. CASE /\ cur'[w] = cur[w] /\ read_set'[w] = read_set[w]
               /\ Validated(w)' \subseteq Validated(w)
               /\ ~StoreTid(w) \/ idx[w] \notin Validated(w)'
        <3>1. ASSUME NEW i \in Validated(w), ~StoreTid(w) \/ i /= idx[w]
              PROVE  read_set[w][i].tid = tid'[KeyOf(w, i)]
            <4>1. i \in HeldIdx(w)
                BY <1>0
            <4> QED
                BY <3>1, <4>1, OwnTids DEF StillCurrent
        <3> QED
            BY <1>0, <2>4, <3>1
    <2>5. CASE ChooseTid(w) /\ pc[w] = "commit" /\ pc'[w] = "copy" /\ idx'[w] = 1
               /\ read_set'[w] = read_set[w] /\ cur'[w] = cur[w]
        <3>1. ~StoreTid(w)
            BY <2>5 DEF StoreTid, Loop
        <3> QED
            BY <1>0, <2>4, <2>5, <3>1
    <2>6. CASE /\ CopyByte(w) \/ Overrun(w)
               /\ pc[w] = "copy" /\ idx'[w] = idx[w] /\ read_set'[w] = read_set[w]
               /\ cur'[w] = cur[w] /\ pc'[w] \in Late
        <3>1. /\ ~StoreTid(w) \/ idx[w] \notin Validated(w)'
              /\ pc'[w] \in Writers
            <4>1. LInv /\ tid' = tid /\ pc'[w] \in Writers
                BY <2>6, QuietStep, CopyStep DEF Quiet
            <4>2. pc'[w] /= pc[w] \/ idx'[w] = idx[w]
                BY <2>6
            <4>3. ~StoreTid(w)
                BY <2>6, <4>1, StoreStep
            <4> QED
                BY <4>1, <4>3
        <3>2. Validated(w)' = Validated(w)
            BY <2>6, <3>1 DEF Validated
        <3> QED
            BY <2>4, <2>6, <3>1, <3>2
    <2>7. CASE /\ StoreTid(w) /\ pc[w] = "copy" /\ pc'[w] = "copy" /\ cur'[w] = cur[w]
               /\ idx[w] = 1 /\ idx'[w] = 2 /\ read_set'[w] = read_set[w]
        <3>1. Validated(w)' = {2} /\ Validated(w) = {1, 2}
            BY <1>0, <2>7
        <3> QED
            BY <2>4, <2>7, <3>1
    <2> QED
        BY <2>1, <2>2, <2>3, <2>5, <2>6, <2>7, LateStep
<1> QED
    BY <1>1, <1>2 DEF StillCurrent
LEMMA AboveKept ==
    ASSUME NumbersSuffice, LInv, Above, NumbersBounded,
           NEW w \in Worker, xactDequeue(w) \/ transferWork(w)
    PROVE  Above'
<1>0. /\ TypeOK /\ TypeOK'
      /\ \A v \in Worker : ValidatedAs(v) /\ ValidatedAs(v)'
      /\ \A v \in Worker : v /= w => Rests(v)
      /\ cur'[w] = cur[w] => \A i : KeyOf(w, i)' = KeyOf(w, i)
    BY Around
<1>1. ASSUME NEW v \in Worker, v /= w PROVE AboveOf(v)'
    <2>1. /\ HeldIdx(v)' = HeldIdx(v) /\ max_set'[v] = max_set[v]
          /\ mrctid'[v] = mrctid[v] /\ pc'[v] = pc[v]
          /\ \A i : KeyOf(v, i)' = KeyOf(v, i)
        BY <1>0, <1>1, HeldRests DEF Rests
    <2>2. \A i \in HeldIdx(v) : tid'[KeyOf(v, i)] = tid[KeyOf(v, i)]
        BY <1>1, HeldKeys, HeldUntouched
    <2> QED
        BY <2>1, <2>2 DEF Above, AboveOf
<1>2. AboveOf(w)'
    <2> USE DEF ValidatedAs, Writers
    <2>0. AboveOf(w)
        BY DEF Above
    <2>1. CASE pc'[w] \notin Late \/ (pc'[w] = "lock" /\ idx'[w] = 1)
        BY <1>0, <2>1 DEF AboveOf, Late
    <2>2. CASE /\ LockRecord(w) \/ Validate(w)
               /\ cur'[w] = cur[w] /\ tid' = tid /\ pc[w] \in {"lock", "validate"}
               /\ pc'[w] \in {"lock", "validate", "commit"}
               /\ max_set'[w] = Larger(max_set[w], tid[At(w)])
               /\ HeldIdx(w)' \subseteq HeldIdx(w) \cup {idx[w]}
        <3>1. At(w) = KeyOf(w, idx[w]) /\ At(w) \in Key
            BY <2>2, CurrentKeys
        <3>2. max_set[w] \in Nat /\ tid[At(w)] \in Nat
            BY <1>0, <3>1 DEF TypeOK
        <3>3. max_set'[w] >= max_set[w] /\ max_set'[w] >= tid[At(w)] /\ max_set'[w] \in Nat
            BY <2>2, <3>2 DEF Larger
        <3>4. \A i \in HeldIdx(w) : max_set[w] >= tid[KeyOf(w, i)] /\ tid[KeyOf(w, i)] \in Nat
            <4>1. \A i \in HeldIdx(w) : KeyOf(w, i) \in Key
                BY HeldKeys
            <4> QED
                BY <1>0, <2>0, <2>2, <4>1 DEF AboveOf, TypeOK
        <3>5. \A i \in HeldIdx(w)' : max_set'[w] >= tid[KeyOf(w, i)]
            <4> SUFFICES ASSUME NEW i \in HeldIdx(w)' PROVE max_set'[w] >= tid[KeyOf(w, i)]
                OBVIOUS
            <4>1. CASE i = idx[w]
                BY <3>1, <3>3, <4>1
            <4>2. CASE i \in HeldIdx(w)
                <5> DEFINE a == max_set'[w]
                           b == max_set[w]
                           c == tid[KeyOf(w, i)]
                <5>1. a >= b /\ b >= c /\ a \in Nat /\ b \in Nat /\ c \in Nat
                    BY <3>2, <3>3, <3>4, <4>2
                <5> HIDE DEF a, b, c
                <5>2. a >= c
                    BY <5>1
                <5> QED
                    BY <5>2 DEF a, c
            <4> QED
                BY <2>2, <4>1, <4>2
        <3> QED
            BY <1>0, <2>2, <3>5 DEF AboveOf
    <2>3. CASE /\ LockRecord(w) /\ pc[w] = "lock" /\ cur'[w] = cur[w]
               /\ \/ idx[w] = 1 /\ idx'[w] = 2 /\ pc'[w] = "lock"
                  \/ idx[w] = 2 /\ idx'[w] = 1 /\ pc'[w] = "validate"
        <3>1. tid' = tid /\ max_set'[w] = Larger(max_set[w], tid[At(w)])
            BY <1>0, <2>3 DEF LockRecord, TypeOK
        <3>2. HeldIdx(w)' \subseteq HeldIdx(w) \cup {idx[w]}
            BY <1>0, <2>3
        <3> QED
            BY <2>2, <2>3, <3>1, <3>2
    <2>4. CASE /\ Validate(w) /\ pc[w] = "validate" /\ cur'[w] = cur[w]
               /\ \/ idx[w] = 1 /\ idx'[w] = 2 /\ pc'[w] = "validate"
                  \/ idx[w] = 2 /\ idx'[w] = 1 /\ pc'[w] = "commit"
        <3>1. tid' = tid /\ max_set'[w] = Larger(max_set[w], tid[At(w)])
            BY <1>0, <2>4 DEF Validate, TypeOK, tuples
        <3>2. HeldIdx(w)' \subseteq HeldIdx(w) \cup {idx[w]}
            BY <1>0, <2>4
        <3> QED
            BY <2>2, <2>4, <3>1, <3>2
    <2>5. CASE /\ ChooseTid(w) /\ pc[w] = "commit" /\ pc'[w] = "copy"
               /\ idx'[w] = 1 /\ cur'[w] = cur[w]
        <3>1. tid' = tid /\ mrctid'[w] = CommitTid(w)
            BY <1>0, <2>5 DEF ChooseTid, TypeOK, tuples
        <3>2. HeldIdx(w)' = HeldIdx(w)
            BY <1>0, <2>5
        <3>3. \A i \in HeldIdx(w) : CommitTid(w) > tid[KeyOf(w, i)]
            <4> SUFFICES ASSUME NEW i \in HeldIdx(w) PROVE CommitTid(w) > tid[KeyOf(w, i)]
                OBVIOUS
            <4> DEFINE a == CommitTid(w)
                       b == max_set[w]
                       c == tid[KeyOf(w, i)]
            <4>1. a > b /\ a \in Nat
                BY <1>0, <2>5, CommitTidIs, CommitTidType
            <4>2. b >= c /\ b \in Nat
                BY <1>0, <2>0, <2>5 DEF AboveOf, TypeOK
            <4>3. c \in Nat
                BY <1>0, HeldKeys DEF TypeOK
            <4> HIDE DEF a, b, c
            <4>4. a > c
                BY <4>1, <4>2, <4>3
            <4> QED
                BY <4>4 DEF a, c
        <3> QED
            BY <1>0, <2>5, <3>1, <3>2, <3>3 DEF AboveOf
    <2>6. CASE /\ CopyByte(w) \/ Overrun(w)
               /\ pc[w] = "copy" /\ idx'[w] = idx[w] /\ cur'[w] = cur[w] /\ pc'[w] \in Late
        <3>1. tid' = tid /\ mrctid' = mrctid /\ pc'[w] \in Writers
            BY <2>6, QuietStep, CopyStep DEF Quiet, CopyByte, Overrun, local
        <3>2. HeldIdx(w)' = HeldIdx(w)
            BY <2>6, <3>1 DEF HeldIdx
        <3> QED
            BY <1>0, <2>0, <2>6, <3>1, <3>2 DEF AboveOf
    <2>7. CASE /\ StoreTid(w) /\ pc[w] = "copy" /\ pc'[w] = "copy" /\ cur'[w] = cur[w]
               /\ idx[w] = 1 /\ idx'[w] = 2
        <3>1. HeldIdx(w)' = {2} /\ HeldIdx(w) = {1, 2} /\ mrctid' = mrctid
            BY <1>0, <2>7 DEF StoreTid
        <3>2. tid'[KeyOf(w, 2)] = tid[KeyOf(w, 2)]
            BY <2>7, <3>1, OwnTids
        <3> QED
            BY <1>0, <2>0, <2>7, <3>1, <3>2 DEF AboveOf
    <2> QED
        BY <2>1, <2>3, <2>4, <2>5, <2>6, <2>7, LateStep
<1> QED
    BY <1>1, <1>2 DEF Above

\* What is copied over a record bit by bit: nothing first, one byte more with
\* every step.
LEMMA OverwriteNone == ASSUME NEW r \in Record, NEW b PROVE Overwrite(r, b, 0) = r
<1>1. \A i \in Place : ~(i < 0)
    BY BytesAreFinite
<1> QED
    BY <1>1 DEF Overwrite, Record

LEMMA OverwriteMore ==
    ASSUME NEW r, NEW b, NEW n \in Place
    PROVE  [Overwrite(r, b, n) EXCEPT ![n] = b[n]] = Overwrite(r, b, n + 1)
<1>1. \A i \in Place : (i < n + 1 <=> i < n \/ i = n)
    BY BytesAreFinite
<1> QED
    BY <1>1 DEF Overwrite

LEMMA HalfWrittenKept ==
    ASSUME LInv, Fresh, StillCurrent, HalfWritten,
           NEW w \in Worker, xactDequeue(w) \/ transferWork(w)
    PROVE  HalfWritten'
<1>0. /\ TypeOK /\ TypeOK' /\ LInv'
      /\ \A v \in Worker : ValidatedAs(v) /\ ValidatedAs(v)'
      /\ \A v \in Worker : v /= w => Rests(v)
      /\ cur'[w] = cur[w] => \A i : KeyOf(w, i)' = KeyOf(w, i)
    BY Around
<1>1. ASSUME NEW v \in Worker, v /= w PROVE HalfWrittenBy(v)'
    <2>1. /\ pc'[v] = pc[v] /\ pos'[v] = pos[v] /\ idx'[v] = idx[v]
          /\ read_set'[v] = read_set[v] /\ cur'[v] = cur[v]
        BY <1>0, <1>1 DEF Rests
    <2>2. \A i : KeyOf(v, i)' = KeyOf(v, i) /\ Element(v, i)' = Element(v, i)
        BY <2>1 DEF KeyOf, Keys, Element, NewVal
    <2>3. CASE pc[v] \in Writers
        <3>1. At(v) = KeyOf(v, idx[v]) /\ At(v)' = At(v) /\ idx[v] \in 1 .. 2
            BY <2>1, <2>3, CurrentKeys DEF At, Keys, Writers
        <3>2. idx[v] \in HeldIdx(v) /\ (idx[v] = 1 => 2 \in HeldIdx(v))
            BY <1>0, <2>3, <3>1 DEF ValidatedAs
        <3>3. At(v) \in Held(v) /\ (idx[v] = 1 => KeyOf(v, 2) \in Held(v))
            BY <3>1, <3>2, HeldKeys
        <3>4. /\ record'[At(v)] = record[At(v)]
              /\ idx[v] = 1 => record'[KeyOf(v, 2)] = record[KeyOf(v, 2)]
            BY <1>1, <3>3, HeldUntouched
        <3>5. HalfWrittenBy(v)
            BY DEF HalfWritten
        <3> QED
            BY <2>1, <2>2, <2>3, <3>1, <3>4, <3>5 DEF HalfWrittenBy
    <2>4. CASE pc[v] \notin Writers
        BY <2>1, <2>4 DEF HalfWrittenBy
    <2> QED
        BY <2>3, <2>4
<1>2. HalfWrittenBy(w)'
    <2> USE DEF Writers
    <2>0. HalfWrittenBy(w)
        BY DEF HalfWritten
    <2>1. CASE pc'[w] \notin Writers
        BY <2>1 DEF HalfWrittenBy
    <2>2. ASSUME cur'[w] = cur[w], read_set'[w] = read_set[w]
          PROVE  \A i : KeyOf(w, i)' = KeyOf(w, i) /\ Element(w, i)' = Element(w, i)
        BY <2>2 DEF KeyOf, Keys, Element, NewVal
    <2>3. CASE ChooseTid(w) /\ pc[w] = "commit" /\ pc'[w] = "copy"
               /\ idx[w] = 1 /\ idx'[w] = 1 /\ read_set'[w] = read_set[w] /\ cur'[w] = cur[w]
        <3>1. record' = record /\ pos' = pos /\ pos[w] = 0
            BY <2>3 DEF ChooseTid, tuples, LInv, Places
        <3>2. \A i : KeyOf(w, i)' = KeyOf(w, i) /\ Element(w, i)' = Element(w, i)
            BY <2>2, <2>3
        <3>3. At(w)' = KeyOf(w, 1)
            BY <2>3 DEF At, KeyOf, Keys
        <3>4. Len(read_set[w]) = 2
            BY <2>3 DEF LInv, Places, Before, Reading
        <3>5. \A i \in 1 .. 2 : record[KeyOf(w, i)] = read_set[w][i].val
            <4> SUFFICES ASSUME NEW i \in 1 .. 2 PROVE record[KeyOf(w, i)] = read_set[w][i].val
                OBVIOUS
            <4>1. EntryOK(KeyOf(w, i), read_set[w][i].tid, read_set[w][i].val)
                BY <3>4 DEF Fresh, FreshOf
            <4>2. read_set[w][i].tid = tid[KeyOf(w, i)]
                BY <1>0, <2>3 DEF StillCurrent, ValidatedAs
            <4>3. ~Writing(KeyOf(w, i))
                BY <1>0, <2>3, HeldKeys, NotWriting DEF ValidatedAs
            <4> QED
                BY <4>1, <4>2, <4>3 DEF EntryOK
        <3>6. /\ read_set[w][1].val \in Record
              /\ Element(w, 1).size \in 1 .. VAL_SIZE
            BY <2>3, ElementType
        <3>7. 0 <= Element(w, 1).size
            BY <3>6, RecordsAssumption
        <3>8. Overwrite(read_set[w][1].val, Element(w, 1).bytes, 0) = read_set[w][1].val
            BY <3>6, OverwriteNone
        <3> QED
            BY <2>3, <3>1, <3>2, <3>3, <3>5, <3>7, <3>8 DEF HalfWrittenBy
    <2>4. CASE CopyByte(w) /\ pc[w] = "copy" /\ idx'[w] = idx[w]
               /\ read_set'[w] = read_set[w] /\ cur'[w] = cur[w]
        <3> DEFINE e == Element(w, idx[w])
                   n == pos[w]
                   r == read_set[w][idx[w]].val
        <3>1. /\ \A i : KeyOf(w, i)' = KeyOf(w, i) /\ Element(w, i)' = Element(w, i)
              /\ At(w)' = At(w)
            BY <2>2, <2>4 DEF At, Keys
        <3>2. /\ n < e.size /\ pos'[w] = n + 1 /\ At(w) \in Key
              /\ record'[At(w)] = [record[At(w)] EXCEPT ![n] = e.bytes[n]]
            BY <1>0, <2>4, CopyStep DEF CopyByte, TypeOK
        <3>3. record[At(w)] = Overwrite(r, e.bytes, n)
            BY <2>0, <2>4 DEF HalfWrittenBy
        <3>4. e.size \in 1 .. VAL_SIZE /\ n \in 0 .. VAL_SIZE
            BY <1>0, <2>4, ElementType DEF TypeOK
        <3>5. idx[w] = 1 => record'[KeyOf(w, 2)] = record[KeyOf(w, 2)]
            BY <2>4, CopyStep, CurrentKeys DEF Before
        <3> HIDE DEF e, n, r
        <3>6. n \in Place /\ n + 1 <= e.size
            BY <3>2, <3>4, RecordsAssumption DEF Place
        <3>7. record'[At(w)] = Overwrite(r, e.bytes, n + 1)
            BY <3>2, <3>3, <3>6, OverwriteMore
        <3> QED
            BY <2>0, <2>4, <3>1, <3>2, <3>5, <3>6, <3>7 DEF HalfWrittenBy, e, n, r
    <2>5. CASE Overrun(w) /\ pc[w] = "copy" /\ idx'[w] = idx[w]
               /\ read_set'[w] = read_set[w] /\ cur'[w] = cur[w]
        <3>1. record' = record /\ pos' = pos
            BY <2>5 DEF Overrun, tuples, local
        <3>2. /\ \A i : KeyOf(w, i)' = KeyOf(w, i) /\ Element(w, i)' = Element(w, i)
              /\ At(w)' = At(w)
            BY <2>2, <2>5 DEF At, Keys
        <3> QED
            BY <2>0, <2>5, <3>1, <3>2 DEF HalfWrittenBy
    <2>6. CASE /\ StoreTid(w) /\ pc[w] = "copy" /\ pc'[w] = "copy" /\ cur'[w] = cur[w]
               /\ idx[w] = 1 /\ idx'[w] = 2 /\ read_set'[w] = read_set[w]
        <3>1. record' = record /\ pos'[w] = 0
            BY <1>0, <2>6 DEF StoreTid, TypeOK
        <3>2. \A i : KeyOf(w, i)' = KeyOf(w, i) /\ Element(w, i)' = Element(w, i)
            BY <2>2, <2>6
        <3>3. At(w)' = KeyOf(w, 2)
            BY <2>6 DEF At, KeyOf, Keys
        <3>4. record[KeyOf(w, 2)] = read_set[w][2].val
            BY <2>0, <2>6 DEF HalfWrittenBy
        <3>5. /\ read_set[w][2].val \in Record
              /\ Element(w, 2).size \in 1 .. VAL_SIZE
            BY <2>6, ElementType
        <3>6. 0 <= Element(w, 2).size
            BY <3>5, RecordsAssumption
        <3>7. Overwrite(read_set[w][2].val, Element(w, 2).bytes, 0) = read_set[w][2].val
            BY <3>5, OverwriteNone
        <3> QED
            BY <2>6, <3>1, <3>2, <3>3, <3>4, <3>6, <3>7 DEF HalfWrittenBy
    <2>7. CASE LockRecord(w) \/ Validate(w)
        <3>1. pc'[w] \notin Writers
            BY <1>0, <2>7, LoopStep DEF LockRecord, Validate, Pc
        <3> QED
            BY <2>1, <3>1
    <2>8. CASE pc'[w] = "lock"
        BY <2>1, <2>8
    <2> QED
        BY <2>1, <2>3, <2>4, <2>5, <2>6, <2>7, <2>8, LateStep DEF Late
<1> QED
    BY <1>1, <1>2 DEF HalfWritten
-----------------------------------------------------------------------------
(* The numbers used *)

\* Choosing a TID gives one more request a number; no other step does.
LEMMA NumberedStep ==
    ASSUME LInv, NEW w \in Worker, xactDequeue(w) \/ transferWork(w)
    PROVE  Numbered' = IF ChooseTid(w) THEN Numbered \cup {cur[w]} ELSE Numbered
<1>0. /\ \A v \in Worker : v /= w => pc'[v] = pc[v] /\ cur'[v] = cur[v]
      /\ OneEach /\ NoXact \notin Xact /\ queued \subseteq Xact
    BY OthersSame, SiloAssumption DEF LInv, TypeOK, Rests
<1>1. CASE ChooseTid(w)
    <2>1. /\ pc[w] = "commit" /\ pc'[w] = "copy" /\ cur' = cur /\ queued' = queued
        BY <1>1 DEF ChooseTid, Step, Goto, LInv, TypeOK
    <2>2. cur[w] \in Xact \ queued
        BY <1>0, <2>1, CurrentKeys DEF OneEach
    <2>3. \A v \in Worker : v /= w => cur[v] /= cur[w]
        BY <1>0, <2>1, <2>2 DEF OneEach
    <2> QED
        BY <1>0, <1>1, <2>1, <2>2, <2>3 DEF Numbered, Writers
<1>2. CASE ~ChooseTid(w)
    <2>1. CASE /\ pc[w] = "idle" /\ pc'[w] = "begin" /\ cur'[w] \in queued
               /\ queued' = queued \ {cur'[w]}
        BY <1>0, <1>2, <2>1 DEF Numbered, OneEach, Writers
    <2>2. CASE /\ pc[w] = "copy" /\ pc'[w] = "idle" /\ cur'[w] = NoXact /\ queued' = queued
        BY <1>0, <1>2, <2>2 DEF Numbered, Writers
    <2>3. CASE /\ pc[w] /= "idle" /\ pc'[w] /= "idle" /\ cur'[w] = cur[w]
               /\ queued' = queued
        <3>1. pc[w] \in Writers => pc'[w] \in Writers
            BY <2>3, StepKinds, QuietStep, CopyStep, StoreStep DEF Writers
        <3>2. pc'[w] \in Writers => pc[w] \in Writers
            <4>1. pc'[w] \in Writers => pc'[w] \in Late /\ pc'[w] \notin {"lock", "validate", "commit"}
                BY DEF Late, Writers
            <4> QED
                BY <1>2, <4>1, LateStep DEF Writers
        <3> QED
            BY <1>0, <1>2, <2>3, <3>1, <3>2 DEF Numbered
    <2> QED
        BY <2>1, <2>2, <2>3, RequestKept
<1> QED
    BY <1>1, <1>2

\* What happens to the numbers that a worker keeps.
LEMMA NumberStep ==
    ASSUME LInv, NEW w \in Worker, xactDequeue(w) \/ transferWork(w)
    PROVE  /\ \/ max_set'[w] = max_set[w] \/ max_set'[w] = 0
              \/ At(w) \in Key /\ max_set'[w] = Larger(max_set[w], tid[At(w)])
           /\ mrctid'[w] = IF ChooseTid(w) THEN CommitTid(w) ELSE mrctid[w]
           /\ ChooseTid(w) => tid' = tid /\ pc[w] = "commit"
<1>0. TypeOK /\ max_set \in [Worker -> Nat] /\ mrctid \in [Worker -> Nat]
    BY DEF LInv, TypeOK
<1> USE DEF local, tuples, Step
<1>1. CASE xactDequeue(w) \/ AssertFails(w)
    BY <1>0, <1>1 DEF xactDequeue, AssertFails, ChooseTid
<1>2. CASE begin(w)
    BY <1>0, <1>2 DEF begin, ChooseTid
<1>3. CASE read(w)
    BY <1>0, <1>3 DEF read, LoadTid, ReadVal, AddToReadSet, ReadAgain, ChooseTid, Loop
<1>4. CASE LockRecord(w) \/ Validate(w)
    <2>1. At(w) \in Key
        BY <1>4, CurrentKeys DEF LockRecord, Validate, Loop
    <2> QED
        BY <1>0, <1>4, <2>1 DEF LockRecord, Validate, ChooseTid, Loop
<1>5. CASE LockBusy(w) \/ ValidateFails(w) \/ unlockWriteSet(w)
    BY <1>0, <1>5 DEF LockBusy, ValidateFails, unlockWriteSet, ChooseTid
<1>6. CASE ChooseTid(w)
    BY <1>0, <1>6 DEF ChooseTid
<1>7. CASE CopyByte(w) \/ StoreTid(w) \/ Overrun(w)
    BY <1>0, <1>7 DEF CopyByte, StoreTid, Overrun, ChooseTid, Loop
<1> QED
    BY <1>1, <1>2, <1>3, <1>4, <1>5, <1>6, <1>7
    DEF transferWork, read, validationPhase, writePhase

LEMMA NumbersKept ==
    ASSUME NumbersSuffice, LInv, Above, NumbersBounded,
           NEW w \in Worker, xactDequeue(w) \/ transferWork(w)
    PROVE  NumbersBounded'
<1>0. /\ \A v \in Worker : v /= w => mrctid'[v] = mrctid[v] /\ max_set'[v] = max_set[v]
      /\ Numbered \subseteq Xact /\ Xact \cap queued = queued
    BY OthersSame DEF LInv, TypeOK, Rests, Numbered
<1> DEFINE N == Cardinality(Numbered)
           M == Cardinality(Numbered')
<1>1. /\ N \in Nat /\ M \in Nat /\ N <= M /\ TIDS \in Nat /\ TIDS >= 2
      /\ ChooseTid(w) => M = N + 1
    <2>1. N \in Nat
        BY <1>0, FS_Subset, FS_CardinalityType DEF NumbersSuffice
    <2>2. CASE ChooseTid(w)
        <3>1. cur[w] \in Xact /\ cur[w] \notin Numbered
            BY <2>2, CommitTidIs, NumberStep
        <3> QED
            BY <2>1, <2>2, <3>1, RoomForOne, NumberedStep, SiloAssumption
    <2>3. CASE ~ChooseTid(w)
        BY <2>1, <2>3, NumberedStep, SiloAssumption
    <2> QED
        BY <2>2, <2>3
<1>2. Numbers = TIDS .. TIDS + N /\ Numbers' = TIDS .. TIDS + M
    BY DEF Numbers
<1> HIDE DEF N, M
<1>3. Numbers \subseteq Numbers'
    BY <1>1, <1>2
<1>4. \A v \in Worker : v /= w => /\ mrctid'[v] \in Numbers' \cup {0}
                                  /\ max_set'[v] \in Numbers' \cup {0}
    BY <1>0, <1>3 DEF NumbersBounded
<1>5. mrctid'[w] \in Numbers' \cup {0}
    <2>1. CASE ChooseTid(w)
        <3>1. CommitTid(w) \in TIDS .. TIDS + N + 1
            BY <2>1, CommitTidIs, NumberStep DEF N
        <3> QED
            BY <1>1, <1>2, <2>1, <3>1, NumberStep
    <2>2. CASE ~ChooseTid(w)
        BY <1>3, <2>2, NumberStep DEF NumbersBounded
    <2> QED
        BY <2>1, <2>2
<1>6. max_set'[w] \in Numbers' \cup {0}
    BY <1>3, NumberStep DEF NumbersBounded, Larger
<1>7. \A k \in Key : tid'[k] \in Numbers'
    <2>1. CASE tid' = tid
        BY <1>3, <2>1 DEF NumbersBounded
    <2>2. CASE StoreTid(w)
        <3>1. /\ At(w) \in Key /\ idx[w] \in HeldIdx(w) /\ At(w) = KeyOf(w, idx[w])
              /\ pc[w] = "copy" /\ tid'[At(w)] = mrctid[w]
              /\ \A k \in Key : k /= At(w) => tid'[k] = tid[k]
            BY <2>2, StoreStep
        <3>2. mrctid[w] > tid[At(w)]
            BY <3>1 DEF Above, AboveOf, Writers
        <3>3. tid[At(w)] \in Numbers /\ mrctid[w] \in Numbers \cup {0}
            BY <3>1 DEF NumbersBounded
        <3>4. tid[At(w)] >= 2 /\ tid[At(w)] \in Nat
            BY <1>1, <1>2, <3>3
        <3>5. mrctid[w] /= 0
            BY <3>2, <3>4
        <3>6. mrctid[w] \in Numbers
            BY <3>3, <3>5
        <3> QED
            BY <1>3, <3>1, <3>6 DEF NumbersBounded
    <2> QED
        BY <2>1, <2>2, StepKinds, QuietStep, CopyStep
<1> QED
    BY <1>4, <1>5, <1>6, <1>7 DEF NumbersBounded

-----------------------------------------------------------------------------

LEMMA TidInit == NumbersSuffice /\ Init => TInv
<1> SUFFICES ASSUME NumbersSuffice, Init PROVE TInv
    OBVIOUS
<1>1. LInv
    BY LockInit
<1>2. \A w \in Worker : /\ pc[w] = "idle" /\ Len(read_set[w]) = 0
                        /\ mrctid[w] = 0 /\ max_set[w] = 0
    BY DEF Init
<1>3. \A w \in Worker : HeldIdx(w) = {} /\ Validated(w) = {}
    BY <1>2 DEF HeldIdx, Validated, Writers
<1>4. Fresh /\ SameTidSameVal
    BY <1>2 DEF Fresh, FreshOf, SameTidSameVal
<1>5. StillCurrent /\ HalfWritten /\ Above
    BY <1>2, <1>3 DEF StillCurrent, HalfWritten, HalfWrittenBy, Above, AboveOf, Writers
<1>6. NumbersBounded
    <2>1. Numbered = {}
        BY DEF Init, Numbered
    <2>2. Cardinality(Numbered) = 0
        BY <2>1, FS_EmptySet
    <2>3. \A k \in Key : tid[k] = TIDS
        BY DEF Init, FirstTid
    <2>4. Numbers = TIDS .. TIDS + 0 /\ TIDS \in Nat
        BY <2>2, SiloAssumption DEF Numbers
    <2>5. TIDS \in Numbers
        BY <2>4
    <2> QED
        BY <1>2, <2>3, <2>5 DEF NumbersBounded
<1> QED
    BY <1>1, <1>4, <1>5, <1>6 DEF TInv

LEMMA TidStep ==
    ASSUME NumbersSuffice, TInv, NEW w \in Worker, xactDequeue(w) \/ transferWork(w)
    PROVE  TInv'
<1>1. /\ LInv /\ Fresh /\ SameTidSameVal /\ StillCurrent /\ HalfWritten /\ Above
      /\ NumbersBounded
    BY DEF TInv
<1>2. LInv' /\ Fresh' /\ SameTidSameVal'
    BY <1>1, LockStep, FreshKept, SameValKept
<1>3. StillCurrent' /\ HalfWritten' /\ Above' /\ NumbersBounded'
    BY <1>1, CurrentKept, HalfWrittenKept, AboveKept, NumbersKept
<1> QED
    BY <1>2, <1>3 DEF TInv

LEMMA TidStutter == TInv /\ UNCHANGED vars => TInv'
<1> SUFFICES ASSUME TInv, UNCHANGED vars PROVE TInv'
    OBVIOUS
<1>1. LInv'
    BY LockStutter DEF TInv
<1> USE DEF vars, tuples, local
<1>2. /\ \A v \in Worker : Rests(v)
      /\ tid' = tid /\ record' = record /\ queued' = queued /\ cur' = cur /\ pc' = pc
    BY DEF Rests
<1>3. \A v \in Worker :
         /\ Held(v)' = Held(v) /\ HeldIdx(v)' = HeldIdx(v) /\ Validated(v)' = Validated(v)
         /\ At(v)' = At(v)
         /\ \A i : KeyOf(v, i)' = KeyOf(v, i) /\ Element(v, i)' = Element(v, i)
    BY DEF Held, HeldIdx, Validated, At, KeyOf, Keys, Element, NewVal
<1>4. \A k : Writing(k)' <=> Writing(k)
    BY <1>2, <1>3 DEF Writing
<1>5. Fresh' /\ SameTidSameVal'
    <2>1. Fresh /\ SameTidSameVal
        BY DEF TInv
    <2>2. Fresh'
        BY <1>2, <1>3, <1>4, <2>1 DEF Fresh, FreshOf, EntryOK
    <2> QED
        BY <1>2, <1>3, <2>1, <2>2 DEF SameTidSameVal
<1>6. StillCurrent' /\ HalfWritten' /\ Above'
    <2>1. StillCurrent /\ HalfWritten /\ Above
        BY DEF TInv
    <2> QED
        BY <1>2, <1>3, <2>1 DEF StillCurrent, HalfWritten, HalfWrittenBy, Above, AboveOf
<1>7. NumbersBounded'
    BY <1>2 DEF TInv, NumbersBounded, Numbers, Numbered
<1> QED
    BY <1>1, <1>5, <1>6, <1>7 DEF TInv

THEOREM TidInvariance == ASSUME NumbersSuffice PROVE Spec => []TInv
<1>1. Init => TInv
    BY TidInit
<1>2. TInv /\ [Next]_vars => TInv'
    BY TidStep, TidStutter DEF Next
<1> QED
    BY <1>1, <1>2, PTL DEF Spec

\* TidNamesValue (transaction.cc, read and validationPhase): a TID and a key
\* name one value; while a record has the TID it was read with and is not
\* locked, it has the value that was read.
THEOREM TidNamesOneValue == ASSUME NumbersSuffice PROVE Spec => []TidNamesValue
<1>1. TInv => TidNamesValue
    <2> SUFFICES ASSUME TInv PROVE TidNamesValue
        OBVIOUS
    <2>1. LInv /\ Fresh /\ SameTidSameVal
        BY DEF TInv
    <2> SUFFICES ASSUME NEW w \in Worker, NEW i \in 1 .. Len(read_set[w])
                 PROVE  /\ tid[KeyOf(w, i)] = read_set[w][i].tid /\ ~lock[KeyOf(w, i)]
                              => record[KeyOf(w, i)] = read_set[w][i].val
                        /\ \A v \in Worker : \A j \in 1 .. Len(read_set[v]) :
                              KeyOf(v, j) = KeyOf(w, i) /\ read_set[v][j].tid = read_set[w][i].tid
                                  => read_set[v][j].val = read_set[w][i].val
        BY DEF TidNamesValue, KeyOf
    <2>2. EntryOK(KeyOf(w, i), read_set[w][i].tid, read_set[w][i].val)
        BY <2>1 DEF Fresh, FreshOf
    <2>3. KeyOf(w, i) \in Key
        BY <2>1, ReadKeys
    <2>4. ~lock[KeyOf(w, i)] => ~Writing(KeyOf(w, i))
        BY <2>1, <2>3, NotWriting
    <2> QED
        BY <2>1, <2>2, <2>4 DEF EntryOK, SameTidSameVal
<1> QED
    BY <1>1, TidInvariance, PTL

\* CommitTidLarger (transaction.cc, writePhase): the TID chosen is larger than
\* the worker's last one and than those of the records read and written.
THEOREM CommitTidGrows == ASSUME NumbersSuffice PROVE Spec => CommitTidLarger
<1>1. TInv /\ [Next]_vars =>
         [\A w \in Worker : ChooseTid(w) =>
             /\ mrctid'[w] > mrctid[w]
             /\ \A i \in 1 .. 2 : mrctid'[w] > tid[Keys(cur[w])[i]]]_vars
    <2> SUFFICES ASSUME TInv, NEW w \in Worker, ChooseTid(w)
                 PROVE  /\ mrctid'[w] > mrctid[w]
                        /\ \A i \in 1 .. 2 : mrctid'[w] > tid[Keys(cur[w])[i]]
        OBVIOUS
    <2>1. LInv /\ Above /\ NumbersBounded /\ TypeOK /\ ValidatedAs(w)
        BY ValidatedAre DEF TInv, LInv
    <2>2. pc[w] = "commit" /\ mrctid'[w] = CommitTid(w)
        BY <2>1 DEF ChooseTid, Step, TypeOK
    <2>3. CommitTid(w) > max_set[w] /\ CommitTid(w) > mrctid[w]
        BY <2>1, <2>2, CommitTidIs
    <2>4. ASSUME NEW i \in 1 .. 2 PROVE CommitTid(w) > tid[KeyOf(w, i)]
        <3> DEFINE a == CommitTid(w)
                   b == max_set[w]
                   c == tid[KeyOf(w, i)]
        <3>1. i \in HeldIdx(w)
            BY <2>1, <2>2 DEF ValidatedAs
        <3>2. b >= c
            BY <2>1, <2>2, <3>1 DEF Above, AboveOf
        <3>3. a \in Nat /\ b \in Nat /\ c \in Nat
            BY <2>1, <3>1, CommitTidType, HeldKeys DEF TypeOK
        <3>4. a > b
            BY <2>3
        <3> HIDE DEF a, b, c
        <3>5. a > c
            BY <3>2, <3>3, <3>4
        <3> QED
            BY <3>5 DEF a, c
    <2> QED
        BY <2>2, <2>3, <2>4 DEF KeyOf
<1> QED
    BY <1>1, TidInvariance, PTL DEF Spec, CommitTidLarger
-----------------------------------------------------------------------------
(* Serializability *)

\* The operators of SerialStore are those of Records.
LEMMA SerialData ==
    /\ Serial!amount = amount /\ Serial!val = val
    /\ \A v : Serial!Wrap(v) = Wrap(v)
    /\ \A b, fixed : Serial!Source(b, fixed) = Source(b, fixed)
    /\ \A old, b, n : Serial!Overwrite(old, b, n) = Overwrite(old, b, n)
<1>1. Serial!Record = Record /\ Serial!Place = Place
    BY DEF Serial!Record, Record, Serial!Place, Place
<1>2. Serial!Int32 = Int32 /\ \A v : Serial!Wrap(v) = Wrap(v)
    BY DEF Serial!Int32, Int32, Serial!Wrap, Wrap, Serial!Modulus, Modulus
<1>3. \A f, S : Serial!SumOver(f, S) = SumOver(f, S)
    BY DEF Serial!SumOver, SumOver, Serial!MapThenSumSet, MapThenSumSet,
       Serial!MapThenFoldSet, MapThenFoldSet
<1>4. Serial!amount = amount
    BY <1>1, <1>2, <1>3 DEF Serial!amount, amount
<1>5. Serial!val = val
    BY <1>1, <1>2 DEF Serial!val, val, Serial!Modulus, Modulus
<1>6. Serial!strlen = strlen
    BY <1>1 DEF Serial!strlen, strlen, Serial!Min, Min
<1>7. \A b, fixed : Serial!Source(b, fixed) = Source(b, fixed)
    BY <1>6 DEF Serial!Source, Source
<1>8. \A old, b, n : Serial!Overwrite(old, b, n) = Overwrite(old, b, n)
    BY <1>1 DEF Serial!Overwrite, Overwrite
<1> QED
    BY <1>2, <1>4, <1>5, <1>7, <1>8

\* the program counters of a worker whose transaction is committed
Decided == {"commit", "copy", "overrun"}

\* what a committed transaction is to leave in its i-th record
Target(w, i) ==
    Overwrite(read_set[w][i].val, Element(w, i).bytes, Element(w, i).size)

\* What the committed value of a record is, without the choices of
\* CommittedView.
ViewOK ==
    /\ \A w \in Worker : pc[w] \in Decided =>
          \A i \in HeldIdx(w) : CommittedView[KeyOf(w, i)] = Target(w, i)
    /\ \A k \in Key : (\A w \in Worker : pc[w] \in Decided => k \notin Held(w))
          => CommittedView[k] = record[k]

LEMMA ViewOf == LInv => ViewOK
<1> SUFFICES ASSUME LInv PROVE ViewOK
    OBVIOUS
<1>1. ASSUME NEW k \in Key, \A w \in Worker : pc[w] \in Decided => k \notin Held(w)
      PROVE  CommittedView[k] = record[k]
    BY <1>1 DEF CommittedView, Decided
<1>2. ASSUME NEW w \in Worker, pc[w] \in Decided, NEW i \in HeldIdx(w)
      PROVE  CommittedView[KeyOf(w, i)] = Target(w, i)
    <2> DEFINE k == KeyOf(w, i)
               P(v) == pc[v] \in {"commit", "copy", "overrun"} /\ k \in Held(v)
    <2>1. k \in Key /\ k \in Held(w) /\ i \in 1 .. 2 /\ HeldIdx(w) \subseteq 1 .. 2
        BY HeldKeys
    <2>2. P(w)
        BY <1>2, <2>1 DEF Decided
    <2>3. \A v \in Worker : P(v) => v = w
        BY <2>1, NotWriting
    <2> DEFINE W == CHOOSE v \in Worker : P(v)
    <2>4. W = w
        BY <2>2, <2>3
    <2> DEFINE Q(j) == Keys(cur[W])[j] = k
               I == CHOOSE j \in HeldIdx(W) : Q(j)
    <2>5. KeyOf(w, 1) /= KeyOf(w, 2)
        BY <1>2, CurrentKeys DEF Decided, Before
    <2>6. I = i
        <3>0. \A j \in HeldIdx(w) : KeyOf(w, j) = k => j = i
            <4>1. \A j \in HeldIdx(w) : j = 1 \/ j = 2
                BY <2>1
            <4>2. i = 1 \/ i = 2
                BY <2>1
            <4> HIDE DEF P, W, Q, I
            <4> QED
                BY <2>5, <4>1, <4>2
        <3> HIDE DEF P, W
        <3>1. i \in HeldIdx(W) /\ Q(i)
            BY <2>4 DEF KeyOf
        <3>2. \A j \in HeldIdx(W) : Q(j) => j = i
            BY <2>4, <3>0 DEF KeyOf
        <3> HIDE DEF Q
        <3> QED
            BY <3>1, <3>2
    <2>7. CommittedView[k] = Overwrite(read_set[W][I].val, Element(W, I).bytes, Element(W, I).size)
        <3>1. \E v \in Worker : P(v)
            BY <2>2
        <3> QED
            BY <2>1, <3>1 DEF CommittedView
    <2> HIDE DEF I, W
    <2> QED
        BY <2>4, <2>6, <2>7 DEF Target
<1> QED
    BY <1>1, <1>2 DEF ViewOK

LEMMA ViewOfNext == (LInv => ViewOK)'
BY ViewOf, PTL

\* What another worker has decided stays; what is in a record that no worker
\* has decided on stays as well.
LEMMA OthersView ==
    ASSUME LInv, NEW w \in Worker, xactDequeue(w) \/ transferWork(w), NEW k \in Key
    PROVE  /\ \A v \in Worker : v /= w /\ pc[v] \in Decided /\ k \in Held(v)
                 => CommittedView'[k] = CommittedView[k]
           /\ /\ \A v \in Worker : v /= w /\ pc[v] \in Decided => k \notin Held(v)
              /\ pc'[w] \in Decided => k \notin Held(w)'
              => CommittedView'[k] = record'[k]
           /\ (\A v \in Worker : pc[v] \in Decided => k \notin Held(v))
                 => CommittedView[k] = record[k]
<1>1. ViewOK /\ ViewOK'
    BY LockStep, ViewOf, ViewOfNext
<1>2. \A v \in Worker : v /= w => Rests(v)
    BY OthersSame DEF LInv
<1>3. ASSUME NEW v \in Worker, v /= w, pc[v] \in Decided, k \in Held(v)
      PROVE  CommittedView'[k] = CommittedView[k]
    <2>1. PICK i \in HeldIdx(v) : k = KeyOf(v, i)
        BY <1>3, HeldKeys
    <2>2. /\ HeldIdx(v)' = HeldIdx(v) /\ KeyOf(v, i)' = k /\ pc'[v] = pc[v]
          /\ Target(v, i)' = Target(v, i)
        BY <1>2, <1>3, <2>1, HeldRests DEF Rests, Target, Element, NewVal
    <2>3. CommittedView[k] = Target(v, i)
        BY <1>1, <1>3, <2>1 DEF ViewOK
    <2>4. CommittedView'[KeyOf(v, i)'] = Target(v, i)'
        BY <1>1, <1>3, <2>2 DEF ViewOK
    <2> QED
        BY <2>2, <2>3, <2>4
<1>4. ASSUME \A v \in Worker : v /= w /\ pc[v] \in Decided => k \notin Held(v),
             pc'[w] \in Decided => k \notin Held(w)'
      PROVE  CommittedView'[k] = record'[k]
    <2>1. \A v \in Worker : v /= w => Held(v)' = Held(v) /\ pc'[v] = pc[v]
        BY <1>2, HeldRests DEF Rests
    <2>2. \A v \in Worker : pc'[v] \in Decided => k \notin Held(v)'
        BY <1>4, <2>1
    <2> QED
        BY <1>1, <2>2 DEF ViewOK
<1> QED
    BY <1>1, <1>3, <1>4 DEF ViewOK
\* The only step that decides on a transaction is its last validation.
LEMMA DecidedStep ==
    ASSUME LInv, NEW w \in Worker, xactDequeue(w) \/ transferWork(w),
           ~(Validate(w) /\ idx[w] = 2)
    PROVE  /\ pc[w] \notin Decided => pc'[w] \notin Decided /\ record' = record
           /\ pc[w] \in Decided /\ ~StoreTid(w) =>
                 /\ pc'[w] \in Decided /\ Held(w)' = Held(w) /\ HeldIdx(w)' = HeldIdx(w)
                 /\ \A i : KeyOf(w, i)' = KeyOf(w, i) /\ Target(w, i)' = Target(w, i)
                 /\ \A k \in Key : k \notin Held(w) => record'[k] = record[k]
<1>0. /\ ValidatedAs(w) /\ ValidatedAs(w)'
      /\ \A v : pc'[v] \in Decided <=> pc'[v] \in Late /\ pc'[v] \notin {"lock", "validate"}
    BY Around DEF Decided, Late, Writers
<1>1. ASSUME pc[w] \notin Decided PROVE pc'[w] \notin Decided /\ record' = record
    <2>1. pc'[w] \notin Decided
        BY <1>0, <1>1, LateStep DEF Decided
    <2>2. ~CopyByte(w)
        BY <1>1 DEF CopyByte, Decided
    <2> QED
        BY <2>1, <2>2, StepKinds, QuietStep, StoreStep
<1>2. ASSUME pc[w] \in Decided, ~StoreTid(w)
      PROVE  /\ pc'[w] \in Decided /\ Held(w)' = Held(w) /\ HeldIdx(w)' = HeldIdx(w)
             /\ \A i : KeyOf(w, i)' = KeyOf(w, i) /\ Target(w, i)' = Target(w, i)
             /\ \A k \in Key : k \notin Held(w) => record'[k] = record[k]
    <2>1. ChooseTid(w) \/ CopyByte(w) \/ Overrun(w)
        BY <1>2 DEF Decided, transferWork, xactDequeue, AssertFails, begin, read, LoadTid,
           ReadVal, AddToReadSet, ReadAgain, validationPhase, LockRecord, LockBusy, Validate,
           ValidateFails, unlockWriteSet, writePhase, Step, Loop
    <2>2. pc'[w] \in Decided
        BY <1>2, <2>1 DEF ChooseTid, CopyByte, Overrun, Step, Goto, Decided, LInv, TypeOK
    <2>3. /\ cur' = cur /\ idx' = idx /\ read_set' = read_set
        BY <2>1 DEF ChooseTid, CopyByte, Overrun, local
    <2>4. idx[w] = 1 \/ pc[w] /= "commit"
        BY DEF LInv, Places
    <2>5. HeldIdx(w)' = HeldIdx(w)
        <3>1. pc[w] \in Writers => pc'[w] \in Writers
            BY <2>1, QuietStep, CopyStep DEF Quiet
        <3>2. pc[w] = "commit" => pc'[w] = "copy"
            BY <2>1 DEF ChooseTid, CopyByte, Overrun, Step, Goto, LInv, TypeOK
        <3>3. pc[w] = "commit" \/ pc[w] \in Writers
            BY <1>2 DEF Decided, Writers
        <3>4. CASE pc[w] \in Writers
            BY <2>3, <3>1, <3>4 DEF HeldIdx, Writers
        <3>5. CASE pc[w] = "commit"
            <4>1. HeldIdx(w) = 1 .. 2
                BY <1>0, <3>5 DEF ValidatedAs
            <4>2. pc'[w] \in Writers /\ idx'[w] = 1
                BY <2>3, <2>4, <3>2, <3>5 DEF Writers
            <4>3. HeldIdx(w)' = 1 .. 2
                BY <1>0, <4>2 DEF ValidatedAs
            <4> QED
                BY <4>1, <4>3
        <3> QED
            BY <3>3, <3>4, <3>5
    <2>6. /\ \A i : KeyOf(w, i)' = KeyOf(w, i) /\ Target(w, i)' = Target(w, i)
          /\ Held(w)' = Held(w)
        BY <2>3, <2>5 DEF KeyOf, Keys, Target, Element, NewVal, Held
    <2>7. \A k \in Key : k \notin Held(w) => record'[k] = record[k]
        BY <2>1, QuietStep, CopyStep DEF Quiet
    <2> QED
        BY <2>2, <2>5, <2>6, <2>7
<1> QED
    BY <1>1, <1>2

LEMMA ViewKept ==
    ASSUME TInv, NEW w \in Worker, xactDequeue(w) \/ transferWork(w),
           ~(Validate(w) /\ idx[w] = 2)
    PROVE  CommittedView' = CommittedView
<1>0. /\ LInv /\ ViewOK /\ ViewOK' /\ HalfWritten
      /\ ValidatedAs(w) /\ ValidatedAs(w)' /\ Worker' = Worker
    BY LockStep, ViewOf, ViewOfNext, Around DEF TInv
<1>1. SUFFICES ASSUME NEW k \in Key PROVE CommittedView'[k] = CommittedView[k]
    BY DEF CommittedView
<1>2. CASE \E v \in Worker : v /= w /\ pc[v] \in Decided /\ k \in Held(v)
    BY <1>0, <1>2, OthersView
<1>3. ASSUME \A v \in Worker : v /= w /\ pc[v] \in Decided => k \notin Held(v),
             pc[w] \notin Decided \/ k \notin Held(w)
      PROVE  CommittedView'[k] = CommittedView[k]
    <2>1. CommittedView[k] = record[k]
        BY <1>0, <1>3, OthersView
    <2>2. /\ pc'[w] \in Decided => k \notin Held(w)'
          /\ record'[k] = record[k]
        <3>1. CASE pc[w] \notin Decided
            BY <1>0, <3>1, DecidedStep
        <3>2. CASE pc[w] \in Decided /\ ~StoreTid(w)
            BY <1>0, <1>3, <3>2, DecidedStep
        <3>3. CASE pc[w] \in Decided /\ StoreTid(w)
            BY <1>0, <1>3, <3>3, StoreStep
        <3> QED
            BY <3>1, <3>2, <3>3
    <2>3. CommittedView'[k] = record'[k]
        BY <1>0, <1>3, <2>2, OthersView
    <2> QED
        BY <2>1, <2>2, <2>3
<1>4. ASSUME \A v \in Worker : v /= w /\ pc[v] \in Decided => k \notin Held(v),
             pc[w] \in Decided, k \in Held(w)
      PROVE  CommittedView'[k] = CommittedView[k]
    <2>1. PICK i \in HeldIdx(w) : k = KeyOf(w, i)
        BY <1>0, <1>4, HeldKeys
    <2>2. CommittedView[k] = Target(w, i)
        BY <1>0, <1>4, <2>1 DEF ViewOK
    <2>3. CASE ~StoreTid(w)
        <3>1. /\ pc'[w] \in Decided /\ HeldIdx(w)' = HeldIdx(w)
              /\ KeyOf(w, i)' = KeyOf(w, i) /\ Target(w, i)' = Target(w, i)
            BY <1>0, <1>4, <2>3, DecidedStep
        <3>2. CommittedView'[KeyOf(w, i)'] = Target(w, i)'
            BY <1>0, <2>1, <3>1 DEF ViewOK
        <3> QED
            BY <2>1, <2>2, <3>1, <3>2
    <2>4. CASE StoreTid(w)
        <3>1. /\ record' = record /\ At(w) \in Key /\ At(w) = KeyOf(w, idx[w]) /\ pc[w] = "copy"
              /\ Held(w)' = Held(w) \ {At(w)}
              /\ \/ /\ idx[w] = 1 /\ idx'[w] = 2 /\ pc'[w] = "copy" /\ cur' = cur
                    /\ read_set' = read_set
                 \/ idx[w] = 2 /\ pc'[w] = "idle"
            BY <1>0, <2>4, StoreStep
        <3>2. i = 1 \/ i = 2
            BY <1>0, HeldKeys
        <3>3. CASE i = idx[w]
            <4>1. k \notin Held(w)' /\ k = At(w)
                BY <2>1, <3>1, <3>3
            <4>2. CommittedView'[k] = record'[k]
                BY <1>0, <1>4, <4>1, OthersView
            <4>3. pos[w] = Element(w, i).size
                BY <2>4, <3>3 DEF StoreTid
            <4>4. record[k] = Target(w, i)
                BY <1>0, <3>1, <3>3, <4>1, <4>3 DEF HalfWritten, HalfWrittenBy, Target, Writers
            <4> QED
                BY <2>2, <3>1, <4>2, <4>4
        <3>4. CASE i /= idx[w]
            <4>1. idx[w] = 1 /\ i = 2
                <5>1. idx[w] = 2 => HeldIdx(w) = {2}
                    BY <1>0, <3>1 DEF ValidatedAs, Writers
                <5> QED
                    BY <3>1, <3>2, <3>4, <5>1
            <4>2. /\ HeldIdx(w)' = {2} /\ pc'[w] \in Decided
                BY <1>0, <3>1, <4>1 DEF ValidatedAs, Writers, Decided
            <4>3. KeyOf(w, i)' = k /\ Target(w, i)' = Target(w, i)
                BY <2>1, <3>1, <4>1 DEF KeyOf, Keys, Target, Element, NewVal
            <4>4. CommittedView'[KeyOf(w, i)'] = Target(w, i)'
                BY <1>0, <4>1, <4>2 DEF ViewOK
            <4> QED
                BY <2>2, <4>3, <4>4
        <3> QED
            BY <3>3, <3>4
    <2> QED
        BY <2>3, <2>4
<1> QED
    BY <1>2, <1>3, <1>4

LEMMA CommittedKept ==
    ASSUME LInv, NEW w \in Worker, xactDequeue(w) \/ transferWork(w)
    PROVE  Committed' = IF Validate(w) /\ idx[w] = 2 THEN Committed \cup {cur[w]} ELSE Committed
<1>0. /\ \A v \in Worker : v /= w => pc'[v] = pc[v] /\ cur'[v] = cur[v]
      /\ OneEach /\ NoXact \notin Xact /\ queued \subseteq Xact
    BY OthersSame, SiloAssumption DEF LInv, TypeOK, Rests
<1>1. CASE Validate(w) /\ idx[w] = 2
    <2>1. /\ pc[w] = "validate" /\ pc'[w] = "commit" /\ cur' = cur /\ queued' = queued
        BY <1>1, LoopStep DEF Validate, LInv, Pc
    <2>2. cur[w] \in Xact \ queued
        BY <1>0, <2>1, CurrentKeys DEF OneEach
    <2>3. \A v \in Worker : v /= w => cur[v] /= cur[w]
        BY <1>0, <2>1, <2>2 DEF OneEach
    <2> QED
        BY <1>0, <1>1, <2>1, <2>2, <2>3 DEF Committed
<1>2. CASE ~(Validate(w) /\ idx[w] = 2)
    <2>1. CASE /\ pc[w] = "idle" /\ pc'[w] = "begin" /\ cur'[w] \in queued
               /\ queued' = queued \ {cur'[w]}
        BY <1>0, <1>2, <2>1 DEF Committed, OneEach
    <2>2. CASE /\ pc[w] = "copy" /\ pc'[w] = "idle" /\ cur'[w] = NoXact /\ queued' = queued
        BY <1>0, <1>2, <2>2 DEF Committed
    <2>3. CASE /\ pc[w] /= "idle" /\ pc'[w] /= "idle" /\ cur'[w] = cur[w]
               /\ queued' = queued
        <3>1. pc[w] \in Decided <=> pc'[w] \in Decided
            BY <1>2, <2>3, DecidedStep, StoreStep DEF Decided
        <3> QED
            BY <1>0, <1>2, <2>3, <3>1 DEF Committed, Decided
    <2> QED
        BY <2>1, <2>2, <2>3, RequestKept
<1> QED
    BY <1>1, <1>2
\* The last validation is a serial transfer: both records have the values the
\* worker has read, and from now on they count as having the values computed
\* from them.
LEMMA LastValidation ==
    ASSUME TInv, NEW w \in Worker, Validate(w), idx[w] = 2
    PROVE  Serial!Transfer(cur[w], write_val[w])
<1> DEFINE x == cur[w]
           r(i) == read_set[w][i].val
           new(i) == Source(NewVal(w, i), write_val[w])
<1>0. /\ LInv /\ Fresh /\ StillCurrent /\ (xactDequeue(w) \/ transferWork(w))
      /\ ViewOK /\ ViewOK' /\ ValidatedAs(w) /\ ValidatedAs(w)'
      /\ cur'[w] = cur[w] => \A i : KeyOf(w, i)' = KeyOf(w, i)
    <2>1. LInv /\ Fresh /\ StillCurrent
        BY DEF TInv
    <2>2. transferWork(w)
        BY DEF transferWork, validationPhase
    <2> QED
        BY <2>1, <2>2, LockStep, ViewOf, ViewOfNext, Around
<1>1. /\ pc[w] = "validate" /\ pc'[w] = "commit" /\ idx'[w] = 1 /\ cur' = cur
      /\ read_set' = read_set /\ record' = record /\ tid' = tid
    BY <1>0, LoopStep DEF Validate, LInv, Pc, tuples
<1>2. /\ x \in Xact /\ KeyOf(w, 1) = Key1(x) /\ KeyOf(w, 2) = Key2(x)
      /\ KeyOf(w, 1) \in Key /\ KeyOf(w, 2) \in Key /\ KeyOf(w, 1) /= KeyOf(w, 2)
      /\ At(w) = KeyOf(w, 2)
    BY <1>0, <1>1, CurrentKeys DEF Before
<1>3. x \notin Committed /\ Committed' = Committed \cup {x}
    <2>1. x \notin Committed
        BY <1>1 DEF Committed
    <2> QED
        BY <1>0, <2>1, CommittedKept
<1>4. /\ HeldIdx(w) = {1, 2} /\ Held(w) = {KeyOf(w, 1), KeyOf(w, 2)} /\ Validated(w) = {1}
      /\ HeldIdx(w)' = {1, 2}
    <2>1. HeldIdx(w) = {1, 2} /\ Validated(w) = {1} /\ HeldIdx(w)' = {1, 2}
        BY <1>0, <1>1 DEF ValidatedAs
    <2>2. Held(w) = {KeyOf(w, i) : i \in {1, 2}}
        BY <1>0, <2>1, HeldKeys
    <2> QED
        BY <2>1, <2>2
<1>5. ASSUME NEW i \in {1, 2} PROVE CommittedView[KeyOf(w, i)] = r(i)
    <2>1. KeyOf(w, i) \in Key /\ KeyOf(w, i) \in Held(w)
        BY <1>2, <1>4, <1>5
    <2>2. \A v \in Worker : pc[v] \in Decided => KeyOf(w, i) \notin Held(v)
        BY <1>0, <1>1, <2>1, NotWriting DEF Decided
    <2>3. CommittedView[KeyOf(w, i)] = record[KeyOf(w, i)]
        BY <1>0, <2>1, <2>2 DEF ViewOK
    <2>4. read_set[w][i].tid = tid[KeyOf(w, i)]
        <3>1. read_set[w][1].tid = tid[KeyOf(w, 1)]
            BY <1>4 DEF TInv, StillCurrent
        <3>2. read_set[w][2].tid = tid[KeyOf(w, 2)]
            BY <1>2 DEF Validate, Unchanged
        <3> QED
            BY <1>5, <3>1, <3>2
    <2>5. ~Writing(KeyOf(w, i))
        BY <1>0, <1>1, <2>1, NotWriting DEF Writers
    <2>6. i \in 1 .. Len(read_set[w])
        <3>1. Len(read_set[w]) = 2
            BY <1>0, <1>1 DEF LInv, Places, Before, Reading
        <3> QED
            BY <1>5, <3>1
    <2>7. EntryOK(KeyOf(w, i), read_set[w][i].tid, read_set[w][i].val)
        BY <1>0, <2>6 DEF Fresh, FreshOf
    <2> QED
        BY <2>3, <2>4, <2>5, <2>7 DEF EntryOK
<1>6. ASSUME NEW i \in {1, 2}
      PROVE  CommittedView'[KeyOf(w, i)] = Overwrite(r(i), new(i).bytes, new(i).size)
    <2>1. KeyOf(w, i)' = KeyOf(w, i) /\ Target(w, i)' = Target(w, i)
        BY <1>1 DEF KeyOf, Keys, Target, Element, NewVal
    <2>2. CommittedView'[KeyOf(w, i)'] = Target(w, i)'
        BY <1>0, <1>1, <1>4, <1>6 DEF ViewOK, Decided
    <2> QED
        BY <2>1, <2>2 DEF Target, Element
<1>7. ASSUME NEW k \in Key, k /= KeyOf(w, 1), k /= KeyOf(w, 2)
      PROVE  CommittedView'[k] = CommittedView[k]
    <2>1. CASE \E v \in Worker : v /= w /\ pc[v] \in Decided /\ k \in Held(v)
        BY <1>0, <2>1, OthersView
    <2>2. CASE \A v \in Worker : v /= w /\ pc[v] \in Decided => k \notin Held(v)
        <3>1. Held(w)' = Held(w) /\ k \notin Held(w)
            BY <1>1, <1>4, <1>7 DEF Held, Keys
        <3>2. CommittedView'[k] = record'[k]
            BY <1>0, <2>2, <3>1, OthersView
        <3>3. CommittedView[k] = record[k]
            BY <1>0, <2>2, <3>1, OthersView
        <3> QED
            BY <1>1, <3>2, <3>3
    <2> QED
        BY <2>1, <2>2
<1>8. \A i \in {1, 2} :
         NewVal(w, i) = val[Wrap(IF i = 1 THEN amount[r(i)] - Moved(x) ELSE amount[r(i)] + Moved(x))]
    BY DEF NewVal
<1> DEFINE sd == Serial!Write(CommittedView[Key1(x)], Serial!Wrap(amount[CommittedView[Key1(x)]] - Moved(x)), write_val[w])
           sc == Serial!Write(CommittedView[Key2(x)], Serial!Wrap(amount[CommittedView[Key2(x)]] + Moved(x)), write_val[w])
<1>9. sd = CommittedView'[Key1(x)] /\ sc = CommittedView'[Key2(x)]
    <2>1. NewVal(w, 1) = val[Wrap(amount[r(1)] - Moved(x))]
        BY <1>8
    <2>2. NewVal(w, 2) = val[Wrap(amount[r(2)] + Moved(x))]
        BY <1>8
    <2>3. sd = Overwrite(r(1), new(1).bytes, new(1).size)
        BY <1>2, <1>5, <2>1, SerialData DEF Serial!Write
    <2>4. sc = Overwrite(r(2), new(2).bytes, new(2).size)
        BY <1>2, <1>5, <2>2, SerialData DEF Serial!Write
    <2> QED
        BY <1>2, <1>6, <2>3, <2>4
<1>10. CommittedView' = [CommittedView EXCEPT ![Key1(x)] = sd, ![Key2(x)] = sc]
    <2>1. CommittedView = [k \in Key |-> CommittedView[k]]
          /\ CommittedView' = [k \in Key |-> CommittedView'[k]]
        BY DEF CommittedView
    <2>2. \A k \in Key : CommittedView'[k] =
             IF k = Key2(x) THEN sc ELSE IF k = Key1(x) THEN sd ELSE CommittedView[k]
        BY <1>2, <1>7, <1>9
    <2> HIDE DEF sd, sc
    <2> QED
        BY <1>2, <2>1, <2>2
<1> QED
    BY <1>2, <1>3, <1>10, SerialData DEF Serial!Transfer

LEMMA ViewStutter == LInv /\ UNCHANGED vars => UNCHANGED <<CommittedView, Committed>>
<1> SUFFICES ASSUME LInv, UNCHANGED vars PROVE UNCHANGED <<CommittedView, Committed>>
    OBVIOUS
<1>1. /\ \A v \in Worker : Held(v)' = Held(v) /\ HeldIdx(v)' = HeldIdx(v)
      /\ \A v \in Worker : \A i : KeyOf(v, i)' = KeyOf(v, i) /\ Target(v, i)' = Target(v, i)
    BY DEF vars, tuples, local, Held, HeldIdx, KeyOf, Keys, Target, Element, NewVal
<1>2. cur' = cur /\ record' = record /\ pc' = pc /\ queued' = queued
    BY DEF vars, tuples
<1>3. ViewOK /\ ViewOK'
    BY LockStutter, ViewOf, ViewOfNext
<1>4. ASSUME NEW k \in Key PROVE CommittedView'[k] = CommittedView[k]
    <2>1. CASE \A v \in Worker : pc[v] \in Decided => k \notin Held(v)
        BY <1>1, <1>2, <1>3, <2>1 DEF ViewOK
    <2>2. ASSUME NEW v \in Worker, pc[v] \in Decided, k \in Held(v)
          PROVE  CommittedView'[k] = CommittedView[k]
        <3>1. PICK i \in HeldIdx(v) : k = KeyOf(v, i)
            BY <2>2, HeldKeys
        <3>2. CommittedView[KeyOf(v, i)] = Target(v, i)
            BY <1>3, <2>2 DEF ViewOK
        <3>3. CommittedView'[KeyOf(v, i)'] = Target(v, i)'
            BY <1>1, <1>2, <1>3, <2>2 DEF ViewOK
        <3> QED
            BY <1>1, <3>1, <3>2, <3>3
    <2> QED
        BY <2>1, <2>2
<1>5. CommittedView' = CommittedView
    BY <1>4 DEF CommittedView
<1>6. Committed' = Committed
    BY <1>2 DEF Committed
<1> QED
    BY <1>5, <1>6

\* Serializable (transaction.cc, transferWork): the transactions of all the
\* workers take effect one after the other, each at the instant at which its
\* validation succeeds, on the values that are then current.
THEOREM ImplementsSerialStore == ASSUME NumbersSuffice PROVE Spec => Serializable
<1>1. Init => Serial!Init
    <2> SUFFICES ASSUME Init PROVE Serial!Init
        OBVIOUS
    <2>1. LInv /\ \A w \in Worker : pc[w] = "idle"
        BY LockInit DEF Init
    <2>2. \A k \in Key : CommittedView[k] = record[k]
        BY <2>1 DEF CommittedView
    <2>3. CommittedView = [k \in Key |-> [Memory[k] EXCEPT ![0] = Letter, ![1] = 0]]
        BY <2>2 DEF CommittedView, Init
    <2>4. Committed = {}
        BY DEF Committed, Init
    <2> QED
        BY <2>3, <2>4 DEF Serial!Init
<1>2. TInv /\ [Next]_vars => [Serial!Next]_<<CommittedView, Committed>>
    <2> SUFFICES ASSUME TInv, [Next]_vars PROVE [Serial!Next]_<<CommittedView, Committed>>
        OBVIOUS
    <2>1. LInv
        BY DEF TInv
    <2>2. CASE UNCHANGED vars
        BY <2>1, <2>2, ViewStutter
    <2>3. ASSUME NEW w \in Worker, xactDequeue(w) \/ transferWork(w)
          PROVE  [Serial!Next]_<<CommittedView, Committed>>
        <3>1. CASE Validate(w) /\ idx[w] = 2
            <4>1. Serial!Transfer(cur[w], write_val[w])
                BY <3>1, LastValidation
            <4>2. cur[w] \in Xact /\ write_val[w] \in {write_val[v] : v \in Worker}
                BY <2>1, <3>1, CurrentKeys DEF Validate, Loop
            <4> QED
                BY <4>1, <4>2 DEF Serial!Next
        <3>2. CASE ~(Validate(w) /\ idx[w] = 2)
            BY <2>1, <2>3, <3>2, ViewKept, CommittedKept
        <3> QED
            BY <3>1, <3>2
    <2> QED
        BY <2>2, <2>3 DEF Next
<1> QED
    BY <1>1, <1>2, TidInvariance, PTL DEF Spec, Serializable, Serial!Spec, Serial!serialVars
=============================================================================
