-------------------------------- MODULE Silo --------------------------------
(***************************************************************************)
(* Silo, the optimistic transaction layer of the raft-silo build           *)
(* (src/silo/transaction.cc).  A worker thread reads its records without   *)
(* locks, then locks what it writes, validates that nothing it read has    *)
(* changed, and writes.  What it has read is identified by the TID word of *)
(* the record, which also holds the lock bit.  All accesses to shared      *)
(* words interleave: one action is one load, store, compare-and-swap or    *)
(* copied byte.  transferWork is the whole transaction here; DB::commitWork*)
(* is empty.                                                               *)
(***************************************************************************)
EXTENDS Records, Sequences

CONSTANTS
    Xact, From, To, Diff,   \* the requests, as in Requests
    Worker,     \* the worker threads
    NoXact,     \* a worker without a request
    TIDS,       \* numbers in a TID word: 2^29
    write_val,  \* per worker: its thread id in decimal digits
    Letter,     \* the character a record is initialised with
    Memory      \* what the memory of the records held before

ASSUME SiloAssumption ==
    /\ From \in [Xact -> Key] /\ To \in [Xact -> Key] /\ Diff \in [Xact -> Int32]
    /\ NoXact \notin Xact
    /\ TIDS \in Nat /\ TIDS >= 2
    /\ write_val \in [Worker -> Record]
    /\ Letter \in 1 .. Base - 1
    /\ Memory \in [Key -> Record]

VARIABLES
    lock,       \* Tidword.lock of each record
    tid,        \* Tidword.epoch and Tidword.tid of each record, as one number
    record,     \* Tuple.val_
    queued,     \* the requests that no worker has taken yet
    pc, cur,    \* per worker: how far it is, and with which request
    idx,        \* the iterator over the read or the write set
    expected,   \* read: the TID word seen before the value
    return_val, \* read: the value copied
    read_set,   \* TID and value of the records read
    max_set,    \* the larger of max_rset_ and max_wset_
    mrctid,     \* mrctid_, the TID the worker has chosen last
    pos         \* writePhase: the bytes copied

tuples == <<lock, tid, record>>
local == <<expected, return_val, read_set, max_set, mrctid, pos>>
vars == <<tuples, queued, pc, cur, idx, local>>

-----------------------------------------------------------------------------
(* The request, sorted in place; unlike twopl.cc this also negates diff.   *)

Key1(x) == IF From[x] > To[x] THEN To[x] ELSE From[x]
Key2(x) == IF From[x] > To[x] THEN From[x] ELSE To[x]
Moved(x) == IF From[x] > To[x] THEN Wrap(-Diff[x]) ELSE Diff[x]

\* mutant: the write set is not sorted
KeysUnsorted(x) == <<From[x], To[x]>>

\* read set and write set hold the same two records in the same order
Keys(x) == <<Key1(x), Key2(x)>>

At(w) == Keys(cur[w])[idx[w]]

(* The number of a TID word.  The global epoch of the servers stays 1.     *)
FirstTid == TIDS

\* tid++ of a bit-field: it wraps around and leaves the epoch alone
Increment(t) == (t \div TIDS) * TIDS + ((t + 1) % TIDS)

Larger(s, t) == IF s > t THEN s ELSE t

\* mutant: the worker's own last TID is the only one that counts
CommitTidOwn(w) == Larger(Increment(mrctid[w]), FirstTid)

\* max({tid_a, tid_b, tid_c})
CommitTid(w) ==
    Larger(Increment(max_set[w]), Larger(Increment(mrctid[w]), FirstTid))

Init ==
    /\ lock = [k \in Key |-> FALSE]
    /\ tid = [k \in Key |-> FirstTid]
    /\ record = [k \in Key |-> [Memory[k] EXCEPT ![0] = Letter, ![1] = 0]]
    /\ queued = Xact
    /\ pc = [w \in Worker |-> "idle"]
    /\ cur = [w \in Worker |-> NoXact]
    /\ idx = [w \in Worker |-> 1]
    /\ expected = [w \in Worker |-> 0]
    /\ return_val = [w \in Worker |-> [i \in Place |-> 0]]
    /\ read_set = [w \in Worker |-> <<>>]
    /\ max_set = [w \in Worker |-> 0]
    /\ mrctid = [w \in Worker |-> 0]
    /\ pos = [w \in Worker |-> 0]

Goto(w, p) == pc' = [pc EXCEPT ![w] = p]

Step(w, p, q) == pc[w] = p /\ Goto(w, q)

Point(w, i) == idx' = [idx EXCEPT ![w] = i]

\* one round of a loop over the two elements of a set: after the first the
\* second, after the second on to q
Loop(w, p, again, q) ==
    /\ pc[w] = p
    /\ \/ idx[w] = 1 /\ Point(w, 2) /\ Goto(w, again)
       \/ idx[w] = 2 /\ Point(w, 1) /\ Goto(w, q)

-----------------------------------------------------------------------------
(* Raft::worker and the beginning of transferWork                          *)

xactDequeue(w) ==
    /\ Step(w, "idle", "begin")
    /\ \E x \in queued :
          /\ queued' = queued \ {x}
          /\ cur' = [cur EXCEPT ![w] = x]
    /\ UNCHANGED <<tuples, idx, local>>

\* assert(req.from != req.to)
AssertFails(w) ==
    /\ Step(w, "begin", "failed")
    /\ From[cur[w]] = To[cur[w]]
    /\ UNCHANGED <<tuples, queued, cur, idx, local>>

begin(w) ==
    /\ Step(w, "begin", "load")
    /\ From[cur[w]] /= To[cur[w]]
    /\ max_set' = [max_set EXCEPT ![w] = 0]
    /\ UNCHANGED <<tuples, queued, cur, idx, expected, return_val, read_set, mrctid, pos>>

-----------------------------------------------------------------------------
(* read: of the first record, then of the second                           *)

\* spins while the record is locked
LoadTid(w) ==
    /\ Step(w, "load", "read")
    /\ ~lock[At(w)]
    /\ expected' = [expected EXCEPT ![w] = tid[At(w)]]
    /\ UNCHANGED <<tuples, queued, cur, idx, return_val, read_set, max_set, mrctid, pos>>

ReadVal(w) ==
    /\ Step(w, "read", "check")
    /\ return_val' = [return_val EXCEPT ![w] = record[At(w)]]
    /\ UNCHANGED <<tuples, queued, cur, idx, expected, read_set, max_set, mrctid, pos>>

\* mutant: the TID word is not looked at again
SameUnchecked(w) == TRUE

Same(w) == ~lock[At(w)] /\ tid[At(w)] = expected[w]

AddToReadSet(w) ==
    /\ Loop(w, "check", "load", "lock")
    /\ Same(w)
    /\ read_set' = [read_set EXCEPT
                       ![w] = Append(@, [tid |-> expected[w], val |-> return_val[w]])]
    /\ expected' = [expected EXCEPT ![w] = 0]
    /\ UNCHANGED <<tuples, queued, cur, return_val, max_set, mrctid, pos>>

\* expected = check, and once more
ReadAgain(w) ==
    /\ pc[w] = "check" /\ ~Same(w)
    /\ Goto(w, IF lock[At(w)] THEN "load" ELSE "read")
    /\ expected' = [expected EXCEPT ![w] = tid[At(w)]]
    /\ UNCHANGED <<tuples, queued, cur, idx, return_val, read_set, max_set, mrctid, pos>>

read(w) == LoadTid(w) \/ ReadVal(w) \/ AddToReadSet(w) \/ ReadAgain(w)

-----------------------------------------------------------------------------
(* validationPhase: lock the write set, then look at the read set again    *)

\* mutant: the sets are not cleared
abortUncleared(w) ==
    /\ Goto(w, "begin") /\ Point(w, 1)
    /\ UNCHANGED read_set

\* abort(): clear the sets; the worker will call transferWork again
abort(w) ==
    /\ Goto(w, "begin") /\ Point(w, 1)
    /\ read_set' = [read_set EXCEPT ![w] = <<>>]

\* the loaded word is unlocked and compare-and-swap finds it unchanged
LockRecord(w) ==
    /\ Loop(w, "lock", "lock", "validate")
    /\ ~lock[At(w)]
    /\ lock' = [lock EXCEPT ![At(w)] = TRUE]
    /\ max_set' = [max_set EXCEPT ![w] = Larger(@, tid[At(w)])]
    /\ UNCHANGED <<tid, record, queued, cur, expected, return_val, read_set, mrctid, pos>>

\* mutant: the record locked first stays locked
LockBusyLeaking(w) ==
    /\ pc[w] = "lock" /\ lock[At(w)]
    /\ abort(w)
    /\ UNCHANGED <<tuples, queued, cur, expected, return_val, max_set, mrctid, pos>>

\* NO_WAIT_LOCKING_IN_VALIDATION: give back what has been locked, and give up
LockBusy(w) ==
    /\ pc[w] = "lock" /\ lock[At(w)]
    /\ \/ idx[w] = 1 /\ abort(w)
       \/ idx[w] = 2 /\ Goto(w, "unlockFirst") /\ Point(w, 1) /\ UNCHANGED read_set
    /\ UNCHANGED <<tuples, queued, cur, expected, return_val, max_set, mrctid, pos>>

\* mutant: the TID of the record is not compared with the one read
UnchangedAssumed(w) == TRUE

\* A record locked by another worker would also fail, but every record read
\* is in the write set and locked by this worker.
Unchanged(w) == tid[At(w)] = read_set[w][idx[w]].tid

Validate(w) ==
    /\ Loop(w, "validate", "validate", "commit")
    /\ Unchanged(w)
    /\ max_set' = [max_set EXCEPT ![w] = Larger(@, tid[At(w)])]
    /\ UNCHANGED <<tuples, queued, cur, expected, return_val, read_set, mrctid, pos>>

ValidateFails(w) ==
    /\ Step(w, "validate", "unlockAll")
    /\ ~Unchanged(w)
    /\ Point(w, 1)
    /\ UNCHANGED <<tuples, queued, cur, local>>

unlockWriteSet(w) ==
    /\ pc[w] \in {"unlockFirst", "unlockAll"}
    /\ lock' = [lock EXCEPT ![At(w)] = FALSE]
    /\ IF pc[w] = "unlockAll" /\ idx[w] = 1
       THEN Point(w, 2) /\ UNCHANGED <<pc, read_set>>
       ELSE abort(w)
    /\ UNCHANGED <<tid, record, queued, cur, expected, return_val, max_set, mrctid, pos>>

validationPhase(w) ==
    \/ LockRecord(w) \/ LockBusy(w) \/ Validate(w) \/ ValidateFails(w)
    \/ unlockWriteSet(w)

-----------------------------------------------------------------------------
(* writePhase                                                              *)

ChooseTid(w) ==
    /\ Step(w, "commit", "copy")
    /\ mrctid' = [mrctid EXCEPT ![w] = CommitTid(w)]
    /\ UNCHANGED <<tuples, queued, cur, idx, expected, return_val, read_set, max_set, pos>>

\* from.amount -= diff, to.amount += diff
NewVal(w, i) ==
    LET old == amount[read_set[w][i].val]
    IN  val[Wrap(IF i = 1 THEN old - Moved(cur[w]) ELSE old + Moved(cur[w]))]

Element(w, i) == Source(NewVal(w, i), write_val[w])

CopyByte(w) ==
    LET e == Element(w, idx[w])
    IN  /\ pc[w] = "copy" /\ pos[w] < e.size
        /\ record' = [record EXCEPT ![At(w)][pos[w]] = e.bytes[pos[w]]]
        /\ pos' = [pos EXCEPT ![w] = @ + 1]
        /\ UNCHANGED <<lock, tid, queued, pc, cur, idx, expected, return_val, read_set, max_set, mrctid>>

\* update and unlock; after the second record transferWork returns true
StoreTid(w) ==
    /\ Loop(w, "copy", "copy", "idle")
    /\ pos[w] = Element(w, idx[w]).size
    /\ tid' = [tid EXCEPT ![At(w)] = mrctid[w]]
    /\ lock' = [lock EXCEPT ![At(w)] = FALSE]
    /\ pos' = [pos EXCEPT ![w] = 0]
    /\ IF idx[w] = 2
       THEN /\ read_set' = [read_set EXCEPT ![w] = <<>>]
            /\ cur' = [cur EXCEPT ![w] = NoXact]
       ELSE UNCHANGED <<read_set, cur>>
    /\ UNCHANGED <<record, queued, expected, return_val, max_set, mrctid>>

\* A value without a zero byte is followed by whatever comes after it on the
\* stack.  Up to the padding of the tuple this does no harm (StoreTid); from
\* there on the TID words of other tuples are overwritten.  What happens then
\* is undefined, and nothing is claimed about it: the model stops.
Overrun(w) ==
    /\ Step(w, "copy", "overrun")
    /\ strlen[NewVal(w, idx[w])] = VAL_SIZE
    /\ pos[w] = VAL_SIZE
    /\ UNCHANGED <<tuples, queued, cur, idx, local>>

writePhase(w) == ChooseTid(w) \/ CopyByte(w) \/ StoreTid(w) \/ Overrun(w)

-----------------------------------------------------------------------------
transferWork(w) ==
    AssertFails(w) \/ begin(w) \/ read(w) \/ validationPhase(w) \/ writePhase(w)

Running == \A w \in Worker : pc[w] \notin {"failed", "overrun"}

Next == Running /\ \E w \in Worker : xactDequeue(w) \/ transferWork(w)

Spec == Init /\ [][Next]_vars

\* Every thread that is not waiting for input is scheduled.
FairSpec == Spec /\ \A w \in Worker : WF_vars(Running /\ (xactDequeue(w) \/ transferWork(w)))

-----------------------------------------------------------------------------
(* Properties *)

Pc == {"idle", "begin", "failed", "load", "read", "check", "lock", "validate",
       "unlockFirst", "unlockAll", "commit", "copy", "overrun"}

\* Every variable holds what its C++ counterpart can hold; in particular the
\* read set of a transaction has one element for each record read.
TypeOK ==
    /\ lock \in [Key -> BOOLEAN] /\ tid \in [Key -> Nat] /\ record \in [Key -> Record]
    /\ queued \subseteq Xact
    /\ pc \in [Worker -> Pc] /\ cur \in [Worker -> Xact \cup {NoXact}]
    /\ idx \in [Worker -> 1 .. 2] /\ pos \in [Worker -> 0 .. VAL_SIZE]
    /\ expected \in [Worker -> Nat] /\ return_val \in [Worker -> Record]
    /\ max_set \in [Worker -> Nat] /\ mrctid \in [Worker -> Nat]
    /\ \A w \in Worker :
          /\ read_set[w] \in Seq([tid : Nat, val : Record])
          /\ Len(read_set[w]) <= 2
    /\ DOMAIN read_set = Worker

\* the elements of its write set that a worker has locked
HeldIdx(w) ==
    CASE pc[w] = "lock"        -> {i \in 1 .. 2 : i < idx[w]}
      [] pc[w] = "unlockFirst" -> {1}
      [] pc[w] \in {"validate", "commit"} -> 1 .. 2
      [] pc[w] \in {"unlockAll", "copy", "overrun"} -> {i \in 1 .. 2 : i >= idx[w]}
      [] OTHER                 -> {}

Held(w) == {Keys(cur[w])[i] : i \in HeldIdx(w)}

\* A TID word has a lock bit and no owner.  Still, through aborts after the
\* first lock, after the second and after validation, a record is locked
\* exactly while one worker has it locked.
LockDiscipline ==
    /\ {k \in Key : lock[k]} = UNION {Held(w) : w \in Worker}
    /\ \A v, w \in Worker : v /= w => Held(v) \cap Held(w) = {}

\* What a worker has read is identified by the TID: as long as the record
\* still has the TID and nobody is writing it, it has the value read, however
\* many transactions have started or aborted on it since; and two workers
\* that have read one TID of one record have read one value.
TidNamesValue ==
    \A w \in Worker : \A i \in 1 .. Len(read_set[w]) :
        LET k == Keys(cur[w])[i]
        IN  /\ tid[k] = read_set[w][i].tid /\ ~lock[k]
                  => record[k] = read_set[w][i].val
            /\ \A v \in Worker : \A j \in 1 .. Len(read_set[v]) :
                  Keys(cur[v])[j] = k /\ read_set[v][j].tid = read_set[w][i].tid
                      => read_set[v][j].val = read_set[w][i].val

\* transaction.cc, writePhase: the TID chosen is "(a) larger than the TID of
\* any record read or written by the transaction, (b) larger than the
\* worker's most recently chosen TID".
CommitTidLarger ==
    [][\A w \in Worker : ChooseTid(w) =>
          /\ mrctid'[w] > mrctid[w]
          /\ \A i \in 1 .. 2 : mrctid'[w] > tid[Keys(cur[w])[i]]]_vars

\* the records as the transactions that have passed validation leave them
CommittedView ==
    [k \in Key |->
        IF \E w \in Worker : pc[w] \in {"commit", "copy", "overrun"} /\ k \in Held(w)
        THEN LET w == CHOOSE w \in Worker :
                         pc[w] \in {"commit", "copy", "overrun"} /\ k \in Held(w)
                 i == CHOOSE i \in HeldIdx(w) : Keys(cur[w])[i] = k
                 e == Element(w, i)
             IN  Overwrite(read_set[w][i].val, e.bytes, e.size)
        ELSE record[k]]

Committed ==
    {x \in Xact \ queued :
        \A w \in Worker : cur[w] = x => pc[w] \in {"commit", "copy", "overrun"}}

\* Serializability: every transaction takes effect at one instant, the one
\* at which its validation succeeds, on the values that are then current.
Serial == INSTANCE SerialStore WITH
    Debit <- [x \in Xact |-> Key1(x)], Credit <- [x \in Xact |-> Key2(x)],
    Amount <- [x \in Xact |-> Moved(x)], Fixed <- {write_val[w] : w \in Worker},
    InitRecord <- [k \in Key |-> [Memory[k] EXCEPT ![0] = Letter, ![1] = 0]],
    store <- CommittedView, applied <- Committed

Serializable == Serial!Spec

\* Optimistic workers abort each other, but never all of them for ever: each
\* request of a finite supply is committed in the end.
EventuallyCommitted == \A x \in Xact : <>(x \in Committed)

\* README.md: an input line is "source ID, destination ID, amount".  When all
\* requests are through, every record has lost what left it as a source and
\* gained what reached it as a destination.
BalancesAsRequested ==
    (queued = {} /\ \A w \in Worker : pc[w] = "idle") =>
        \A k \in Key :
            amount[record[k]] = Wrap(amount[[Memory[k] EXCEPT ![0] = Letter, ![1] = 0]]
                - MapThenSumSet(LAMBDA x : Diff[x], {x \in Xact : From[x] = k})
                + MapThenSumSet(LAMBDA x : Diff[x], {x \in Xact : To[x] = k}))
=============================================================================
