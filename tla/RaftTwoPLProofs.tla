-------------------------- MODULE RaftTwoPLProofs ---------------------------
(***************************************************************************)
(* Proofs about RaftTwoPL for every number of workers, followers and       *)
(* clients, every set of requests and every capacity of a batch.  First    *)
(* the leader implements its two parts, Replication and TwoPL, and through *)
(* TwoPL the Bank; what is proved of them in ReplicationProofs and         *)
(* TwoPLProofs then holds here, and is called Known.  Second the           *)
(* properties of the composition itself: what the threads hand to each     *)
(* other, the order of the logs, the store behind the logs, and what the   *)
(* clients are told.                                                       *)
(***************************************************************************)
EXTENDS RaftTwoPL, SequenceTheorems, FiniteSetTheorems, TLAPS

\* the components with what is proved about them
EP == INSTANCE TwoPLProofs
RP == INSTANCE ReplicationProofs

-----------------------------------------------------------------------------
(* The assumptions of the components hold *)

LEMMA ReplicationAssumed == RP!ReplicationAssumption
<1>1. ASSUME NEW b \in Batch PROVE b \in Seq(Xact) /\ b /= <<>>
  <2>1. PICK n \in 1 .. MAX_GROUP_ENTRY : b \in [1 .. n -> Xact]
    BY ComponentsAssumption
  <2>2. n \in Nat /\ n >= 1
    BY <2>1, RaftTwoPLAssumption
  <2> QED
    BY <2>1, <2>2
<1> QED
  BY <1>1, ComponentsAssumption DEF RP!ReplicationAssumption

LEMMA TwoPLAssumed ==
    EP!DataAssumption /\ EP!RequestsAssumption /\ EP!InitValueAssumption
  BY ComponentsAssumption
  DEF EP!DataAssumption, EP!RequestsAssumption, EP!InitValueAssumption, EP!Int32

-----------------------------------------------------------------------------
(* The queues of the leader *)

\* What the threads of the leader hold between them; a worker that has a
\* request in hand has room for it in its batch.
Queues ==
    /\ producing \in [Client -> Seq(Xact)]
    /\ xactQ \in [Worker -> Seq(Xact)]
    /\ cur \in [Worker -> Xact \cup {None}]
    /\ logBuffer \in [Worker -> Seq(Xact)]
    /\ \A w \in Worker :
          /\ Len(logBuffer[w]) <= MAX_GROUP_ENTRY
          /\ cur[w] /= None => Len(logBuffer[w]) < MAX_GROUP_ENTRY

LEMMA CapacityIsNat ==
    MAX_CLI_REQ \in Nat /\ MAX_GROUP_ENTRY \in Nat /\ MAX_GROUP_ENTRY >= 1
  BY RaftTwoPLAssumption

\* A batch that is flushed is one that Replication takes.
LEMMA BufferIsBatch ==
    ASSUME Queues, NEW w \in Worker, logBuffer[w] /= <<>>
    PROVE  logBuffer[w] \in Batch
<1>1. /\ logBuffer[w] \in Seq(Xact) /\ Len(logBuffer[w]) \in Nat
      /\ Len(logBuffer[w]) <= MAX_GROUP_ENTRY
  BY DEF Queues
<1>2. Len(logBuffer[w]) >= 1
  BY <1>1
<1>3. Len(logBuffer[w]) \in 1 .. MAX_GROUP_ENTRY
  BY <1>1, <1>2, CapacityIsNat
<1>4. logBuffer[w] \in [1 .. Len(logBuffer[w]) -> Xact]
  BY <1>1
<1> QED
  BY <1>3, <1>4, ComponentsAssumption

LEMMA QueuesInit == Init => Queues
<1> SUFFICES ASSUME Init PROVE Queues
  OBVIOUS
<1>1. Len(<<>>) = 0
  OBVIOUS
<1> QED
  BY <1>1, CapacityIsNat DEF Init, Queues

LEMMA QueuesKept == Queues /\ [Next]_vars => Queues'
<1> SUFFICES ASSUME Queues, [Next]_vars PROVE Queues'
  OBVIOUS
<1> USE DEF Queues
<1>1. ASSUME NEW c \in Client, sendCommand(c) PROVE Queues'
  <2>1. Command[c][commandId[c]] \in [1 .. MAX_CLI_REQ -> Xact]
    BY <1>1, RaftTwoPLAssumption DEF sendCommand
  <2>2. Command[c][commandId[c]] \in Seq(Xact)
    BY <2>1, CapacityIsNat
  <2> QED
    BY <1>1, <2>2 DEF sendCommand, workerVars
<1>2. ASSUME NEW c \in Client, producer(c) PROVE Queues'
  <2>1. /\ producing[c] \in Seq(Xact) /\ producing[c] /= <<>>
        /\ WorkerOf[c] \in Worker /\ xactQ[WorkerOf[c]] \in Seq(Xact)
    BY <1>2, RaftTwoPLAssumption DEF producer
  <2>2. /\ Head(producing[c]) \in Xact /\ Tail(producing[c]) \in Seq(Xact)
        /\ Append(xactQ[WorkerOf[c]], Head(producing[c])) \in Seq(Xact)
    BY <2>1
  <2> QED
    BY <1>2, <2>1, <2>2 DEF producer, xactEnqueue, workerVars
<1>3. ASSUME NEW c \in Client, recvCommit(c) PROVE Queues'
  BY <1>3 DEF recvCommit, workerVars
<1>4. ASSUME NEW w \in Worker, xactDequeue(w) PROVE Queues'
  <2>1. Head(xactQ[w]) \in Xact /\ Tail(xactQ[w]) \in Seq(Xact)
    BY <1>4 DEF xactDequeue
  <2> QED
    BY <1>4, <2>1 DEF xactDequeue
<1>5. ASSUME NEW w \in Worker, acquire(w) PROVE Queues'
  <2>1. /\ cur[w] \in Xact /\ logBuffer[w] \in Seq(Xact)
        /\ Len(logBuffer[w]) \in Nat /\ Len(logBuffer[w]) < MAX_GROUP_ENTRY
    BY <1>5 DEF acquire
  <2>2. /\ Append(logBuffer[w], cur[w]) \in Seq(Xact)
        /\ Len(Append(logBuffer[w], cur[w])) = Len(logBuffer[w]) + 1
    BY <2>1
  <2>3. Len(Append(logBuffer[w], cur[w])) <= MAX_GROUP_ENTRY
    BY <2>1, <2>2, CapacityIsNat
  <2> QED
    BY <1>5, <2>2, <2>3 DEF acquire
<1>6. ASSUME NEW w \in Worker, flush(w) PROVE Queues'
  <2>1. Len(<<>>) = 0 /\ <<>> \in Seq(Xact)
    OBVIOUS
  <2> QED
    BY <1>6, <2>1, CapacityIsNat DEF flush
<1>7. ASSUME NEW w \in Worker, tryLock(w) \/ sendBatch(w) PROVE Queues'
  BY <1>7 DEF tryLock, sendBatch, workerVars
<1>8. ASSUME NEW w \in Worker, NEW f \in Follower, logReceiver(w, f) \/ notifier(w, f)
      PROVE  Queues'
  BY <1>8 DEF logReceiver, notifier, countAck, commitWork, notifyClient, workerVars
<1>9. CASE UNCHANGED vars
  BY <1>9 DEF vars, workerVars
<1> QED
  BY <1>1, <1>2, <1>3, <1>4, <1>5, <1>6, <1>7, <1>8, <1>9 DEF Next, client, worker
-----------------------------------------------------------------------------
(* The leader implements Replication *)

\* A step of the leader is a step of Replication or leaves its state alone.
LEMMA ReplicationStep ==
    ASSUME Queues, Next
    PROVE  \/ \E w \in Worker : R!getLogSequenceNumber(w, logBuffer[w]) /\ flush(w)
           \/ \E w \in Worker : R!flush(w) /\ sendBatch(w)
           \/ \E w \in Worker, f \in Follower : R!logReceiver(w, f) \/ R!notifier(w, f)
           \/ UNCHANGED repVars
<1>1. ASSUME NEW c \in Client, client(c) PROVE UNCHANGED repVars
  BY <1>1 DEF client, sendCommand, producer, recvCommit
<1>2. ASSUME NEW w \in Worker, xactDequeue(w) \/ tryLock(w) \/ acquire(w)
      PROVE  UNCHANGED repVars
  BY <1>2 DEF xactDequeue, tryLock, acquire
<1>3. ASSUME NEW w \in Worker, flush(w) PROVE R!getLogSequenceNumber(w, logBuffer[w])
  BY <1>3 DEF flush
<1>4. ASSUME NEW w \in Worker, sendBatch(w) PROVE R!flush(w)
  BY <1>4 DEF sendBatch
<1>5. ASSUME NEW w \in Worker, NEW f \in Follower, logReceiver(w, f) \/ notifier(w, f)
      PROVE  R!logReceiver(w, f) \/ R!notifier(w, f) \/ UNCHANGED repVars
  BY <1>5 DEF logReceiver, notifier, countAck, commitWork, notifyClient, R!notifier
<1> QED
  BY <1>1, <1>2, <1>3, <1>4, <1>5 DEF Next, worker

\* The leader implements Replication (raft.cc, worker and notifier): it forms
\* its batches of requests whose keys are locked, and whatever Replication
\* promises of all batches holds of these.
THEOREM ImplementsReplication == Spec => R!Spec
<1>1. Init => R!Init
  BY DEF Init
<1>2. Queues /\ [Next]_vars => [R!Next]_(R!vars)
  <2> SUFFICES ASSUME Queues, [Next]_vars PROVE R!Next \/ UNCHANGED R!vars
    OBVIOUS
  <2>1. UNCHANGED repVars => UNCHANGED R!vars
    BY DEF repVars, R!vars, R!workerVars, R!followerVars, R!notifierVars
  <2>2. UNCHANGED vars => UNCHANGED repVars
    BY DEF vars
  <2>3. ASSUME NEW w \in Worker, R!getLogSequenceNumber(w, logBuffer[w]) /\ flush(w)
        PROVE  R!Next
    <3>1. logBuffer[w] \in Batch
      BY <2>3, BufferIsBatch DEF flush, FlushDue
    <3> QED
      BY <2>3, <3>1 DEF R!Next
  <2>4. ASSUME NEW w \in Worker, R!flush(w) PROVE R!Next
    BY <2>4 DEF R!Next
  <2>5. ASSUME NEW w \in Worker, NEW f \in Follower, R!logReceiver(w, f) \/ R!notifier(w, f)
        PROVE  R!Next
    BY <2>5 DEF R!Next, Follower, R!Follower
  <2> QED
    BY <2>1, <2>2, <2>3, <2>4, <2>5, ReplicationStep
<1> QED
  BY <1>1, <1>2, QueuesInit, QueuesKept, PTL DEF Spec, R!Spec

LEMMA SameReplication ==
    /\ R!Init => RP!Init
    /\ [R!Next]_(R!vars) => [RP!Next]_(RP!vars)
<1>1. R!Init => RP!Init
  BY DEF R!Init, RP!Init, R!PerFollower, RP!PerFollower, R!Lsn, RP!Lsn, R!Follower,
         RP!Follower
<1>2. UNCHANGED R!vars => UNCHANGED RP!vars
  BY DEF R!vars, RP!vars, R!workerVars, RP!workerVars, R!followerVars, RP!followerVars,
         R!notifierVars, RP!notifierVars
<1> USE DEF R!workerVars, RP!workerVars, R!followerVars, RP!followerVars,
            R!notifierVars, RP!notifierVars
<1>3. ASSUME NEW w \in Worker, NEW b \in Batch, R!getLogSequenceNumber(w, b)
      PROVE  RP!getLogSequenceNumber(w, b)
  BY <1>3 DEF R!getLogSequenceNumber, RP!getLogSequenceNumber, R!arpcByFields,
              RP!arpcByFields
<1>4. ASSUME NEW w \in Worker, R!flush(w) PROVE RP!flush(w)
  <2>1. R!addEntry(w) => RP!addEntry(w)
    BY DEF R!addEntry, RP!addEntry
  <2>2. R!sendRPC(w) => RP!sendRPC(w)
    BY DEF R!sendRPC, RP!sendRPC
  <2>3. R!taskStore(w) => RP!taskStore(w)
    BY DEF R!taskStore, RP!taskStore
  <2> QED
    BY <1>4, <2>1, <2>2, <2>3 DEF R!flush, RP!flush
<1>5. ASSUME NEW w, NEW f, R!logReceiver(w, f) PROVE RP!logReceiver(w, f)
  <2>1. R!followerAddEntry(w, f) => RP!followerAddEntry(w, f)
    BY DEF R!followerAddEntry, RP!followerAddEntry
  <2>2. R!sendAck(w, f) => RP!sendAck(w, f)
    BY DEF R!sendAck, RP!sendAck, R!raeByFields, RP!raeByFields
  <2> QED
    BY <1>5, <2>1, <2>2 DEF R!logReceiver, RP!logReceiver
<1>6. ASSUME NEW w, NEW f, R!notifier(w, f) PROVE RP!notifier(w, f)
  <2>1. R!addVoteCount(w, f) => RP!addVoteCount(w, f)
    BY DEF R!addVoteCount, RP!addVoteCount, R!clusterSize, RP!clusterSize
  <2>2. R!TaskFound(w, f) => RP!TaskFound(w, f)
    BY DEF R!TaskFound, RP!TaskFound, R!TasksFor, RP!TasksFor
  <2>3. R!TaskNotFound(w, f) => RP!TaskNotFound(w, f)
    BY DEF R!TaskNotFound, RP!TaskNotFound, R!TasksFor, RP!TasksFor
  <2>4. R!commitNext(w, f) => RP!commitNext(w, f)
    BY DEF R!commitNext, RP!commitNext
  <2> QED
    BY <1>6, <2>1, <2>2, <2>3, <2>4 DEF R!notifier, RP!notifier
<1>7. R!Next => RP!Next
  BY <1>3, <1>4, <1>5, <1>6 DEF R!Next, RP!Next, R!Follower, RP!Follower
<1> QED
  BY <1>1, <1>2, <1>7

LEMMA ReplicationInvariance == Spec => []RP!IInv
<1>1. RP!Spec => []RP!IInv
  BY ReplicationAssumed, RP!Invariance, PTL
<1>2. R!Spec => RP!Spec
  BY SameReplication, PTL DEF R!Spec, RP!Spec
<1> QED
  BY <1>1, <1>2, ImplementsReplication, PTL

LEMMA SameCardinality ==
    ASSUME NEW S
    PROVE  RP!Cardinality(S) = Cardinality(S) /\ R!Cardinality(S) = Cardinality(S)
  BY Zenon DEF RP!Cardinality, R!Cardinality, Cardinality

\* What is proved of Replication holds in every state of the leader.
Replicated == RP!IInv /\ RP!Durable /\ RP!VotesAreHolders

LEMMA ReplicatedAlways == Spec => []Replicated
<1>1. RP!Spec => []RP!IInv
  BY ReplicationAssumed, RP!Invariance, PTL
<1>2. RP!Spec => []RP!Durable
  BY ReplicationAssumed, RP!LoadedIsDurable, PTL
<1>3. RP!Spec => []RP!VotesAreHolders
  BY ReplicationAssumed, RP!VotesAreTrue, PTL
<1>4. R!Spec => RP!Spec
  BY SameReplication, PTL DEF R!Spec, RP!Spec
<1> QED
  BY <1>1, <1>2, <1>3, <1>4, ImplementsReplication, PTL DEF Replicated

\* WorkersInStep (raft.cc and status.cc, one counter and one array of votes for
\* all workers): with the batches that the leader forms, every number is used
\* once, copies are prefixes, votes are holders and each batch has one committer.
THEOREM StepTogether == Spec => []WorkersInStep
<1>1. Replicated => WorkersInStep
  <2> SUFFICES ASSUME Replicated PROVE WorkersInStep
    OBVIOUS
  <2> USE DEF Replicated, RP!IInv
  <2>1. R!LsnOrder
    BY DEF R!LsnOrder, RP!LsnOrder, R!LsnsOf, RP!LsnsOf
  <2>2. R!FollowerLogIsPrefix
    BY DEF R!FollowerLogIsPrefix, RP!FollowerLogIsPrefix, R!SentTo, RP!SentTo,
           R!Follower, RP!Follower
  <2>3. R!VotesAreHolders
    <3>1. ASSUME NEW w, NEW n PROVE R!Holders(w, n) = RP!Holders(w, n)
      BY DEF R!Holders, RP!Holders, R!LsnsOf, RP!LsnsOf, R!Follower, RP!Follower
    <3>2. ASSUME NEW w, NEW f PROVE R!Uncounted(w, f) = RP!Uncounted(w, f)
      BY DEF R!Uncounted, RP!Uncounted, R!raeByFields, RP!raeByFields
    <3>3. ASSUME NEW w, NEW n
          PROVE  {f \in R!Holders(w, n) : n \notin R!Uncounted(w, f)}
                    = {f \in RP!Holders(w, n) : n \notin RP!Uncounted(w, f)}
      BY <3>1, <3>2
    <3>4. ASSUME NEW w PROVE R!LsnsOf(wlog[w]) = RP!LsnsOf(wlog[w])
      BY DEF R!LsnsOf, RP!LsnsOf
    <3>5. ASSUME NEW w \in Worker, NEW n \in R!LsnsOf(wlog[w])
          PROVE  votes[n]
                    = R!Cardinality({f \in R!Holders(w, n) : n \notin R!Uncounted(w, f)})
      <4>1. votes[n]
               = RP!Cardinality({f \in RP!Holders(w, n) : n \notin RP!Uncounted(w, f)})
        BY <3>4 DEF RP!VotesAreHolders
      <4> QED
        BY <4>1, <3>3, SameCardinality, Zenon
    <3> QED
      BY <3>5, SameCardinality DEF R!VotesAreHolders
  <2>4. R!OneCommitter
    BY DEF R!OneCommitter, RP!OneCommitter, R!Loaded, RP!Loaded, R!Stored, RP!Stored,
           R!TasksFor, RP!TasksFor, R!LsnsOf, RP!LsnsOf, R!Follower, RP!Follower
  <2> QED
    BY <2>1, <2>2, <2>3, <2>4 DEF WorkersInStep
<1> QED
  BY <1>1, ReplicatedAlways, PTL

-----------------------------------------------------------------------------
(* The leader implements TwoPL *)

\* The request that a notifier commits is one of its task.
LEMMA HeadOfTodo ==
    ASSUME Replicated, NEW w \in Worker, NEW f \in Follower, npc[w][f] = "commit"
    PROVE  /\ todo[w][f] \in Seq(Xact) /\ todo[w][f] /= <<>>
           /\ Head(todo[w][f]) \in Xact
<1>1. todo[w][f] \in Seq(Xact) /\ todo[w][f] /= <<>>
  BY DEF Replicated, RP!IInv, RP!TypeOK, RP!Notifying, Follower, RP!Follower
<1> QED
  BY <1>1

\* A step of the leader is a step of one request or leaves the store alone.
LEMMA TwoPLStep ==
    ASSUME Queues, Replicated, Next
    PROVE  \/ \E w \in Worker : /\ cur[w] \in Xact
                                /\ tryLock(w) /\ E!transferWork(cur[w])
           \/ \E w \in Worker : /\ cur[w] \in Xact
                                /\ acquire(w) /\ E!LockTo(cur[w])
           \/ \E w \in Worker, f \in Follower :
                 /\ Head(todo[w][f]) \in Xact
                 /\ commitWork(w, f) /\ E!commitWork(Head(todo[w][f]))
           \/ UNCHANGED kvsVars
<1>1. ASSUME NEW c \in Client, client(c) PROVE UNCHANGED kvsVars
  BY <1>1 DEF client, sendCommand, producer, recvCommit
<1>2. ASSUME NEW w \in Worker, xactDequeue(w) \/ flush(w) \/ sendBatch(w)
      PROVE  UNCHANGED kvsVars
  BY <1>2 DEF xactDequeue, flush, sendBatch
<1>3. ASSUME NEW w \in Worker, tryLock(w)
      PROVE  cur[w] \in Xact /\ E!transferWork(cur[w])
  BY <1>3 DEF tryLock, Queues, E!transferWork
<1>4. ASSUME NEW w \in Worker, acquire(w)
      PROVE  cur[w] \in Xact /\ E!LockTo(cur[w])
  BY <1>4 DEF acquire, Queues
<1>5. ASSUME NEW w \in Worker, NEW f \in Follower, commitWork(w, f)
      PROVE  Head(todo[w][f]) \in Xact /\ E!commitWork(Head(todo[w][f]))
  BY <1>5, HeadOfTodo DEF commitWork
<1>6. ASSUME NEW w \in Worker, NEW f \in Follower,
             logReceiver(w, f) \/ countAck(w, f) \/ notifyClient(w, f)
      PROVE  UNCHANGED kvsVars
  BY <1>6 DEF logReceiver, countAck, notifyClient
<1> QED
  BY <1>1, <1>2, <1>3, <1>4, <1>5, <1>6 DEF Next, worker, notifier

\* The leader implements TwoPL (raft.cc, twopl.cc): requests are locked only by
\* transferWork and applied only by commitWork, one step at a time, although a
\* worker calls the one and a notifier of another thread the other.
THEOREM ImplementsTwoPL == Spec => E!Spec
<1>1. Init => E!Init
  BY DEF Init
<1>2. Queues /\ Replicated /\ [Next]_vars => [E!Next]_(E!vars)
  <2> SUFFICES ASSUME Queues, Replicated, [Next]_vars PROVE E!Next \/ UNCHANGED E!vars
    OBVIOUS
  <2>1. UNCHANGED kvsVars => UNCHANGED E!vars
    BY DEF kvsVars, E!vars
  <2>2. UNCHANGED vars => UNCHANGED kvsVars
    BY DEF vars
  <2>3. ASSUME NEW x \in Xact, Next, E!transferWork(x) \/ E!LockTo(x) \/ E!commitWork(x)
        PROVE  E!Next
    BY <2>3 DEF Next, E!Next, E!transferWork
  <2> QED
    BY <2>1, <2>2, <2>3, TwoPLStep
<1>3. Spec => []Queues
  BY QueuesInit, QueuesKept, PTL DEF Spec
<1> QED
  BY <1>1, <1>2, <1>3, ReplicatedAlways, PTL DEF Spec, E!Spec

LEMMA SameTwoPL == (E!Init => EP!Init) /\ ([E!Next]_(E!vars) => [EP!Next]_(EP!vars))
<1> USE DEF E!kvsVars, EP!kvsVars, E!Step, EP!Step, E!lock, EP!lock, E!busy, EP!busy,
            E!unlock, EP!unlock, E!index_read, EP!index_read, E!index_update,
            EP!index_update, E!Lo, EP!Lo, E!Hi, EP!Hi, E!Sorted, EP!Sorted, E!Wrap,
            EP!Wrap, E!Modulus, EP!Modulus
<1>1. E!Init => EP!Init
  BY DEF E!Init, EP!Init, E!KVSInit, EP!KVSInit
<1>2. UNCHANGED E!vars => UNCHANGED EP!vars
  BY DEF E!vars, EP!vars
<1>3. ASSUME NEW x \in Xact, E!transferWork(x) PROVE EP!transferWork(x)
  <2>1. E!AssertFails(x) => EP!AssertFails(x)
    BY DEF E!AssertFails, EP!AssertFails
  <2>2. E!LockFrom(x) => EP!LockFrom(x)
    BY DEF E!LockFrom, EP!LockFrom
  <2>3. E!LockTo(x) => EP!LockTo(x)
    BY DEF E!LockTo, EP!LockTo
  <2>4. E!LockToBusy(x) => EP!LockToBusy(x)
    BY DEF E!LockToBusy, EP!LockToBusy
  <2>5. E!Release(x) => EP!Release(x)
    BY DEF E!Release, EP!Release
  <2> QED
    BY <1>3, <2>1, <2>2, <2>3, <2>4, <2>5 DEF E!transferWork, EP!transferWork
<1>4. ASSUME NEW x \in Xact, E!commitWork(x) PROVE EP!commitWork(x)
  <2>1. E!ReadFrom(x) => EP!ReadFrom(x)
    BY DEF E!ReadFrom, EP!ReadFrom
  <2>2. E!ReadTo(x) => EP!ReadTo(x)
    BY DEF E!ReadTo, EP!ReadTo
  <2>3. E!UpdateFrom(x) => EP!UpdateFrom(x)
    BY DEF E!UpdateFrom, EP!UpdateFrom
  <2>4. E!UpdateTo(x) => EP!UpdateTo(x)
    BY DEF E!UpdateTo, EP!UpdateTo
  <2>5. E!UnlockFrom(x) => EP!UnlockFrom(x)
    BY DEF E!UnlockFrom, EP!UnlockFrom
  <2>6. E!UnlockTo(x) => EP!UnlockTo(x)
    BY DEF E!UnlockTo, EP!UnlockTo
  <2> QED
    BY <1>4, <2>1, <2>2, <2>3, <2>4, <2>5, <2>6 DEF E!commitWork, EP!commitWork
<1>5. E!Next => EP!Next
  BY <1>3, <1>4 DEF E!Next, EP!Next, E!Running, EP!Running
<1> QED
  BY <1>1, <1>2, <1>5

\* What is proved of TwoPL holds in every state of the leader.
LEMMA LockedAlways == Spec => []EP!IInv
<1>1. EP!Spec => []EP!IInv
  BY TwoPLAssumed, EP!Invariance, PTL
<1>2. E!Spec => EP!Spec
  BY SameTwoPL, PTL DEF E!Spec, EP!Spec
<1> QED
  BY <1>1, <1>2, ImplementsTwoPL, PTL

LEMMA SameView ==
    /\ \A x : E!Lo(x) = EP!Lo(x) /\ E!Hi(x) = EP!Hi(x)
    /\ E!CommittedView = EP!CommittedView /\ E!Applied = EP!Applied
    /\ E!CommittedView' = EP!CommittedView' /\ E!Applied' = EP!Applied'
<1>1. \A x : E!Lo(x) = EP!Lo(x) /\ E!Hi(x) = EP!Hi(x)
  BY DEF E!Lo, EP!Lo, E!Hi, EP!Hi, E!Sorted, EP!Sorted
<1> USE DEF E!CommittedView, EP!CommittedView, E!Lo, EP!Lo, E!Sorted, EP!Sorted
<1>2. E!CommittedView = EP!CommittedView
  BY Zenon
<1>3. E!CommittedView' = EP!CommittedView'
  BY Zenon
<1>4. E!Applied = EP!Applied /\ E!Applied' = EP!Applied'
  BY DEF E!Applied, EP!Applied
<1> QED
  BY <1>1, <1>2, <1>3, <1>4

\* What the clients get is Bank: through queues, batches, logs and notifiers,
\* every transfer takes effect at one instant, at most once, on the balances
\* that the transfers before it have left.
THEOREM ImplementsBank == Spec => E!ImplementsBank
<1>1. EP!Spec => EP!ImplementsBank
  BY TwoPLAssumed, EP!Refinement, PTL
<1>2. E!Spec => EP!Spec
  BY SameTwoPL, PTL DEF E!Spec, EP!Spec
<1>3. EP!TheBank!Init => E!TheBank!Init
  BY SameView DEF EP!TheBank!Init, E!TheBank!Init
<1>4. [EP!TheBank!Next]_(EP!TheBank!bankVars) => [E!TheBank!Next]_(E!TheBank!bankVars)
  <2>1. UNCHANGED EP!TheBank!bankVars => UNCHANGED E!TheBank!bankVars
    BY SameView DEF EP!TheBank!bankVars, E!TheBank!bankVars
  <2>2. ASSUME NEW x \in Xact, EP!TheBank!Transfer(x) PROVE E!TheBank!Transfer(x)
    BY <2>2, SameView DEF EP!TheBank!Transfer, E!TheBank!Transfer,
       EP!TheBank!Wrap, E!TheBank!Wrap, EP!TheBank!Modulus, E!TheBank!Modulus
  <2>3. EP!TheBank!Next => E!TheBank!Next
    BY <2>2 DEF EP!TheBank!Next, E!TheBank!Next
  <2> QED
    BY <2>1, <2>3
<1>5. EP!ImplementsBank => E!ImplementsBank
  BY <1>3, <1>4, PTL
  DEF EP!ImplementsBank, E!ImplementsBank, EP!TheBank!Spec, E!TheBank!Spec
<1> QED
  BY <1>1, <1>2, <1>5, ImplementsTwoPL, PTL

-----------------------------------------------------------------------------
(* From one thread to the next: the batches with a number *)

\* What is known of the components in every state.
Known == Queues /\ Replicated /\ EP!IInv

LEMMA KnownAlways == Spec => []Known
<1>1. Spec => []Queues
  BY QueuesInit, QueuesKept, PTL DEF Spec
<1> QED
  BY <1>1, ReplicatedAlways, LockedAlways, PTL DEF Known

\* The batches that have drawn their number: the entries of the logs and those
\* that are about to be written.
Numbered == Entries \cup {packet[w] : w \in {v \in Worker : wpc[v] = "append"}}

PastLock == {"locked"} \cup Committing

\* A request is in one batch only, with a number or not yet.
BatchesApart ==
    /\ \A b \in Numbered : \A x \in RangeOf(b.xacts) : phase[x] \in PastLock
    /\ \A b1, b2 \in Numbered :
          \A x \in RangeOf(b1.xacts) : x \in RangeOf(b2.xacts) => b1 = b2
    /\ \A w \in Worker : \A x \in RangeOf(logBuffer[w]) :
          /\ phase[x] = "locked"
          /\ \A b \in Numbered : x \notin RangeOf(b.xacts)
          /\ \A v \in Worker : x \in RangeOf(logBuffer[v]) => v = w

\* What a notifier commits is what is left of the batch that was acknowledged.
CommitsOwn ==
    \A w \in Worker, f \in Follower :
        /\ npc[w][f] = "commit" =>
              \E e \in RangeOf(wlog[w]) :
                  /\ e.lsn = ack[w][f]
                  /\ RangeOf(todo[w][f]) \subseteq RangeOf(e.xacts)
        /\ npc[w][f] /= "commit" => todo[w][f] = <<>>

\* LogOrderIsCommitOrder for all batches with a number.
BatchOrder ==
    \A b1, b2 \in Numbered :
        \A x \in RangeOf(b1.xacts), y \in RangeOf(b2.xacts) :
            /\ x /= y /\ E!Conflict(x, y)
            /\ b1.lsn <= b2.lsn
            => x \in E!Applied /\ b1.lsn < b2.lsn

IInv ==
    /\ BatchesApart
    /\ CommitsOwn
    /\ LocksHandedOver
    /\ BatchOrder
    /\ AppliedIsReplicated

-----------------------------------------------------------------------------
(* Sequences *)

LEMMA RangeOfAppend ==
    ASSUME NEW S, NEW s \in Seq(S), NEW e \in S
    PROVE  RangeOf(Append(s, e)) = RangeOf(s) \cup {e}
<1>1. DOMAIN s = 1 .. Len(s) /\ DOMAIN Append(s, e) = 1 .. Len(s) + 1
  OBVIOUS
<1>2. \A i \in DOMAIN s : Append(s, e)[i] = s[i]
  OBVIOUS
<1>3. Append(s, e)[Len(s) + 1] = e /\ Len(s) \in Nat
  OBVIOUS
<1> QED
  BY <1>1, <1>2, <1>3 DEF RangeOf

LEMMA RangeOfTail ==
    ASSUME NEW S, NEW s \in Seq(S), s /= <<>>
    PROVE  /\ Head(s) \in RangeOf(s)
           /\ RangeOf(s) = {Head(s)} \cup RangeOf(Tail(s))
           /\ Len(s) = 1 => Tail(s) = <<>>
<1>1. /\ Len(s) \in Nat /\ Len(s) >= 1 /\ DOMAIN s = 1 .. Len(s) /\ Head(s) = s[1]
      /\ DOMAIN Tail(s) = 1 .. Len(s) - 1 /\ Tail(s) \in Seq(S)
      /\ Len(Tail(s)) = Len(s) - 1
  OBVIOUS
<1>2. \A i \in 1 .. Len(s) - 1 : Tail(s)[i] = s[i + 1]
  OBVIOUS
<1>3. ASSUME NEW x \in RangeOf(s) PROVE x \in {Head(s)} \cup RangeOf(Tail(s))
  <2>1. PICK i \in 1 .. Len(s) : x = s[i]
    BY <1>1, <1>3 DEF RangeOf
  <2>2. i \in Int /\ (i = 1 \/ i - 1 \in 1 .. Len(s) - 1) /\ (i - 1) + 1 = i
    BY <1>1, <2>1
  <2> QED
    BY <1>1, <1>2, <2>1, <2>2 DEF RangeOf
<1>4. ASSUME NEW x \in RangeOf(Tail(s)) PROVE x \in RangeOf(s)
  <2>1. PICK i \in 1 .. Len(s) - 1 : x = Tail(s)[i]
    BY <1>1, <1>4 DEF RangeOf
  <2>2. i + 1 \in 1 .. Len(s)
    BY <1>1, <2>1
  <2> QED
    BY <1>1, <1>2, <2>1, <2>2 DEF RangeOf
<1>5. Head(s) \in RangeOf(s)
  BY <1>1 DEF RangeOf
<1>6. Len(s) = 1 => Tail(s) = <<>>
  BY <1>1
<1> QED
  BY <1>3, <1>4, <1>5, <1>6

LEMMA RangeOfType == ASSUME NEW S, NEW s \in Seq(S) PROVE RangeOf(s) \subseteq S
  BY DEF RangeOf

LEMMA RangeOfEmpty == RangeOf(<<>>) = {}
  BY DEF RangeOf

-----------------------------------------------------------------------------
(* What is known, in the terms of the leader *)

LEMMA BatchIsSeq == \A b \in Batch : b \in Seq(Xact)
<1>1. \A b \in Batch : b \in Seq(Xact) /\ b /= <<>>
  BY ReplicationAssumed DEF RP!ReplicationAssumption
<1> QED
  BY <1>1

LEMMA KnownTypes ==
    ASSUME Known
    PROVE  /\ lsn \in Int
           /\ wpc \in [Worker -> {"run", "append", "send", "store"}]
           /\ \E P : packet \in [Worker -> P]
           /\ \E S : wlog \in [Worker -> Seq(S)] /\ flog \in [Worker -> [Follower -> Seq(S)]]
           /\ \E T : taskList \in [Worker -> SUBSET T]
           /\ npc \in [Worker -> [Follower -> {"recv", "load", "commit"}]]
           /\ \E N : ack \in [Worker -> [Follower -> N]]
           /\ todo \in [Worker -> [Follower -> Seq(Xact)]]
           /\ phase \in [Xact -> E!Phase]
<1>1. RP!TypeOK /\ EP!TypeOK
  BY DEF Known, Replicated, RP!IInv, EP!IInv
<1>2. Follower = RP!Follower /\ E!Phase = EP!Phase
  BY DEF Follower, RP!Follower, E!Phase, EP!Phase
<1>3. lsn \in Int
  BY <1>1, ComponentsAssumption DEF RP!TypeOK
<1> QED
  BY <1>1, <1>2, <1>3 DEF RP!TypeOK, EP!TypeOK

\* A batch with a number has its own, below the counter.
LEMMA NumberedTypes ==
    ASSUME Known, NEW b \in Numbered
    PROVE  b.lsn \in Int /\ b.lsn < lsn /\ RangeOf(b.xacts) \subseteq Xact
<1>1. \A e \in RP!Entry : e.lsn \in Int /\ e.xacts \in Seq(Xact)
  BY BatchIsSeq, ComponentsAssumption DEF RP!Entry, RP!Lsn
<1>2. CASE b \in Entries
  <2>1. PICK w \in Worker : \E i \in DOMAIN wlog[w] : b = wlog[w][i]
    BY <1>2 DEF Entries, RangeOf
  <2>2. b \in RP!Entry /\ b.lsn \in RP!LsnsOf(wlog[w])
    BY <2>1 DEF Known, Replicated, RP!IInv, RP!TypeOK, RP!LsnsOf
  <2>3. b.lsn \in 0 .. lsn - 1
    BY <2>2 DEF Known, Replicated, RP!IInv, RP!LsnOrder
  <2> QED
    BY <1>1, <2>2, <2>3, KnownTypes, RangeOfType
<1>3. CASE \E w \in Worker : wpc[w] = "append" /\ b = packet[w]
  <2>1. b \in RP!Entry /\ b.lsn < lsn
    BY <1>3 DEF Known, Replicated, RP!IInv, RP!Flushing
  <2> QED
    BY <1>1, <2>1, RangeOfType
<1> QED
  BY <1>2, <1>3 DEF Numbered

-----------------------------------------------------------------------------
(* What the steps do *)

\* Trying for the keys changes only a request that does not have them yet.
LEMMA TryingPhases ==
    ASSUME Known, NEW w \in Worker, tryLock(w)
    PROVE  /\ cur[w] \in Xact /\ phase[cur[w]] \notin PastLock
           /\ phase'[cur[w]] \notin PastLock
           /\ \A y \in Xact : y /= cur[w] => phase'[y] = phase[y]
<1>1. cur[w] \in Xact
  BY DEF tryLock, Known, Queues
<1>2. phase \in [Xact -> E!Phase]
  BY KnownTypes
<1> QED
  BY <1>1, <1>2 DEF tryLock, E!AssertFails, E!LockFrom, E!LockToBusy, E!Release, E!Step,
                    PastLock, Committing

LEMMA AcquirePhases ==
    ASSUME Known, NEW w \in Worker, acquire(w)
    PROVE  /\ cur[w] \in Xact /\ phase[cur[w]] = "lockTo" /\ phase'[cur[w]] = "locked"
           /\ \A y \in Xact : y /= cur[w] => phase'[y] = phase[y]
<1>1. cur[w] \in Xact
  BY DEF acquire, Known, Queues
<1>2. phase \in [Xact -> E!Phase]
  BY KnownTypes
<1> QED
  BY <1>1, <1>2 DEF acquire, E!LockTo, E!Step

\* Committing changes only a request that has them.
LEMMA CommittingPhases ==
    ASSUME Known, NEW w \in Worker, NEW f \in Follower, commitWork(w, f),
           NEW x, x = Head(todo[w][f])
    PROVE  /\ x \in Xact /\ phase[x] \in PastLock /\ phase'[x] \in Committing
           /\ x \in E!Applied => x \in E!Applied'
           /\ \A y \in Xact : y /= x => phase'[y] = phase[y]
<1>1. x \in Xact
  BY HeadOfTodo DEF commitWork, Known
<1>2. phase \in [Xact -> E!Phase]
  BY KnownTypes
<1>3. E!commitWork(x)
  BY DEF commitWork
<1> QED
  BY <1>1, <1>2, <1>3
  DEF E!commitWork, E!ReadFrom, E!ReadTo, E!UpdateFrom, E!UpdateTo, E!UnlockFrom,
      E!UnlockTo, E!Step, PastLock, Committing, E!Applied

\* The phases change in these three ways only.
LEMMA PhaseFrame ==
    ASSUME Known, Next, ~ \E w \in Worker : tryLock(w) \/ acquire(w),
           ~ \E w \in Worker, f \in Follower : commitWork(w, f)
    PROVE  phase' = phase
  BY TwoPLStep DEF Known, kvsVars

LEMMA AppliedStays ==
    ASSUME Known, [Next]_vars
    PROVE  /\ E!Applied \subseteq E!Applied'
           /\ \A x \in Xact : phase[x] \in PastLock => phase'[x] \in PastLock
<1>1. ASSUME NEW w \in Worker, tryLock(w)
      PROVE  /\ E!Applied \subseteq E!Applied'
             /\ \A x \in Xact : phase[x] \in PastLock => phase'[x] \in PastLock
  BY <1>1, TryingPhases DEF E!Applied, PastLock, Committing
<1>2. ASSUME NEW w \in Worker, acquire(w)
      PROVE  /\ E!Applied \subseteq E!Applied'
             /\ \A x \in Xact : phase[x] \in PastLock => phase'[x] \in PastLock
  BY <1>2, AcquirePhases DEF E!Applied, PastLock, Committing
<1>3. ASSUME NEW w \in Worker, NEW f \in Follower, commitWork(w, f)
      PROVE  /\ E!Applied \subseteq E!Applied'
             /\ \A x \in Xact : phase[x] \in PastLock => phase'[x] \in PastLock
  BY <1>3, CommittingPhases DEF E!Applied, PastLock
<1>4. phase' = phase => E!Applied' = E!Applied
  BY DEF E!Applied
<1>5. UNCHANGED vars => phase' = phase
  BY DEF vars, kvsVars
<1> QED
  BY <1>1, <1>2, <1>3, <1>4, <1>5, PhaseFrame

\* Only a flush numbers a batch; to write it, send it and store it moves it.
LEMMA FlushNumbers ==
    ASSUME Known, NEW w \in Worker, flush(w)
    PROVE  /\ Numbered' = Numbered \cup {[lsn |-> lsn, xacts |-> logBuffer[w]]}
           /\ wlog' = wlog /\ phase' = phase
           /\ \A v \in Worker : v /= w => logBuffer'[v] = logBuffer[v]
           /\ logBuffer'[w] = <<>>
<1> DEFINE b == [lsn |-> lsn, xacts |-> logBuffer[w]]
<1>1. /\ wlog' = wlog /\ wpc[w] = "run" /\ phase' = phase
      /\ packet' = [packet EXCEPT ![w] = b] /\ wpc' = [wpc EXCEPT ![w] = "append"]
      /\ logBuffer' = [logBuffer EXCEPT ![w] = <<>>]
  BY DEF flush, R!getLogSequenceNumber, R!arpcByFields, kvsVars
<1>2. /\ wpc'[w] = "append" /\ packet'[w] = b
      /\ \A v \in Worker : v /= w => wpc'[v] = wpc[v] /\ packet'[v] = packet[v]
  BY <1>1, KnownTypes
<1>3. {packet'[v] : v \in {u \in Worker : wpc'[u] = "append"}}
         = {packet[v] : v \in {u \in Worker : wpc[u] = "append"}} \cup {b}
  BY <1>1, <1>2
<1>4. Entries' = Entries
  BY <1>1 DEF Entries
<1> QED
  BY <1>1, <1>3, <1>4 DEF Numbered, Known, Queues

LEMMA addEntryMoves ==
    ASSUME Known, NEW w \in Worker, R!addEntry(w)
    PROVE  /\ Numbered' = Numbered
           /\ RangeOf(wlog'[w]) = RangeOf(wlog[w]) \cup {packet[w]}
           /\ \A v \in Worker : v /= w => wlog'[v] = wlog[v]
<1>1. /\ wpc[w] = "append" /\ packet' = packet /\ wpc' = [wpc EXCEPT ![w] = "send"]
      /\ wlog' = [wlog EXCEPT ![w] = Append(@, packet[w])]
  BY DEF R!addEntry
<1>2. packet[w] \in RP!Entry /\ wlog \in [Worker -> Seq(RP!Entry)]
  BY <1>1 DEF Known, Replicated, RP!IInv, RP!Flushing, RP!TypeOK
<1>3. /\ wlog'[w] = Append(wlog[w], packet[w])
      /\ \A v \in Worker : v /= w => wlog'[v] = wlog[v]
  BY <1>1, <1>2
<1>4. RangeOf(wlog'[w]) = RangeOf(wlog[w]) \cup {packet[w]}
  BY <1>2, <1>3, RangeOfAppend
<1>5. Entries' = Entries \cup {packet[w]}
  BY <1>3, <1>4 DEF Entries
<1>6. {packet'[v] : v \in {u \in Worker : wpc'[u] = "append"}} \cup {packet[w]}
         = {packet[v] : v \in {u \in Worker : wpc[u] = "append"}}
  <2>1. \A v \in Worker : v /= w => wpc'[v] = wpc[v]
    BY <1>1, KnownTypes
  <2>2. wpc'[w] = "send"
    BY <1>1, KnownTypes
  <2> QED
    BY <1>1, <2>1, <2>2
<1> QED
  BY <1>3, <1>4, <1>5, <1>6 DEF Numbered

LEMMA sendingMoves ==
    ASSUME Known, NEW w \in Worker, R!sendRPC(w) \/ R!taskStore(w)
    PROVE  Numbered' = Numbered
<1>1. /\ wlog' = wlog /\ packet' = packet /\ wpc[w] /= "append" /\ wpc'[w] /= "append"
      /\ \A v \in Worker : v /= w => wpc'[v] = wpc[v]
  BY KnownTypes DEF R!sendRPC, R!taskStore
<1>2. {v \in Worker : wpc'[v] = "append"} = {v \in Worker : wpc[v] = "append"}
  BY <1>1
<1> QED
  BY <1>1, <1>2 DEF Numbered, Entries

\* The steps that leave batches, buffers and tasks where they are.
LEMMA QuietSteps ==
    ASSUME [Next]_vars, ~ \E w \in Worker : acquire(w) \/ flush(w) \/ sendBatch(w),
           ~ \E w \in Worker, f \in Follower : R!TaskFound(w, f)
    PROVE  UNCHANGED <<wpc, packet, wlog, taskList, logBuffer>>
<1>1. ASSUME NEW c \in Client, client(c)
      PROVE  UNCHANGED <<wpc, packet, wlog, taskList, logBuffer>>
  BY <1>1 DEF client, sendCommand, producer, recvCommit, repVars, workerVars
<1>2. ASSUME NEW w \in Worker, xactDequeue(w) \/ tryLock(w)
      PROVE  UNCHANGED <<wpc, packet, wlog, taskList, logBuffer>>
  BY <1>2 DEF xactDequeue, tryLock, repVars, workerVars
<1>3. ASSUME NEW w \in Worker, NEW f \in Follower, logReceiver(w, f)
      PROVE  UNCHANGED <<wpc, packet, wlog, taskList, logBuffer>>
  BY <1>3 DEF logReceiver, R!logReceiver, R!followerAddEntry, R!sendAck, R!workerVars,
              workerVars
<1>4. ASSUME NEW w \in Worker, NEW f \in Follower, countAck(w, f)
      PROVE  UNCHANGED <<wpc, packet, wlog, taskList, logBuffer>>
  BY <1>4 DEF countAck, R!addVoteCount, R!TaskNotFound, R!workerVars, workerVars
<1>5. ASSUME NEW w \in Worker, NEW f \in Follower, commitWork(w, f) \/ notifyClient(w, f)
      PROVE  UNCHANGED <<wpc, packet, wlog, taskList, logBuffer>>
  BY <1>5 DEF commitWork, notifyClient, R!commitNext, R!workerVars, repVars, workerVars
<1>6. UNCHANGED vars => UNCHANGED <<wpc, packet, wlog, taskList, logBuffer>>
  BY DEF vars, repVars, workerVars
<1> QED
  BY <1>1, <1>2, <1>3, <1>4, <1>5, <1>6 DEF Next, worker, notifier

LEMMA TaskFoundFrame ==
    ASSUME NEW w, NEW f, R!TaskFound(w, f)
    PROVE  UNCHANGED <<wpc, packet, wlog>>
  BY DEF R!TaskFound, R!workerVars

LEMMA NumberedSame ==
    ASSUME Known, [Next]_vars, ~ \E w \in Worker : flush(w)
    PROVE  Numbered' = Numbered
<1>1. UNCHANGED <<wpc, packet, wlog>> => Numbered' = Numbered
  BY DEF Numbered, Entries
<1>2. ASSUME NEW w \in Worker, acquire(w) PROVE Numbered' = Numbered
  BY <1>1, <1>2 DEF acquire, repVars
<1>3. ASSUME NEW w \in Worker, sendBatch(w) PROVE Numbered' = Numbered
  BY <1>3, addEntryMoves, sendingMoves DEF sendBatch, R!flush
<1> QED
  BY <1>1, <1>2, <1>3, QuietSteps, TaskFoundFrame

\* Logs and their copies only grow.
LEMMA EntriesStay ==
    ASSUME Known, [Next]_vars, NEW w \in Worker
    PROVE  /\ RangeOf(wlog[w]) \subseteq RangeOf(wlog'[w])
           /\ \A f \in Follower : RangeOf(flog[w][f]) \subseteq RangeOf(flog'[w][f])
<1>1. RangeOf(wlog[w]) \subseteq RangeOf(wlog'[w])
  <2>1. ASSUME NEW v \in Worker, R!addEntry(v)
        PROVE  RangeOf(wlog[w]) \subseteq RangeOf(wlog'[w])
    BY <2>1, addEntryMoves
  <2>2. ASSUME NEW v \in Worker, R!sendRPC(v) \/ R!taskStore(v) PROVE wlog' = wlog
    BY <2>2 DEF R!sendRPC, R!taskStore
  <2>3. ASSUME NEW v \in Worker, acquire(v) PROVE wlog' = wlog
    BY <2>3 DEF acquire, repVars
  <2> QED
    BY <2>1, <2>2, <2>3, FlushNumbers, QuietSteps, TaskFoundFrame DEF sendBatch, R!flush
<1>2. ASSUME NEW f \in Follower
      PROVE  RangeOf(flog[w][f]) \subseteq RangeOf(flog'[w][f])
  <2>1. ASSUME NEW v \in Worker, NEW g \in Follower, R!followerAddEntry(v, g)
        PROVE  RangeOf(flog[w][f]) \subseteq RangeOf(flog'[w][f])
    <3>1. /\ flog \in [Worker -> [Follower -> Seq(RP!Entry)]]
          /\ appendCh \in [Worker -> [Follower -> Seq(RP!Entry)]]
      BY DEF Known, Replicated, RP!IInv, RP!TypeOK, Follower, RP!Follower
    <3>2. /\ flog' = [flog EXCEPT ![v][g] = Append(@, Head(appendCh[v][g]))]
          /\ appendCh[v][g] /= <<>>
      BY <2>1 DEF R!followerAddEntry
    <3>3. Head(appendCh[v][g]) \in RP!Entry
      BY <3>1, <3>2
    <3>4. CASE v = w /\ g = f
      <4>1. flog'[w][f] = Append(flog[w][f], Head(appendCh[w][f]))
        BY <3>1, <3>2, <3>4
      <4> QED
        BY <3>1, <3>3, <3>4, <4>1, RangeOfAppend
    <3>5. CASE ~ (v = w /\ g = f)
      BY <3>1, <3>2, <3>5
    <3> QED
      BY <3>4, <3>5
  <2>2. ASSUME NEW v \in Worker, R!flush(v) \/ R!getLogSequenceNumber(v, logBuffer[v])
        PROVE  flog' = flog
    BY <2>2 DEF R!flush, R!getLogSequenceNumber, R!addEntry, R!sendRPC, R!taskStore,
                R!followerVars
  <2>3. ASSUME NEW v \in Worker, NEW g \in Follower, R!sendAck(v, g) \/ R!notifier(v, g)
        PROVE  flog' = flog
    BY <2>3 DEF R!sendAck, R!notifier, R!addVoteCount, R!TaskFound, R!TaskNotFound,
                R!commitNext, R!followerVars
  <2>4. UNCHANGED repVars => flog' = flog
    BY DEF repVars
  <2>5. UNCHANGED vars => UNCHANGED repVars
    BY DEF vars
  <2> QED
    BY <2>1, <2>2, <2>3, <2>4, <2>5, ReplicationStep DEF Known, R!logReceiver
<1> QED
  BY <1>1, <1>2

-----------------------------------------------------------------------------
(* The inductive invariant *)

\* A request that is being committed is in a batch with a number, and so in no
\* buffer.
LEMMA CommittedIsNumbered ==
    ASSUME Known, IInv, NEW w \in Worker, NEW f \in Follower, npc[w][f] = "commit",
           NEW x, x \in RangeOf(todo[w][f])
    PROVE  /\ \E b \in Numbered : x \in RangeOf(b.xacts)
           /\ \A v \in Worker : x \notin RangeOf(logBuffer[v])
<1>1. PICK e \in RangeOf(wlog[w]) : RangeOf(todo[w][f]) \subseteq RangeOf(e.xacts)
  BY DEF IInv, CommitsOwn
<1>2. e \in Numbered
  BY <1>1 DEF Numbered, Entries
<1> QED
  BY <1>1, <1>2 DEF IInv, BatchesApart

LEMMA BufferFrame ==
    ASSUME [Next]_vars, ~ \E w \in Worker : acquire(w) \/ flush(w)
    PROVE  logBuffer' = logBuffer
<1>1. ASSUME NEW w \in Worker, sendBatch(w) PROVE logBuffer' = logBuffer
  BY <1>1 DEF sendBatch, workerVars
<1>2. ASSUME NEW w \in Worker, NEW f \in Follower, R!TaskFound(w, f), Next
      PROVE  logBuffer' = logBuffer
  <2>1. ASSUME NEW v \in Worker, NEW g \in Follower, logReceiver(v, g) \/ notifier(v, g)
        PROVE  logBuffer' = logBuffer
    BY <2>1 DEF logReceiver, notifier, countAck, commitWork, notifyClient, workerVars
  <2>2. ASSUME NEW c \in Client, client(c) PROVE logBuffer' = logBuffer
    BY <2>2 DEF client, sendCommand, producer, recvCommit, workerVars
  <2>3. ASSUME NEW v \in Worker, xactDequeue(v) \/ tryLock(v) PROVE logBuffer' = logBuffer
    BY <2>3 DEF xactDequeue, tryLock, workerVars
  <2> QED
    BY <1>1, <1>2, <2>1, <2>2, <2>3 DEF Next, worker
<1> QED
  BY <1>1, <1>2, QuietSteps DEF vars, workerVars

LEMMA acquireBuffers ==
    ASSUME Known, NEW w \in Worker, acquire(w)
    PROVE  /\ RangeOf(logBuffer'[w]) = RangeOf(logBuffer[w]) \cup {cur[w]}
           /\ \A v \in Worker : v /= w => logBuffer'[v] = logBuffer[v]
           /\ UNCHANGED repVars
<1>1. /\ logBuffer' = [logBuffer EXCEPT ![w] = Append(@, cur[w])]
      /\ UNCHANGED repVars /\ cur[w] \in Xact
      /\ logBuffer \in [Worker -> Seq(Xact)]
  BY AcquirePhases DEF acquire, Known, Queues
<1>2. /\ logBuffer'[w] = Append(logBuffer[w], cur[w])
      /\ \A v \in Worker : v /= w => logBuffer'[v] = logBuffer[v]
  BY <1>1
<1> QED
  BY <1>1, <1>2, RangeOfAppend

LEMMA HeadCommitted ==
    ASSUME Known, NEW w \in Worker, NEW f \in Follower, commitWork(w, f)
    PROVE  npc[w][f] = "commit" /\ Head(todo[w][f]) \in RangeOf(todo[w][f])
<1>1. npc[w][f] = "commit"
  BY DEF commitWork
<1>2. todo[w][f] \in Seq(Xact) /\ todo[w][f] /= <<>>
  BY <1>1, HeadOfTodo DEF Known
<1> QED
  BY <1>1, <1>2, RangeOfTail

LEMMA ApartKept ==
    ASSUME Known, IInv, [Next]_vars
    PROVE  BatchesApart'
<1> USE DEF IInv
<1>1. ASSUME NEW w \in Worker, flush(w) PROVE BatchesApart'
  <2> DEFINE b == [lsn |-> lsn, xacts |-> logBuffer[w]]
  <2>1. /\ Numbered' = Numbered \cup {b} /\ b.xacts = logBuffer[w]
        /\ phase' = phase
        /\ \A v \in Worker : v /= w => logBuffer'[v] = logBuffer[v]
        /\ logBuffer'[w] = <<>>
    BY <1>1, FlushNumbers
  <2> HIDE DEF b
  <2>2. \A d \in Numbered' : \A x \in RangeOf(d.xacts) : phase'[x] \in PastLock
    BY <2>1 DEF BatchesApart, PastLock
  <2>3. ASSUME NEW d \in Numbered, NEW x \in RangeOf(d.xacts) PROVE x \notin RangeOf(b.xacts)
    BY <2>1, <2>3 DEF BatchesApart
  <2>4. \A d1, d2 \in Numbered' :
           \A x \in RangeOf(d1.xacts) : x \in RangeOf(d2.xacts) => d1 = d2
    BY <2>1, <2>3 DEF BatchesApart
  <2>5. ASSUME NEW v \in Worker, NEW x \in RangeOf(logBuffer'[v])
        PROVE  v /= w /\ logBuffer'[v] = logBuffer[v] /\ x \in RangeOf(logBuffer[v])
    BY <2>1, RangeOfEmpty
  <2>6. \A v \in Worker : \A x \in RangeOf(logBuffer'[v]) :
           /\ phase'[x] = "locked"
           /\ \A d \in Numbered' : x \notin RangeOf(d.xacts)
           /\ \A u \in Worker : x \in RangeOf(logBuffer'[u]) => u = v
    BY <2>1, <2>5 DEF BatchesApart
  <2> QED
    BY <2>2, <2>4, <2>6 DEF BatchesApart
<1>2. ASSUME NEW w \in Worker, acquire(w) PROVE BatchesApart'
  <2>1. Numbered' = Numbered
    <3>1. UNCHANGED <<wpc, packet, wlog>>
      BY <1>2 DEF acquire, repVars
    <3> QED
      BY <3>1 DEF Numbered, Entries
  <2>2. cur[w] \in Xact /\ phase[cur[w]] \notin PastLock /\ phase'[cur[w]] = "locked"
    BY <1>2, AcquirePhases DEF PastLock, Committing
  <2>3. \A v \in Worker : cur[w] \notin RangeOf(logBuffer[v])
    BY <2>2 DEF BatchesApart, PastLock
  <2>4. \A b \in Numbered : cur[w] \notin RangeOf(b.xacts)
    BY <2>2 DEF BatchesApart
  <2>5. \A b \in Numbered : \A x \in RangeOf(b.xacts) : phase'[x] \in PastLock
    BY NumberedTypes, AppliedStays DEF BatchesApart
  <2>6. ASSUME NEW v \in Worker, NEW x \in RangeOf(logBuffer'[v])
        PROVE  phase'[x] = "locked" /\ ((x = cur[w] /\ v = w) \/ x \in RangeOf(logBuffer[v]))
    <3>1. (x = cur[w] /\ v = w) \/ x \in RangeOf(logBuffer[v])
      BY <1>2, <2>6, acquireBuffers
    <3>2. RangeOf(logBuffer[v]) \subseteq Xact
      BY RangeOfType DEF Known, Queues
    <3>3. x \in RangeOf(logBuffer[v]) => phase'[x] = "locked"
      BY <1>2, <2>3, <3>2, AcquirePhases DEF BatchesApart
    <3> QED
      BY <2>2, <3>1, <3>3
  <2> QED
    BY <2>1, <2>3, <2>4, <2>5, <2>6 DEF BatchesApart
<1>3. CASE ~ \E w \in Worker : acquire(w) \/ flush(w)
  <2>1. Numbered' = Numbered /\ logBuffer' = logBuffer
    BY <1>3, NumberedSame, BufferFrame
  <2>2. \A b \in Numbered : \A x \in RangeOf(b.xacts) : phase'[x] \in PastLock
    BY NumberedTypes, AppliedStays DEF BatchesApart
  <2>3. ASSUME NEW v \in Worker, NEW x \in RangeOf(logBuffer[v]) PROVE phase'[x] = "locked"
    <3>1. x \in Xact /\ phase[x] = "locked"
      BY <2>3, RangeOfType DEF Known, Queues, BatchesApart
    <3>2. ASSUME NEW w \in Worker, tryLock(w) PROVE phase'[x] = phase[x]
      BY <3>1, <3>2, TryingPhases DEF PastLock
    <3>3. ASSUME NEW w \in Worker, NEW f \in Follower, commitWork(w, f)
          PROVE  phase'[x] = phase[x]
      <4>1. x /= Head(todo[w][f])
        BY <2>3, <3>3, HeadCommitted, CommittedIsNumbered
      <4> QED
        BY <3>1, <3>3, <4>1, CommittingPhases
    <3>4. UNCHANGED vars => phase' = phase
      BY DEF vars, kvsVars
    <3> QED
      BY <1>3, <3>1, <3>2, <3>3, <3>4, PhaseFrame
  <2> QED
    BY <2>1, <2>2, <2>3 DEF BatchesApart
<1> QED
  BY <1>1, <1>2, <1>3

\* Only the notifiers of Replication change what notifiers do.
LEMMA NotifierFrame ==
    ASSUME Known, [Next]_vars,
           ~ \E w \in Worker, f \in Follower : R!notifier(w, f)
    PROVE  UNCHANGED <<npc, ack, todo>>
<1>1. ASSUME NEW v \in Worker, R!flush(v) \/ R!getLogSequenceNumber(v, logBuffer[v])
      PROVE  UNCHANGED <<npc, ack, todo>>
  BY <1>1 DEF R!flush, R!getLogSequenceNumber, R!addEntry, R!sendRPC, R!taskStore,
              R!notifierVars
<1>2. ASSUME NEW v \in Worker, NEW g \in Follower, R!logReceiver(v, g)
      PROVE  UNCHANGED <<npc, ack, todo>>
  BY <1>2 DEF R!logReceiver, R!followerAddEntry, R!sendAck, R!notifierVars
<1>3. UNCHANGED repVars => UNCHANGED <<npc, ack, todo>>
  BY DEF repVars
<1>4. UNCHANGED vars => UNCHANGED repVars
  BY DEF vars
<1> QED
  BY <1>1, <1>2, <1>3, <1>4, ReplicationStep DEF Known

LEMMA TaskFoundTakes ==
    ASSUME Known, IInv, NEW w \in Worker, NEW f \in Follower, R!TaskFound(w, f)
    PROVE  \E t \in taskList[w] :
              /\ t.lsn = ack[w][f] /\ t \in RangeOf(wlog[w]) /\ todo[w][f] = <<>>
              /\ npc'[w][f] = "commit" /\ todo'[w][f] = t.xacts /\ ack' = ack
              /\ \A v \in Worker, g \in Follower : ~ (v = w /\ g = f) =>
                    npc'[v][g] = npc[v][g] /\ todo'[v][g] = todo[v][g]
              /\ taskList'[w] = taskList[w] \ {t}
              /\ \A v \in Worker : v /= w => taskList'[v] = taskList[v]
<1>1. PICK t \in R!TasksFor(w, ack[w][f]) :
         /\ taskList' = [taskList EXCEPT ![w] = @ \ {t}]
         /\ todo' = [todo EXCEPT ![w][f] = t.xacts]
  BY DEF R!TaskFound
<1>2. npc[w][f] = "load" /\ npc' = [npc EXCEPT ![w][f] = "commit"] /\ ack' = ack
  BY DEF R!TaskFound
<1>3. t \in taskList[w] /\ t.lsn = ack[w][f]
  BY <1>1 DEF R!TasksFor
<1>4. \E i \in DOMAIN wlog[w] : t = wlog[w][i]
  BY <1>3 DEF Known, Replicated, RP!IInv, RP!TasksStored
<1>5. todo[w][f] = <<>>
  BY <1>2 DEF IInv, CommitsOwn
<1> QED
  BY <1>1, <1>2, <1>3, <1>4, <1>5, KnownTypes DEF RangeOf

LEMMA commitNextTakes ==
    ASSUME Known, NEW w \in Worker, NEW f \in Follower, R!commitNext(w, f)
    PROVE  /\ npc[w][f] = "commit" /\ ack' = ack
           /\ RangeOf(todo[w][f]) = {Head(todo[w][f])} \cup RangeOf(todo'[w][f])
           /\ npc'[w][f] /= "commit" => todo'[w][f] = <<>>
           /\ \A v \in Worker, g \in Follower : ~ (v = w /\ g = f) =>
                 npc'[v][g] = npc[v][g] /\ todo'[v][g] = todo[v][g]
<1> DEFINE s == todo[w][f]
<1>1. /\ npc[w][f] = "commit" /\ ack' = ack
      /\ todo' = [todo EXCEPT ![w][f] = Tail(@)]
      /\ npc' = [npc EXCEPT ![w][f] = IF Len(s) = 1 THEN "recv" ELSE "commit"]
  BY DEF R!commitNext
<1>2. s \in Seq(Xact) /\ s /= <<>>
  BY <1>1, HeadOfTodo DEF Known
<1>3. /\ npc'[w][f] = IF Len(s) = 1 THEN "recv" ELSE "commit"
      /\ todo'[w][f] = Tail(s)
      /\ \A v \in Worker, g \in Follower : ~ (v = w /\ g = f) =>
            npc'[v][g] = npc[v][g] /\ todo'[v][g] = todo[v][g]
  BY <1>1, KnownTypes
<1> HIDE DEF s
<1>4. RangeOf(s) = {Head(s)} \cup RangeOf(Tail(s)) /\ (Len(s) = 1 => Tail(s) = <<>>)
  BY <1>2, RangeOfTail
<1> QED
  BY <1>1, <1>3, <1>4 DEF s

\* An acknowledgement that is counted or for which no task is found.
LEMMA countingKeeps ==
    ASSUME Known, NEW w \in Worker, NEW f \in Follower,
           R!addVoteCount(w, f) \/ R!TaskNotFound(w, f)
    PROVE  /\ todo' = todo /\ npc[w][f] /= "commit" /\ npc'[w][f] /= "commit"
           /\ \A v \in Worker, g \in Follower : ~ (v = w /\ g = f) =>
                 npc'[v][g] = npc[v][g] /\ ack'[v][g] = ack[v][g]
  BY KnownTypes DEF R!addVoteCount, R!TaskNotFound

LEMMA CommitsOwnKept ==
    ASSUME Known, IInv, [Next]_vars
    PROVE  CommitsOwn'
<1> DEFINE Own(v, g) ==
       /\ npc'[v][g] = "commit" =>
              \E e \in RangeOf(wlog'[v]) :
                  /\ e.lsn = ack'[v][g]
                  /\ RangeOf(todo'[v][g]) \subseteq RangeOf(e.xacts)
       /\ npc'[v][g] /= "commit" => todo'[v][g] = <<>>
<1>0. CommitsOwn
  BY DEF IInv
<1>1. \A v \in Worker : RangeOf(wlog[v]) \subseteq RangeOf(wlog'[v])
  BY EntriesStay
<1>2. ASSUME NEW v \in Worker, NEW g \in Follower,
             npc'[v][g] = npc[v][g], ack'[v][g] = ack[v][g], todo'[v][g] = todo[v][g]
      PROVE  Own(v, g)
  <2>1. CASE npc[v][g] = "commit"
    <3>1. PICK e \in RangeOf(wlog[v]) :
             e.lsn = ack[v][g] /\ RangeOf(todo[v][g]) \subseteq RangeOf(e.xacts)
      BY <1>0, <2>1 DEF CommitsOwn
    <3> QED
      BY <1>1, <1>2, <2>1, <3>1
  <2>2. CASE npc[v][g] /= "commit"
    BY <1>0, <1>2, <2>2 DEF CommitsOwn
  <2> QED
    BY <2>1, <2>2
<1>3. ASSUME NEW w \in Worker, NEW f \in Follower, NEW v \in Worker, NEW g \in Follower,
             R!TaskFound(w, f)
      PROVE  Own(v, g)
  <2>1. PICK t \in RangeOf(wlog[w]) :
           /\ t.lsn = ack[w][f] /\ npc'[w][f] = "commit" /\ todo'[w][f] = t.xacts
           /\ ack' = ack
           /\ \A u \in Worker, h \in Follower : ~ (u = w /\ h = f) =>
                 npc'[u][h] = npc[u][h] /\ todo'[u][h] = todo[u][h]
    BY <1>3, TaskFoundTakes
  <2>2. CASE v = w /\ g = f
    BY <1>1, <2>1, <2>2
  <2>3. CASE ~ (v = w /\ g = f)
    BY <1>2, <2>1, <2>3
  <2> QED
    BY <2>2, <2>3
<1>4. ASSUME NEW w \in Worker, NEW f \in Follower, NEW v \in Worker, NEW g \in Follower,
             R!commitNext(w, f)
      PROVE  Own(v, g)
  <2>1. CASE v = w /\ g = f
    <3>1. npc[w][f] = "commit"
      BY <1>4, commitNextTakes
    <3>2. PICK e \in RangeOf(wlog[w]) :
             e.lsn = ack[w][f] /\ RangeOf(todo[w][f]) \subseteq RangeOf(e.xacts)
      BY <1>0, <3>1 DEF CommitsOwn
    <3>3. /\ ack' = ack /\ RangeOf(todo'[w][f]) \subseteq RangeOf(todo[w][f])
          /\ npc'[w][f] /= "commit" => todo'[w][f] = <<>>
      BY <1>4, commitNextTakes
    <3> QED
      BY <1>1, <2>1, <3>2, <3>3
  <2>2. CASE ~ (v = w /\ g = f)
    <3>1. npc'[v][g] = npc[v][g] /\ ack'[v][g] = ack[v][g] /\ todo'[v][g] = todo[v][g]
      BY <1>4, <2>2, commitNextTakes
    <3> QED
      BY <1>2, <3>1
  <2> QED
    BY <2>1, <2>2
<1>5. ASSUME NEW w \in Worker, NEW f \in Follower, NEW v \in Worker, NEW g \in Follower,
             R!addVoteCount(w, f) \/ R!TaskNotFound(w, f)
      PROVE  Own(v, g)
  <2>1. CASE v = w /\ g = f
    <3>1. npc[w][f] /= "commit" /\ npc'[w][f] /= "commit" /\ todo' = todo
      BY <1>5, countingKeeps
    <3>2. todo[w][f] = <<>>
      BY <1>0, <3>1 DEF CommitsOwn
    <3> QED
      BY <2>1, <3>1, <3>2
  <2>2. CASE ~ (v = w /\ g = f)
    <3>1. npc'[v][g] = npc[v][g] /\ ack'[v][g] = ack[v][g] /\ todo'[v][g] = todo[v][g]
      BY <1>5, <2>2, countingKeeps
    <3> QED
      BY <1>2, <3>1
  <2> QED
    BY <2>1, <2>2
<1> HIDE DEF Own
<1>6. ASSUME NEW v \in Worker, NEW g \in Follower PROVE Own(v, g)
  BY <1>2, <1>3, <1>4, <1>5, NotifierFrame DEF R!notifier
<1> QED
  BY <1>6 DEF CommitsOwn, Own

\* Where a request can be between its worker and its notifier.
InBuffer(x) == \E w \in Worker : x \in RangeOf(logBuffer[w])
InFlight(x) == \E w \in Worker : wpc[w] /= "run" /\ x \in RangeOf(packet[w].xacts)
InTask(x) == \E w \in Worker : \E t \in taskList[w] : x \in RangeOf(t.xacts)
InCommit(x) == \E w \in Worker, f \in Follower : x \in RangeOf(todo[w][f])

LEMMA HandedOver ==
    /\ LocksHandedOver <=>
          \A x \in Xact :
              /\ InBuffer(x) \/ InFlight(x) \/ InTask(x) => phase[x] = "locked"
              /\ phase[x] = "locked" =>
                    InBuffer(x) \/ InFlight(x) \/ InTask(x) \/ InCommit(x)
    /\ LocksHandedOver' <=>
          \A x \in Xact :
              /\ InBuffer(x)' \/ InFlight(x)' \/ InTask(x)' => phase'[x] = "locked"
              /\ phase'[x] = "locked" =>
                    InBuffer(x)' \/ InFlight(x)' \/ InTask(x)' \/ InCommit(x)'
  BY DEF LocksHandedOver, InBuffer, InFlight, InTask, InCommit

\* The batch that is being flushed has its number; written, it is the last entry.
LEMMA FlightIsNumbered ==
    ASSUME Known, NEW v \in Worker, wpc[v] /= "run"
    PROVE  /\ packet[v] \in Numbered
           /\ wpc[v] /= "append" =>
                 packet[v] \in RangeOf(wlog[v]) /\ packet[v].lsn \in RP!LsnsOf(wlog[v])
<1>1. CASE wpc[v] = "append"
  BY <1>1 DEF Numbered
<1>2. CASE wpc[v] \in {"send", "store"}
  <2>1. wlog[v] /= <<>> /\ packet[v] = wlog[v][Len(wlog[v])]
    BY <1>2 DEF Known, Replicated, RP!IInv, RP!Flushing
  <2>2. wlog[v] \in Seq(RP!Entry)
    BY DEF Known, Replicated, RP!IInv, RP!TypeOK
  <2>3. Len(wlog[v]) \in DOMAIN wlog[v]
    BY <2>1, <2>2
  <2>4. packet[v] \in RangeOf(wlog[v]) /\ packet[v].lsn \in RP!LsnsOf(wlog[v])
    BY <2>1, <2>3 DEF RangeOf, RP!LsnsOf
  <2> QED
    BY <2>4 DEF Numbered, Entries
<1> QED
  BY <1>1, <1>2, KnownTypes

LEMMA NumbersApart ==
    ASSUME Known, NEW v \in Worker, NEW w \in Worker, NEW n,
           n \in RP!LsnsOf(wlog[v]), n \in RP!LsnsOf(wlog[w])
    PROVE  v = w
  BY DEF Known, Replicated, RP!IInv, RP!LsnOrder

\* What a notifier has to commit is in its hands alone.
LEMMA CommittingAlone ==
    ASSUME Known, IInv, NEW w \in Worker, NEW f \in Follower, npc[w][f] = "commit",
           NEW x, x \in RangeOf(todo[w][f])
    PROVE  ~ InBuffer(x) /\ ~ InFlight(x) /\ ~ InTask(x)
<1>1. PICK e \in RangeOf(wlog[w]) :
         e.lsn = ack[w][f] /\ RangeOf(todo[w][f]) \subseteq RangeOf(e.xacts)
  BY DEF IInv, CommitsOwn
<1>2. e \in Numbered /\ e.lsn \in RP!LsnsOf(wlog[w]) /\ x \in RangeOf(e.xacts)
  BY <1>1 DEF Numbered, Entries, RangeOf, RP!LsnsOf
<1>3. RP!Stored(w, e.lsn) /\ RP!TasksFor(w, e.lsn) = {}
  BY <1>1 DEF Known, Replicated, RP!IInv, RP!OneCommitter, RP!Loaded, Follower, RP!Follower
<1>4. BatchesApart
  BY DEF IInv
<1>5. ~ InBuffer(x)
  BY CommittedIsNumbered DEF InBuffer
<1>6. ASSUME NEW v \in Worker, wpc[v] /= "run", x \in RangeOf(packet[v].xacts)
      PROVE  FALSE
  <2>1. packet[v] = e
    BY <1>2, <1>4, <1>6, FlightIsNumbered DEF BatchesApart
  <2>2. CASE wpc[v] = "append"
    <3>1. /\ e.lsn \in Int
          /\ \A n \in RP!LsnsOf(wlog[v]) : n < e.lsn
          /\ \A u \in Worker \ {v} : e.lsn \notin RP!LsnsOf(wlog[u])
      BY <1>2, <2>1, <2>2, NumberedTypes DEF Known, Replicated, RP!IInv, RP!Flushing
    <3> QED
      BY <1>2, <3>1
  <2>3. CASE wpc[v] \in {"send", "store"}
    <3>1. v = w
      BY <1>2, <2>1, <2>3, FlightIsNumbered, NumbersApart
    <3> QED
      BY <1>3, <2>1, <2>3, <3>1 DEF RP!Stored
  <2> QED
    BY <1>6, <2>2, <2>3, KnownTypes
<1>7. ASSUME NEW v \in Worker, NEW t \in taskList[v], x \in RangeOf(t.xacts)
      PROVE  FALSE
  <2>1. PICK i \in DOMAIN wlog[v] : t = wlog[v][i]
    BY DEF Known, Replicated, RP!IInv, RP!TasksStored
  <2>2. t \in Numbered /\ t.lsn \in RP!LsnsOf(wlog[v])
    BY <2>1 DEF Numbered, Entries, RangeOf, RP!LsnsOf
  <2>3. t = e
    BY <1>2, <1>4, <1>7, <2>2 DEF BatchesApart
  <2>4. v = w
    BY <1>2, <2>2, <2>3, NumbersApart
  <2> QED
    BY <1>3, <2>3, <2>4 DEF RP!TasksFor
<1> QED
  BY <1>5, <1>6, <1>7 DEF InFlight, InTask

\* What stays in its place.
LEMMA SamePlaces ==
    ASSUME NEW x
    PROVE  /\ logBuffer' = logBuffer => (InBuffer(x)' <=> InBuffer(x))
           /\ UNCHANGED <<wpc, packet>> => (InFlight(x)' <=> InFlight(x))
           /\ taskList' = taskList => (InTask(x)' <=> InTask(x))
           /\ todo' = todo => (InCommit(x)' <=> InCommit(x))
  BY DEF InBuffer, InFlight, InTask, InCommit

LEMMA acquirePlaces ==
    ASSUME Known, NEW w \in Worker, acquire(w), NEW x
    PROVE  /\ InBuffer(x)' <=> InBuffer(x) \/ x = cur[w]
           /\ InFlight(x)' <=> InFlight(x)
           /\ InTask(x)' <=> InTask(x)
           /\ InCommit(x)' <=> InCommit(x)
<1>1. InBuffer(x)' <=> InBuffer(x) \/ x = cur[w]
  BY acquireBuffers DEF InBuffer
<1> QED
  BY <1>1, acquireBuffers, SamePlaces DEF repVars

LEMMA flushPlaces ==
    ASSUME Known, NEW w \in Worker, flush(w), NEW x
    PROVE  /\ InBuffer(x)' \/ InFlight(x)' <=> InBuffer(x) \/ InFlight(x)
           /\ InTask(x)' <=> InTask(x)
           /\ InCommit(x)' <=> InCommit(x)
<1>1. /\ taskList' = taskList /\ todo' = todo
      /\ packet' = [packet EXCEPT ![w] = [lsn |-> lsn, xacts |-> logBuffer[w]]]
      /\ wpc' = [wpc EXCEPT ![w] = "append"] /\ wpc[w] = "run"
  BY DEF flush, R!getLogSequenceNumber, R!arpcByFields, R!notifierVars
<1>2. /\ wpc'[w] = "append" /\ packet'[w].xacts = logBuffer[w]
      /\ \A v \in Worker : v /= w => wpc'[v] = wpc[v] /\ packet'[v] = packet[v]
  BY <1>1, KnownTypes
<1>3. /\ \A v \in Worker : v /= w => logBuffer'[v] = logBuffer[v]
      /\ logBuffer'[w] = <<>>
  BY FlushNumbers
<1>4. InFlight(x)' <=> InFlight(x) \/ x \in RangeOf(logBuffer[w])
  BY <1>1, <1>2 DEF InFlight
<1>5. InBuffer(x) <=> InBuffer(x)' \/ x \in RangeOf(logBuffer[w])
  BY <1>3, RangeOfEmpty DEF InBuffer
<1> QED
  BY <1>1, <1>4, <1>5, SamePlaces

LEMMA sendBatchPlaces ==
    ASSUME Known, NEW w \in Worker, sendBatch(w), NEW x
    PROVE  /\ InBuffer(x)' <=> InBuffer(x)
           /\ InFlight(x)' \/ InTask(x)' <=> InFlight(x) \/ InTask(x)
           /\ InCommit(x)' <=> InCommit(x)
           /\ phase' = phase
<1>1. logBuffer' = logBuffer /\ phase' = phase
  BY DEF sendBatch, workerVars, kvsVars
<1>2. CASE R!addEntry(w) \/ R!sendRPC(w)
  <2>1. /\ packet' = packet /\ taskList' = taskList /\ todo' = todo
        /\ wpc[w] /= "run" /\ wpc'[w] /= "run"
        /\ \A v \in Worker : v /= w => wpc'[v] = wpc[v]
    BY <1>2, KnownTypes DEF R!addEntry, R!sendRPC, R!notifierVars
  <2>2. InFlight(x)' <=> InFlight(x)
    BY <2>1 DEF InFlight
  <2> QED
    BY <1>1, <2>1, <2>2, SamePlaces
<1>3. CASE R!taskStore(w)
  <2>1. /\ packet' = packet /\ todo' = todo
        /\ wpc[w] /= "run" /\ wpc'[w] = "run"
        /\ \A v \in Worker : v /= w => wpc'[v] = wpc[v] /\ taskList'[v] = taskList[v]
        /\ taskList'[w] = taskList[w] \cup {packet[w]}
    BY <1>3, KnownTypes DEF R!taskStore, R!notifierVars
  <2>2. InFlight(x) <=> InFlight(x)' \/ x \in RangeOf(packet[w].xacts)
    BY <2>1 DEF InFlight
  <2>3. InTask(x)' <=> InTask(x) \/ x \in RangeOf(packet[w].xacts)
    BY <2>1 DEF InTask
  <2> QED
    BY <1>1, <2>1, <2>2, <2>3, SamePlaces
<1> QED
  BY <1>2, <1>3 DEF sendBatch, R!flush

LEMMA TaskFoundPlaces ==
    ASSUME Known, IInv, NEW w \in Worker, NEW f \in Follower, R!TaskFound(w, f), NEW x
    PROVE  /\ InTask(x)' => InTask(x)
           /\ InTask(x) => InTask(x)' \/ InCommit(x)'
           /\ InCommit(x) => InCommit(x)'
<1>1. PICK t \in taskList[w] :
         /\ todo[w][f] = <<>> /\ todo'[w][f] = t.xacts
         /\ \A v \in Worker, g \in Follower : ~ (v = w /\ g = f) =>
               todo'[v][g] = todo[v][g]
         /\ taskList'[w] = taskList[w] \ {t}
         /\ \A v \in Worker : v /= w => taskList'[v] = taskList[v]
  BY TaskFoundTakes
<1>2. InTask(x)' => InTask(x)
  BY <1>1 DEF InTask
<1>3. x \in RangeOf(t.xacts) => InCommit(x)'
  BY <1>1 DEF InCommit
<1>4. InTask(x) => InTask(x)' \/ x \in RangeOf(t.xacts)
  BY <1>1 DEF InTask
<1>5. InCommit(x) => InCommit(x)'
  BY <1>1, RangeOfEmpty DEF InCommit
<1> QED
  BY <1>2, <1>3, <1>4, <1>5

LEMMA commitNextPlaces ==
    ASSUME Known, NEW w \in Worker, NEW f \in Follower, R!commitNext(w, f), NEW x,
           x /= Head(todo[w][f])
    PROVE  InCommit(x) => InCommit(x)'
<1>1. /\ RangeOf(todo[w][f]) = {Head(todo[w][f])} \cup RangeOf(todo'[w][f])
      /\ \A v \in Worker, g \in Follower : ~ (v = w /\ g = f) =>
            todo'[v][g] = todo[v][g]
  BY commitNextTakes
<1> QED
  BY <1>1 DEF InCommit

LEMMA HandedOverKept ==
    ASSUME Known, IInv, [Next]_vars
    PROVE  LocksHandedOver'
<1> DEFINE Given(x) ==
       /\ InBuffer(x)' \/ InFlight(x)' \/ InTask(x)' => phase'[x] = "locked"
       /\ phase'[x] = "locked" => InBuffer(x)' \/ InFlight(x)' \/ InTask(x)' \/ InCommit(x)'
<1>1. \A x \in Xact :
         /\ InBuffer(x) \/ InFlight(x) \/ InTask(x) => phase[x] = "locked"
         /\ phase[x] = "locked" => InBuffer(x) \/ InFlight(x) \/ InTask(x) \/ InCommit(x)
  BY HandedOver DEF IInv
<1>2. ASSUME NEW w \in Worker, NEW x \in Xact, acquire(w) PROVE Given(x)
  BY <1>1, <1>2, acquirePlaces, AcquirePhases
<1>3. ASSUME NEW w \in Worker, NEW x \in Xact, flush(w) PROVE Given(x)
  BY <1>1, <1>3, flushPlaces, FlushNumbers
<1>4. ASSUME NEW w \in Worker, NEW x \in Xact, sendBatch(w) PROVE Given(x)
  BY <1>1, <1>4, sendBatchPlaces
<1>5. ASSUME NEW w \in Worker, NEW f \in Follower, NEW x \in Xact, countAck(w, f)
      PROVE  Given(x)
  <2>1. phase' = phase /\ logBuffer' = logBuffer
    BY <1>5 DEF countAck, kvsVars, workerVars
  <2>2. CASE R!TaskFound(w, f)
    <3>1. UNCHANGED <<wpc, packet>>
      BY <2>2, TaskFoundFrame
    <3> QED
      BY <1>1, <2>1, <2>2, <3>1, SamePlaces, TaskFoundPlaces
  <2>3. CASE R!addVoteCount(w, f) \/ R!TaskNotFound(w, f)
    <3>1. UNCHANGED <<wpc, packet, taskList, todo>>
      BY <2>3 DEF R!addVoteCount, R!TaskNotFound, R!workerVars
    <3> QED
      BY <1>1, <2>1, <3>1, SamePlaces
  <2> QED
    BY <1>5, <2>2, <2>3 DEF countAck
<1>6. ASSUME NEW w \in Worker, NEW f \in Follower, NEW x \in Xact, notifyClient(w, f)
      PROVE  Given(x)
  <2>1. /\ R!commitNext(w, f) /\ phase[Head(todo[w][f])] = "done"
        /\ phase' = phase /\ logBuffer' = logBuffer
    BY <1>6 DEF notifyClient, kvsVars, workerVars
  <2>2. UNCHANGED <<wpc, packet, taskList>>
    BY <2>1 DEF R!commitNext, R!workerVars
  <2>3. phase[x] = "locked" => x /= Head(todo[w][f])
    BY <2>1
  <2> QED
    BY <1>1, <2>1, <2>2, <2>3, SamePlaces, commitNextPlaces
<1>7. ASSUME NEW w \in Worker, NEW f \in Follower, NEW x \in Xact, commitWork(w, f)
      PROVE  Given(x)
  <2>1. UNCHANGED repVars /\ logBuffer' = logBuffer
    BY <1>7 DEF commitWork, workerVars
  <2>2. /\ InBuffer(x)' <=> InBuffer(x)
        /\ InFlight(x)' <=> InFlight(x)
        /\ InTask(x)' <=> InTask(x)
        /\ InCommit(x)' <=> InCommit(x)
    BY <2>1, SamePlaces DEF repVars
  <2>3. CASE x = Head(todo[w][f])
    <3>1. phase'[x] /= "locked"
      BY <1>7, <2>3, CommittingPhases DEF Committing
    <3>2. ~ InBuffer(x) /\ ~ InFlight(x) /\ ~ InTask(x)
      BY <1>7, <2>3, HeadCommitted, CommittingAlone
    <3> QED
      BY <2>2, <3>1, <3>2
  <2>4. CASE x /= Head(todo[w][f])
    BY <1>1, <1>7, <2>2, <2>4, CommittingPhases
  <2> QED
    BY <2>3, <2>4
<1>8. ASSUME NEW w \in Worker, NEW x \in Xact, tryLock(w) PROVE Given(x)
  <2>1. UNCHANGED repVars /\ logBuffer' = logBuffer
    BY <1>8 DEF tryLock, workerVars
  <2>2. /\ InBuffer(x)' <=> InBuffer(x)
        /\ InFlight(x)' <=> InFlight(x)
        /\ InTask(x)' <=> InTask(x)
        /\ InCommit(x)' <=> InCommit(x)
    BY <2>1, SamePlaces DEF repVars
  <2> QED
    BY <1>1, <1>8, <2>2, TryingPhases DEF PastLock
<1>9. ASSUME NEW x \in Xact,
             UNCHANGED <<phase, logBuffer, wpc, packet, taskList, todo>>
      PROVE  Given(x)
  BY <1>1, <1>9, SamePlaces
<1>10. ASSUME NEW c \in Client, client(c)
       PROVE  UNCHANGED <<phase, logBuffer, wpc, packet, taskList, todo>>
  BY <1>10 DEF client, sendCommand, producer, recvCommit, repVars, kvsVars, workerVars
<1>11. ASSUME NEW w \in Worker, xactDequeue(w)
       PROVE  UNCHANGED <<phase, logBuffer, wpc, packet, taskList, todo>>
  BY <1>11 DEF xactDequeue, repVars, kvsVars
<1>12. ASSUME NEW w \in Worker, NEW f \in Follower, logReceiver(w, f)
       PROVE  UNCHANGED <<phase, logBuffer, wpc, packet, taskList, todo>>
  BY <1>12 DEF logReceiver, R!logReceiver, R!followerAddEntry, R!sendAck, R!workerVars,
               R!notifierVars, kvsVars, workerVars
<1>13. UNCHANGED vars => UNCHANGED <<phase, logBuffer, wpc, packet, taskList, todo>>
  BY DEF vars, repVars, kvsVars, workerVars
<1> HIDE DEF Given
<1>14. ASSUME NEW x \in Xact PROVE Given(x)
  BY <1>2, <1>3, <1>4, <1>5, <1>6, <1>7, <1>8, <1>9, <1>10, <1>11, <1>12, <1>13
  DEF Next, worker, notifier
<1> QED
  BY <1>14, HandedOver DEF Given

\* Two conflicting requests are past their locks together only when one of them
\* has been applied.
LEMMA ConflictApplied ==
    ASSUME Known, NEW x \in Xact, NEW y \in Xact, x /= y, E!Conflict(x, y),
           phase[x] \in PastLock, phase[y] = "locked"
    PROVE  x \in E!Applied
<1>1. ASSUME NEW z \in Xact PROVE {EP!Lo(z), EP!Hi(z)} = {From[z], To[z]}
  BY DEF EP!Lo, EP!Hi, EP!Sorted
<1>2. EP!Held(x) \cap EP!Held(y) = {}
  BY DEF Known, EP!IInv, EP!LockDiscipline
<1>3. EP!Held(y) = {EP!Lo(y), EP!Hi(y)}
  BY DEF EP!Held
<1>4. phase[x] \in {"locked", "readTo", "debit", "credit", "unlockFrom"} =>
         EP!Held(x) = {EP!Lo(x), EP!Hi(x)}
  BY DEF EP!Held
<1>5. {From[x], To[x]} \cap {From[y], To[y]} /= {}
  BY DEF E!Conflict
<1>6. phase[x] \notin {"locked", "readTo", "debit", "credit", "unlockFrom"}
  BY <1>1, <1>2, <1>3, <1>4, <1>5
<1> QED
  BY <1>6 DEF PastLock, Committing, E!Applied

LEMMA OrderKept ==
    ASSUME Known, IInv, [Next]_vars
    PROVE  BatchOrder'
<1>1. BatchOrder /\ BatchesApart
  BY DEF IInv
<1>2. E!Applied \subseteq E!Applied'
  BY AppliedStays
<1>3. CASE Numbered' = Numbered
  BY <1>1, <1>2, <1>3 DEF BatchOrder
<1>4. ASSUME NEW w \in Worker, flush(w) PROVE BatchOrder'
  <2>1. PICK b : b = [lsn |-> lsn, xacts |-> logBuffer[w]]
    OBVIOUS
  <2>2. Numbered' = Numbered \cup {b} /\ b.lsn = lsn /\ b.xacts = logBuffer[w]
    BY <1>4, <2>1, FlushNumbers
  <2>3. \A y \in RangeOf(b.xacts) : y \in Xact /\ phase[y] = "locked"
    BY <1>1, <2>2, RangeOfType DEF BatchesApart, Known, Queues
  <2>4. lsn \in Int
    BY KnownTypes
  <2>5. ASSUME NEW b1 \in Numbered, NEW b2 \in Numbered,
               NEW x \in RangeOf(b1.xacts), NEW y \in RangeOf(b2.xacts),
               x /= y, E!Conflict(x, y), b1.lsn <= b2.lsn
        PROVE  x \in E!Applied' /\ b1.lsn < b2.lsn
    BY <1>1, <1>2, <2>5 DEF BatchOrder
  <2>6. ASSUME NEW b1 \in Numbered PROVE b1.lsn \in Int /\ b1.lsn < b.lsn
    BY <2>2, NumberedTypes
  <2>7. ASSUME NEW b1 \in Numbered, NEW x \in RangeOf(b1.xacts), NEW y \in RangeOf(b.xacts),
               x /= y, E!Conflict(x, y)
        PROVE  x \in E!Applied'
    <3>1. x \in Xact /\ phase[x] \in PastLock
      BY <1>1, NumberedTypes DEF BatchesApart
    <3> QED
      BY <1>2, <2>3, <2>7, <3>1, ConflictApplied
  <2>8. ASSUME NEW x \in RangeOf(b.xacts), NEW y \in RangeOf(b.xacts),
               x /= y, E!Conflict(x, y)
        PROVE  FALSE
    <3>1. x \in E!Applied
      BY <2>3, <2>8, ConflictApplied DEF PastLock
    <3> QED
      BY <2>3, <3>1 DEF E!Applied
  <2>9. ASSUME NEW b1 \in Numbered', NEW b2 \in Numbered',
               NEW x \in RangeOf(b1.xacts), NEW y \in RangeOf(b2.xacts),
               x /= y, E!Conflict(x, y), b1.lsn <= b2.lsn
        PROVE  x \in E!Applied' /\ b1.lsn < b2.lsn
    <3>1. CASE b1 \in Numbered /\ b2 \in Numbered
      BY <2>5, <2>9, <3>1
    <3>2. CASE b1 \in Numbered /\ b2 = b
      BY <2>6, <2>7, <2>9, <3>2
    <3>3. CASE b1 = b /\ b2 \in Numbered
      <4>1. b2.lsn \in Int /\ b2.lsn < b1.lsn /\ b1.lsn \in Int
        BY <2>2, <2>4, <2>6, <3>3
      <4> QED
        BY <2>9, <4>1
    <3>4. CASE b1 = b /\ b2 = b
      BY <2>8, <2>9, <3>4
    <3> QED
      BY <2>2, <2>9, <3>1, <3>2, <3>3, <3>4
  <2> QED
    BY <2>9 DEF BatchOrder
<1> QED
  BY <1>3, <1>4, NumberedSame

\* The followers that have an entry, as AppliedIsReplicated counts them and as
\* Replication does.
LEMMA HoldersCounted ==
    ASSUME Known, NEW w \in Worker, NEW e \in RangeOf(wlog[w])
    PROVE  /\ HolderCount(e) \in Nat
           /\ Cardinality(RP!Holders(w, e.lsn)) \in Nat
           /\ Cardinality(RP!Holders(w, e.lsn)) <= HolderCount(e)
<1> DEFINE H == {f \in Follower : \E v \in Worker : e \in RangeOf(flog[v][f])}
<1>1. IsFiniteSet(Follower)
  BY FS_Interval, ComponentsAssumption DEF Follower
<1>2. ASSUME NEW f \in RP!Holders(w, e.lsn) PROVE f \in H
  <2>1. f \in Follower /\ f \in RP!Follower
    BY DEF RP!Holders, RP!Follower, Follower
  <2>2. PICK j \in DOMAIN flog[w][f] : flog[w][f][j].lsn = e.lsn
    BY DEF RP!Holders, RP!LsnsOf
  <2>3. j \in DOMAIN wlog[w] /\ flog[w][f][j] = wlog[w][j]
    BY <2>1, <2>2, ReplicationAssumed, RP!FollowerPositions DEF Known, Replicated
  <2>4. PICK i \in DOMAIN wlog[w] : e = wlog[w][i]
    BY DEF RangeOf
  <2>5. i = j
    BY <2>2, <2>3, <2>4, ReplicationAssumed, RP!OneEntryPerLsn DEF Known, Replicated
  <2> QED
    BY <2>1, <2>2, <2>3, <2>4, <2>5 DEF RangeOf
<1>3. H \subseteq Follower /\ RP!Holders(w, e.lsn) \subseteq H
  BY <1>2
<1> HIDE DEF H
<1>4. IsFiniteSet(H) /\ IsFiniteSet(RP!Holders(w, e.lsn))
      /\ Cardinality(RP!Holders(w, e.lsn)) <= Cardinality(H)
  BY <1>1, <1>3, FS_Subset
<1>5. Cardinality(H) \in Nat /\ Cardinality(RP!Holders(w, e.lsn)) \in Nat
  BY <1>4, FS_CardinalityType
<1> QED
  BY <1>4, <1>5 DEF H, HolderCount

LEMMA HolderCountGrows ==
    ASSUME Known, [Next]_vars, NEW e
    PROVE  /\ HolderCount(e) \in Nat /\ HolderCount(e)' \in Nat
           /\ HolderCount(e) <= HolderCount(e)'
<1> DEFINE H == {f \in Follower : \E w \in Worker : e \in RangeOf(flog[w][f])}
           G == {f \in Follower : \E w \in Worker : e \in RangeOf(flog'[w][f])}
<1>1. IsFiniteSet(Follower)
  BY FS_Interval, ComponentsAssumption DEF Follower
<1>2. H \subseteq G /\ G \subseteq Follower
  BY EntriesStay
<1>3. HolderCount(e) = Cardinality(H) /\ HolderCount(e)' = Cardinality(G)
  BY DEF HolderCount
<1> HIDE DEF H, G
<1>4. IsFiniteSet(G) /\ IsFiniteSet(H) /\ Cardinality(H) <= Cardinality(G)
  BY <1>1, <1>2, FS_Subset
<1>5. Cardinality(H) \in Nat /\ Cardinality(G) \in Nat
  BY <1>4, FS_CardinalityType
<1> QED
  BY <1>3, <1>4, <1>5

\* A request whose commit begins is in an entry that a majority has.
LEMMA CommitIsReplicated ==
    ASSUME Known, IInv, NEW w \in Worker, NEW f \in Follower, commitWork(w, f)
    PROVE  \E e \in Entries : /\ Head(todo[w][f]) \in RangeOf(e.xacts)
                              /\ 2 * (HolderCount(e) + 1) > NF + 1
<1>1. npc[w][f] = "commit" /\ Head(todo[w][f]) \in RangeOf(todo[w][f])
  BY HeadCommitted
<1>2. PICK e \in RangeOf(wlog[w]) :
         e.lsn = ack[w][f] /\ RangeOf(todo[w][f]) \subseteq RangeOf(e.xacts)
  BY <1>1 DEF IInv, CommitsOwn
<1>3. e \in Entries /\ e.lsn \in RP!LsnsOf(wlog[w])
  BY <1>2 DEF Entries, RangeOf, RP!LsnsOf
<1>4. RP!Loaded(w, e.lsn)
  BY <1>1, <1>2 DEF Known, Replicated, RP!IInv, RP!OneCommitter, Follower, RP!Follower
<1>5. 2 * (RP!Cardinality(RP!Holders(w, e.lsn)) + 1) > NF + 1
  BY <1>3, <1>4 DEF Known, Replicated, RP!Durable, RP!clusterSize
<1>6. 2 * (Cardinality(RP!Holders(w, e.lsn)) + 1) > NF + 1
  BY <1>5, SameCardinality
<1> DEFINE m == Cardinality(RP!Holders(w, e.lsn))
           n == HolderCount(e)
<1>7. m \in Nat /\ n \in Nat /\ m <= n
  BY <1>2, HoldersCounted
<1>8. 2 * (m + 1) > NF + 1 /\ NF \in Nat
  BY <1>6, ComponentsAssumption
<1> HIDE DEF m, n
<1>9. 2 * (n + 1) > NF + 1
  BY <1>7, <1>8
<1> QED
  BY <1>1, <1>2, <1>3, <1>9 DEF n

LEMMA AppliedKept ==
    ASSUME Known, IInv, [Next]_vars
    PROVE  AppliedIsReplicated'
<1>1. Entries \subseteq Entries'
  BY EntriesStay DEF Entries
<1>2. ASSUME NEW e \in Entries, 2 * (HolderCount(e) + 1) > NF + 1
      PROVE  2 * (HolderCount(e)' + 1) > NF + 1
  <2> DEFINE m == HolderCount(e)
             n == HolderCount(e)'
  <2>1. m \in Nat /\ n \in Nat /\ m <= n
    BY HolderCountGrows
  <2>2. 2 * (m + 1) > NF + 1 /\ NF \in Nat
    BY <1>2, ComponentsAssumption
  <2> HIDE DEF m, n
  <2>3. 2 * (n + 1) > NF + 1
    BY <2>1, <2>2
  <2> QED
    BY <2>3 DEF n
<1>3. ASSUME NEW x \in Xact, phase'[x] \in Committing
      PROVE  \E e \in Entries : x \in RangeOf(e.xacts) /\ 2 * (HolderCount(e) + 1) > NF + 1
  <2>1. CASE phase[x] \in Committing
    BY <2>1 DEF IInv, AppliedIsReplicated
  <2>2. CASE phase[x] \notin Committing
    <3>1. ASSUME NEW w \in Worker, tryLock(w) PROVE FALSE
      BY <1>3, <2>2, <3>1, TryingPhases DEF PastLock
    <3>2. ASSUME NEW w \in Worker, acquire(w) PROVE FALSE
      BY <1>3, <2>2, <3>2, AcquirePhases DEF Committing
    <3>3. phase' /= phase
      BY <1>3, <2>2
    <3>4. ~ UNCHANGED vars
      BY <3>3 DEF vars, kvsVars
    <3>5. PICK w \in Worker : \E f \in Follower : commitWork(w, f)
      BY <3>1, <3>2, <3>3, <3>4, PhaseFrame
    <3>6. PICK f \in Follower : commitWork(w, f)
      BY <3>5
    <3>7. x = Head(todo[w][f])
      BY <1>3, <2>2, <3>6, CommittingPhases
    <3> QED
      BY <3>6, <3>7, CommitIsReplicated
  <2> QED
    BY <2>1, <2>2
<1>4. ASSUME NEW x \in Xact, phase'[x] \in Committing
      PROVE  \E e \in Entries' : x \in RangeOf(e.xacts) /\ 2 * (HolderCount(e)' + 1) > NF + 1
  BY <1>1, <1>2, <1>3, <1>4
<1> QED
  BY <1>4 DEF AppliedIsReplicated

LEMMA InitHolds == Init => IInv
<1> SUFFICES ASSUME Init PROVE IInv
  OBVIOUS
<1>1. /\ wpc = [w \in Worker |-> "run"] /\ wlog = [w \in Worker |-> <<>>]
      /\ taskList = [w \in Worker |-> {}]
      /\ npc = [w \in Worker |-> [f \in Follower |-> "recv"]]
      /\ todo = [w \in Worker |-> [f \in Follower |-> <<>>]]
      /\ logBuffer = [w \in Worker |-> <<>>]
      /\ phase = [x \in Xact |-> "new"]
  BY DEF Init, R!Init, E!Init, R!PerFollower, R!Follower, Follower
<1>2. Entries = {} /\ Numbered = {}
  BY <1>1, RangeOfEmpty DEF Entries, Numbered
<1>3. BatchesApart
  BY <1>1, <1>2, RangeOfEmpty DEF BatchesApart
<1>4. CommitsOwn
  BY <1>1 DEF CommitsOwn
<1>5. LocksHandedOver
  BY <1>1, RangeOfEmpty, HandedOver DEF InBuffer, InFlight, InTask
<1>6. BatchOrder
  BY <1>2 DEF BatchOrder
<1>7. AppliedIsReplicated
  BY <1>1 DEF AppliedIsReplicated, Committing
<1> QED
  BY <1>3, <1>4, <1>5, <1>6, <1>7 DEF IInv

\* The invariant of the leader with its clients, on top of those of its parts.
THEOREM Invariance == Spec => []IInv
<1>1. Known /\ IInv /\ [Next]_vars => IInv'
  <2> SUFFICES ASSUME Known, IInv, [Next]_vars PROVE IInv'
    OBVIOUS
  <2> QED
    BY ApartKept, CommitsOwnKept, HandedOverKept, OrderKept, AppliedKept DEF IInv
<1> QED
  BY <1>1, InitHolds, KnownAlways, PTL DEF Spec

\* LocksHandedOver (raft.cc, worker to notifier): the locks that a worker has
\* taken are neither lost nor doubled on their way through the batch, the
\* packet and the task to the notifier that gives them back.
THEOREM HandsOver == Spec => []LocksHandedOver
<1>1. IInv => LocksHandedOver
  BY DEF IInv
<1> QED
  BY <1>1, Invariance, PTL

\* LogOrderIsCommitOrder (raft.cc, locks held until commitWork): of two
\* conflicting requests in the logs, the one with the smaller number was applied
\* before the other was logged, whichever workers logged them.
THEOREM LogsInCommitOrder == Spec => []LogOrderIsCommitOrder
<1>1. BatchOrder => LogOrderIsCommitOrder
  BY DEF BatchOrder, LogOrderIsCommitOrder, Numbered
<1>2. IInv => BatchOrder
  BY DEF IInv
<1> QED
  BY <1>1, <1>2, Invariance, PTL

\* AppliedIsReplicated (raft.cc, notifier): the store is never ahead of the log
\* of a majority.
THEOREM NeverAhead == Spec => []AppliedIsReplicated
<1>1. IInv => AppliedIsReplicated
  BY DEF IInv
<1> QED
  BY <1>1, Invariance, PTL

-----------------------------------------------------------------------------
(* What the clients are told *)

\* The client has sent the command of the request.
Sent(x) ==
    \E c \in Client : \E i \in DOMAIN Command[c] :
        /\ SentIn(x, c, i)
        /\ i < commandId[c] \/ (i = commandId[c] /\ commitCount[c] >= 0)

\* The commit message of the request has been sent.
Told(x) == phase[x] = "done" /\ ~ InCommit(x)

ToldIn(c, i) == {x \in RangeOf(Command[c][i]) : Told(x)}

OnceEach(s) == \A i, j \in DOMAIN s : s[i] = s[j] => i = j

\* No request is twice in one buffer, batch or task.
Singly ==
    /\ \A w \in Worker : OnceEach(logBuffer[w])
    /\ \A b \in Numbered : OnceEach(b.xacts)
    /\ \A w \in Worker, f \in Follower : OnceEach(todo[w][f])

\* The leader works on requests that were sent.
OnlySent ==
    /\ \A c \in Client : \A x \in RangeOf(producing[c]) : Sent(x)
    /\ \A w \in Worker : \A x \in RangeOf(xactQ[w]) : Sent(x)
    /\ \A w \in Worker : cur[w] /= None => Sent(cur[w])
    /\ \A x \in Xact : phase[x] /= "new" => Sent(x)

\* A client has been told of all requests of its former commands, and it counts
\* messages for its current one only.
AnsweredTo(c) ==
    /\ \A i \in DOMAIN Command[c] : i < commandId[c] =>
          \A x \in RangeOf(Command[c][i]) : Told(x)
    /\ \A j \in DOMAIN inbox[c] : inbox[c][j] = commandId[c]
    /\ commitCount[c] = -1 => inbox[c] = <<>>
    /\ commitCount[c] /= -1 =>
          /\ commandId[c] \in DOMAIN Command[c]
          /\ commitCount[c] + Len(inbox[c]) <= Cardinality(ToldIn(c, commandId[c]))

Answered ==
    /\ commandId \in [Client -> Nat]
    /\ commitCount \in [Client -> Nat \cup {-1}]
    /\ inbox \in [Client -> Seq(Nat)]
    /\ \A c \in Client : AnsweredTo(c)

AInv == Singly /\ OnlySent /\ Answered

LEMMA CommandTypes ==
    ASSUME NEW c \in Client, NEW i \in DOMAIN Command[c]
    PROVE  /\ i \in Nat /\ i >= 1
           /\ Command[c][i] \in [1 .. MAX_CLI_REQ -> Xact]
           /\ Command[c][i] \in Seq(Xact)
           /\ RangeOf(Command[c][i]) \subseteq Xact
           /\ IsFiniteSet(RangeOf(Command[c][i]))
           /\ Cardinality(RangeOf(Command[c][i])) <= MAX_CLI_REQ
<1> DEFINE s == Command[c][i]
<1>1. i \in Nat /\ i >= 1 /\ s \in [1 .. MAX_CLI_REQ -> Xact]
  BY RaftTwoPLAssumption
<1> HIDE DEF s
<1>2. s \in Seq(Xact)
  BY <1>1, CapacityIsNat
<1>3. s \in Surjection(1 .. MAX_CLI_REQ, RangeOf(s))
  BY <1>1 DEF Surjection, RangeOf
<1>4. /\ IsFiniteSet(1 .. MAX_CLI_REQ)
      /\ Cardinality(1 .. MAX_CLI_REQ) = MAX_CLI_REQ
  <2>1. MAX_CLI_REQ \in Int /\ MAX_CLI_REQ >= 1
    BY RaftTwoPLAssumption
  <2> QED
    BY <2>1, FS_Interval
<1>5. IsFiniteSet(RangeOf(s)) /\ Cardinality(RangeOf(s)) <= MAX_CLI_REQ
  BY <1>3, <1>4, FS_Surjection
<1> QED
  BY <1>1, <1>2, <1>5, RangeOfType DEF s

LEMMA OnceEachAppend ==
    ASSUME NEW S, NEW s \in Seq(S), NEW e \in S, OnceEach(s), e \notin RangeOf(s)
    PROVE  OnceEach(Append(s, e))
<1>1. /\ Len(s) \in Nat /\ DOMAIN s = 1 .. Len(s)
      /\ DOMAIN Append(s, e) = 1 .. Len(s) + 1
      /\ Append(s, e)[Len(s) + 1] = e
  OBVIOUS
<1>2. \A i \in DOMAIN s : Append(s, e)[i] = s[i] /\ s[i] /= e
  BY DEF RangeOf
<1>3. \A i \in 1 .. Len(s) + 1 : i \in DOMAIN s \/ i = Len(s) + 1
  BY <1>1
<1> QED
  BY <1>1, <1>2, <1>3 DEF OnceEach

LEMMA OnceEachTail ==
    ASSUME NEW S, NEW s \in Seq(S), s /= <<>>, OnceEach(s)
    PROVE  OnceEach(Tail(s)) /\ Head(s) \notin RangeOf(Tail(s))
<1>1. /\ Len(s) \in Nat /\ DOMAIN s = 1 .. Len(s) /\ Head(s) = s[1] /\ Len(s) >= 1
      /\ DOMAIN Tail(s) = 1 .. Len(s) - 1
      /\ \A i \in 1 .. Len(s) - 1 : Tail(s)[i] = s[i + 1]
  OBVIOUS
<1>2. \A i \in 1 .. Len(s) - 1 : i \in Nat /\ i >= 1 /\ i + 1 \in DOMAIN s /\ i + 1 /= 1
  BY <1>1
<1>3. ASSUME NEW i \in DOMAIN Tail(s), NEW j \in DOMAIN Tail(s), Tail(s)[i] = Tail(s)[j]
      PROVE  i = j
  <2>1. i + 1 = j + 1 /\ i \in Nat /\ j \in Nat
    BY <1>1, <1>2, <1>3 DEF OnceEach
  <2> QED
    BY <2>1
<1>4. Head(s) \notin RangeOf(Tail(s))
  BY <1>1, <1>2 DEF OnceEach, RangeOf
<1> QED
  BY <1>3, <1>4 DEF OnceEach

LEMMA OnceEachEmpty == OnceEach(<<>>)
  BY DEF OnceEach

LEMMA SinglyKept ==
    ASSUME Known, IInv, Singly, [Next]_vars
    PROVE  Singly'
<1>1. ASSUME NEW v \in Worker PROVE OnceEach(logBuffer'[v])
  <2>1. ASSUME NEW w \in Worker, acquire(w) PROVE OnceEach(logBuffer'[v])
    <3>1. /\ cur[w] \in Xact /\ phase[cur[w]] = "lockTo"
          /\ logBuffer' = [logBuffer EXCEPT ![w] = Append(@, cur[w])]
          /\ logBuffer \in [Worker -> Seq(Xact)]
      BY <2>1, AcquirePhases DEF acquire, Known, Queues
    <3>2. cur[w] \notin RangeOf(logBuffer[w])
      BY <3>1 DEF IInv, BatchesApart
    <3>3. OnceEach(Append(logBuffer[w], cur[w]))
      BY <3>1, <3>2, OnceEachAppend DEF Singly
    <3> QED
      BY <3>1, <3>3 DEF Singly
  <2>2. ASSUME NEW w \in Worker, flush(w) PROVE OnceEach(logBuffer'[v])
    BY <2>2, FlushNumbers, OnceEachEmpty DEF Singly
  <2> QED
    BY <2>1, <2>2, BufferFrame DEF Singly
<1>2. ASSUME NEW b \in Numbered' PROVE OnceEach(b.xacts)
  <2>1. ASSUME NEW w \in Worker, flush(w) PROVE OnceEach(b.xacts)
    BY <1>2, <2>1, FlushNumbers DEF Singly
  <2> QED
    BY <1>2, <2>1, NumberedSame DEF Singly
<1>3. ASSUME NEW v \in Worker, NEW g \in Follower PROVE OnceEach(todo'[v][g])
  <2>1. ASSUME NEW w \in Worker, NEW f \in Follower, R!TaskFound(w, f)
        PROVE  OnceEach(todo'[v][g])
    <3>1. PICK t \in RangeOf(wlog[w]) :
             /\ todo'[w][f] = t.xacts
             /\ ~ (v = w /\ g = f) => todo'[v][g] = todo[v][g]
      BY <2>1, TaskFoundTakes
    <3>2. t \in Numbered
      BY DEF Numbered, Entries
    <3> QED
      BY <3>1, <3>2 DEF Singly
  <2>2. ASSUME NEW w \in Worker, NEW f \in Follower, R!commitNext(w, f)
        PROVE  OnceEach(todo'[v][g])
    <3>1. npc[w][f] = "commit" /\ todo' = [todo EXCEPT ![w][f] = Tail(@)]
      BY <2>2 DEF R!commitNext
    <3>2. todo[w][f] \in Seq(Xact) /\ todo[w][f] /= <<>>
      BY <3>1, HeadOfTodo DEF Known
    <3>3. OnceEach(Tail(todo[w][f]))
      BY <3>2, OnceEachTail DEF Singly
    <3> QED
      BY <3>1, <3>3, KnownTypes DEF Singly
  <2>3. ASSUME NEW w \in Worker, NEW f \in Follower,
               R!addVoteCount(w, f) \/ R!TaskNotFound(w, f)
        PROVE  OnceEach(todo'[v][g])
    BY <2>3, countingKeeps DEF Singly
  <2> QED
    BY <2>1, <2>2, <2>3, NotifierFrame DEF R!notifier, Singly
<1> QED
  BY <1>1, <1>2, <1>3 DEF Singly

\* What the clients' own variables may do.
LEMMA ClientMoves ==
    ASSUME Answered, [Next]_vars, NEW c \in Client
    PROVE  \/ commandId'[c] = commandId[c] /\ commitCount'[c] = commitCount[c]
           \/ commandId'[c] = commandId[c] /\ commitCount'[c] >= 0 /\ commitCount'[c] \in Nat
           \/ commandId'[c] = commandId[c] + 1 /\ commitCount'[c] = -1
<1>1. ASSUME NEW d \in Client, sendCommand(d)
      PROVE  \/ commandId'[c] = commandId[c] /\ commitCount'[c] = commitCount[c]
             \/ commandId'[c] = commandId[c] /\ commitCount'[c] = 0
  BY <1>1 DEF sendCommand, Answered
<1>2. ASSUME NEW d \in Client, recvCommit(d)
      PROVE  \/ commandId'[c] = commandId[c] /\ commitCount'[c] = commitCount[c]
             \/ commandId'[c] = commandId[c] /\ commitCount'[c] \in Nat
             \/ commandId'[c] = commandId[c] + 1 /\ commitCount'[c] = -1
  <2> DEFINE n == commitCount[d] + (IF Head(inbox[d]) = commandId[d] THEN 1 ELSE 0)
  <2>1. commitCount[d] \in Nat
    BY <1>2 DEF recvCommit, Answered
  <2>2. n \in Nat
    <3> DEFINE m == commitCount[d]
    <3>1. m \in Nat => m + 1 \in Nat /\ m + 0 \in Nat
      OBVIOUS
    <3> QED
      BY <2>1, <3>1
  <2>3. \/ /\ commandId' = [commandId EXCEPT ![d] = @ + 1]
           /\ commitCount' = [commitCount EXCEPT ![d] = -1]
        \/ /\ commandId' = commandId
           /\ commitCount' = [commitCount EXCEPT ![d] = n]
    BY <1>2 DEF recvCommit
  <2> HIDE DEF n
  <2> QED
    BY <2>2, <2>3 DEF Answered
<1>3. ASSUME NEW d \in Client, producer(d) PROVE UNCHANGED clientVars
  BY <1>3 DEF producer
<1>4. ASSUME NEW w \in Worker, worker(w) PROVE UNCHANGED clientVars
  BY <1>4 DEF worker, xactDequeue, tryLock, acquire, flush, sendBatch
<1>5. ASSUME NEW w \in Worker, NEW f \in Follower, logReceiver(w, f) \/ notifier(w, f)
      PROVE  UNCHANGED clientVars
  BY <1>5 DEF logReceiver, notifier, countAck, commitWork, notifyClient
<1>6. UNCHANGED vars => UNCHANGED clientVars
  BY DEF vars
<1>7. \A n \in Nat : n >= 0
  OBVIOUS
<1> QED
  BY <1>1, <1>2, <1>3, <1>4, <1>5, <1>6, <1>7 DEF Next, client, clientVars

LEMMA SentStays ==
    ASSUME Answered, [Next]_vars, NEW x, Sent(x)
    PROVE  Sent(x)'
<1>1. PICK c \in Client : \E i \in DOMAIN Command[c] :
         /\ SentIn(x, c, i)
         /\ i < commandId[c] \/ (i = commandId[c] /\ commitCount[c] >= 0)
  BY DEF Sent
<1>2. PICK i \in DOMAIN Command[c] :
         /\ SentIn(x, c, i)
         /\ i < commandId[c] \/ (i = commandId[c] /\ commitCount[c] >= 0)
  BY <1>1
<1>5. i \in Nat
  BY CommandTypes
<1> DEFINE k == commandId[c]
<1>3. k \in Nat
  BY DEF Answered
<1>4. i < commandId'[c] \/ (i = commandId'[c] /\ commitCount'[c] >= 0)
  <2>1. k + 1 > k /\ (i < k => i < k + 1)
    BY <1>5, <1>3
  <2> QED
    BY <1>2, <2>1, ClientMoves
<1> QED
  BY <1>2, <1>4 DEF Sent, SentIn

LEMMA HeadIsIn ==
    ASSUME NEW S, NEW s \in Seq(S), s /= <<>>
    PROVE  /\ Head(s) \in RangeOf(s) /\ Head(s) \in S
           /\ Tail(s) \in Seq(S) /\ RangeOf(Tail(s)) \subseteq RangeOf(s)
  BY RangeOfTail

LEMMA OnlySentKept ==
    ASSUME Known, IInv, Answered, OnlySent, [Next]_vars
    PROVE  OnlySent'
<1>1. ASSUME NEW c \in Client, NEW x \in RangeOf(producing'[c]) PROVE Sent(x)'
  <2>1. ASSUME NEW d \in Client, sendCommand(d), c = d PROVE Sent(x)'
    <3>1. /\ commandId[d] \in DOMAIN Command[d] /\ commandId'[d] = commandId[d]
          /\ commitCount'[d] = 0 /\ producing'[d] = Command[d][commandId[d]]
      BY <2>1 DEF sendCommand, Answered, Known, Queues
    <3> QED
      BY <1>1, <2>1, <3>1 DEF Sent, SentIn
  <2>2. ASSUME NEW d \in Client, producer(d), c = d PROVE x \in RangeOf(producing[c])
    <3>1. producing[d] /= <<>> /\ producing[d] \in Seq(Xact)
          /\ producing'[d] = Tail(producing[d])
      BY <2>2 DEF producer, Known, Queues
    <3> QED
      BY <1>1, <2>2, <3>1, HeadIsIn
  <2>3. ASSUME NEW d \in Client, sendCommand(d) \/ producer(d), c /= d
        PROVE  producing'[c] = producing[c]
    BY <2>3 DEF sendCommand, producer, Known, Queues
  <2>4. ASSUME NEW d \in Client, recvCommit(d) PROVE producing' = producing
    BY <2>4 DEF recvCommit
  <2>5. ASSUME NEW w \in Worker, worker(w) PROVE producing' = producing
    BY <2>5 DEF worker, xactDequeue, tryLock, acquire, flush, sendBatch
  <2>6. ASSUME NEW w \in Worker, NEW f \in Follower, logReceiver(w, f) \/ notifier(w, f)
        PROVE  producing' = producing
    BY <2>6 DEF logReceiver, notifier, countAck, commitWork, notifyClient
  <2>7. UNCHANGED vars => producing' = producing
    BY DEF vars
  <2>8. x \in RangeOf(producing[c]) => Sent(x)'
    BY SentStays DEF OnlySent
  <2> QED
    BY <1>1, <2>1, <2>2, <2>3, <2>4, <2>5, <2>6, <2>7, <2>8 DEF Next, client
<1>2. ASSUME NEW w \in Worker, NEW x \in RangeOf(xactQ'[w]) PROVE Sent(x)'
  <2>1. ASSUME NEW c \in Client, producer(c)
        PROVE  x \in RangeOf(xactQ[w]) \/ x \in RangeOf(producing[c])
    <3> DEFINE v == WorkerOf[c]
    <3>1. /\ producing[c] /= <<>> /\ producing[c] \in Seq(Xact)
          /\ v \in Worker /\ xactQ[v] \in Seq(Xact)
          /\ xactQ'[w] = IF w = v THEN Append(xactQ[v], Head(producing[c])) ELSE xactQ[w]
      BY <2>1, RaftTwoPLAssumption DEF producer, xactEnqueue, Known, Queues
    <3>2. Head(producing[c]) \in RangeOf(producing[c]) /\ Head(producing[c]) \in Xact
      BY <3>1, HeadIsIn
    <3>3. RangeOf(Append(xactQ[v], Head(producing[c])))
             = RangeOf(xactQ[v]) \cup {Head(producing[c])}
      BY <3>1, <3>2, RangeOfAppend
    <3> QED
      BY <1>2, <3>1, <3>2, <3>3
  <2>2. ASSUME NEW v \in Worker, xactDequeue(v) PROVE x \in RangeOf(xactQ[w])
    <3>1. /\ xactQ[v] /= <<>> /\ xactQ[v] \in Seq(Xact)
          /\ xactQ'[w] = IF w = v THEN Tail(xactQ[v]) ELSE xactQ[w]
      BY <2>2 DEF xactDequeue, Known, Queues
    <3> QED
      BY <1>2, <3>1, HeadIsIn
  <2>3. ASSUME NEW c \in Client, sendCommand(c) \/ recvCommit(c) PROVE xactQ' = xactQ
    BY <2>3 DEF sendCommand, recvCommit
  <2>4. ASSUME NEW v \in Worker, tryLock(v) \/ acquire(v) \/ flush(v) \/ sendBatch(v)
        PROVE  xactQ' = xactQ
    BY <2>4 DEF tryLock, acquire, flush, sendBatch
  <2>5. ASSUME NEW v \in Worker, NEW f \in Follower, logReceiver(v, f) \/ notifier(v, f)
        PROVE  xactQ' = xactQ
    BY <2>5 DEF logReceiver, notifier, countAck, commitWork, notifyClient
  <2>6. UNCHANGED vars => xactQ' = xactQ
    BY DEF vars
  <2>7. x \in RangeOf(xactQ[w]) \/ (\E c \in Client : x \in RangeOf(producing[c])) => Sent(x)'
    BY SentStays DEF OnlySent
  <2> QED
    BY <1>2, <2>1, <2>2, <2>3, <2>4, <2>5, <2>6, <2>7 DEF Next, client, worker
<1>3. ASSUME NEW w \in Worker, cur'[w] /= None PROVE Sent(cur[w])' 
  <2>1. ASSUME NEW v \in Worker, xactDequeue(v) PROVE Sent(cur'[w])
    <3>1. /\ xactQ[v] /= <<>> /\ xactQ[v] \in Seq(Xact)
          /\ cur'[w] = IF w = v THEN Head(xactQ[v]) ELSE cur[w]
      BY <2>1 DEF xactDequeue, Known, Queues
    <3> QED
      BY <1>3, <3>1, HeadIsIn DEF OnlySent
  <2>2. ASSUME NEW v \in Worker, acquire(v) PROVE cur'[w] = cur[w]
    BY <1>3, <2>2 DEF acquire, Known, Queues
  <2>3. ASSUME NEW c \in Client, client(c) PROVE cur' = cur
    BY <2>3 DEF client, sendCommand, producer, recvCommit, workerVars
  <2>4. ASSUME NEW v \in Worker, tryLock(v) \/ flush(v) \/ sendBatch(v) PROVE cur' = cur
    BY <2>4 DEF tryLock, flush, sendBatch, workerVars
  <2>5. ASSUME NEW v \in Worker, NEW f \in Follower, logReceiver(v, f) \/ notifier(v, f)
        PROVE  cur' = cur
    BY <2>5 DEF logReceiver, notifier, countAck, commitWork, notifyClient, workerVars
  <2>6. UNCHANGED vars => cur' = cur
    BY DEF vars, workerVars
  <2>7. Sent(cur'[w])
    BY <1>3, <2>1, <2>2, <2>3, <2>4, <2>5, <2>6 DEF Next, worker, OnlySent
  <2> QED
    BY <2>7, SentStays DEF Sent, SentIn
<1>4. ASSUME NEW x \in Xact, phase'[x] /= "new" PROVE Sent(x)'
  <2>1. ASSUME NEW w \in Worker, tryLock(w) \/ acquire(w), phase[x] = "new" PROVE Sent(x)
    <3>1. cur[w] /= None /\ (x /= cur[w] => phase'[x] = phase[x])
      BY <2>1, TryingPhases, AcquirePhases DEF tryLock, acquire
    <3> QED
      BY <1>4, <2>1, <3>1 DEF OnlySent
  <2>2. ASSUME NEW w \in Worker, NEW f \in Follower, commitWork(w, f) PROVE phase[x] /= "new"
    BY <1>4, <2>2, CommittingPhases DEF PastLock, Committing
  <2>3. UNCHANGED vars => phase' = phase
    BY DEF vars, kvsVars
  <2>4. Sent(x)
    BY <1>4, <2>1, <2>2, <2>3, PhaseFrame DEF OnlySent
  <2> QED
    BY <2>4, SentStays
<1> QED
  BY <1>1, <1>2, <1>3, <1>4 DEF OnlySent

\* A request is in the hands of one notifier.
LEMMA OneNotifier ==
    ASSUME Known, IInv, NEW w \in Worker, NEW f \in Follower, NEW v \in Worker,
           NEW g \in Follower, NEW x, x \in RangeOf(todo[w][f]), x \in RangeOf(todo[v][g])
    PROVE  v = w /\ g = f
<1>1. npc[w][f] = "commit" /\ npc[v][g] = "commit"
  BY RangeOfEmpty DEF IInv, CommitsOwn
<1>2. PICK e \in RangeOf(wlog[w]) : e.lsn = ack[w][f] /\ x \in RangeOf(e.xacts)
  BY <1>1 DEF IInv, CommitsOwn
<1>3. PICK d \in RangeOf(wlog[v]) : d.lsn = ack[v][g] /\ x \in RangeOf(d.xacts)
  BY <1>1 DEF IInv, CommitsOwn
<1>4. /\ e \in Numbered /\ d \in Numbered
      /\ e.lsn \in RP!LsnsOf(wlog[w]) /\ d.lsn \in RP!LsnsOf(wlog[v])
  BY DEF Numbered, Entries, RangeOf, RP!LsnsOf
<1>5. e = d
  BY <1>2, <1>3, <1>4 DEF IInv, BatchesApart
<1>6. v = w
  BY <1>4, <1>5, NumbersApart
<1>7. g = f
  BY <1>1, <1>2, <1>3, <1>5, <1>6
  DEF Known, Replicated, RP!IInv, RP!OneCommitter, Follower, RP!Follower
<1> QED
  BY <1>6, <1>7

\* What has been told stays so: a committed request does not come back.
LEMMA ToldStays ==
    ASSUME Known, IInv, [Next]_vars, NEW x \in Xact, Told(x)
    PROVE  Told(x)'
<1>1. phase[x] = "done" /\ ~ InCommit(x)
  BY DEF Told
<1>2. phase'[x] = "done"
  <2>1. ASSUME NEW w \in Worker, tryLock(w) \/ acquire(w) PROVE phase'[x] = phase[x]
    BY <1>1, <2>1, TryingPhases, AcquirePhases DEF PastLock, Committing
  <2>2. ASSUME NEW w \in Worker, NEW f \in Follower, commitWork(w, f)
        PROVE  phase'[x] = phase[x]
    BY <1>1, <2>2, HeadCommitted, CommittingPhases DEF InCommit
  <2>3. UNCHANGED vars => phase' = phase
    BY DEF vars, kvsVars
  <2> QED
    BY <1>1, <2>1, <2>2, <2>3, PhaseFrame
<1>3. ~ InTask(x)
  BY <1>1, HandedOver DEF IInv
<1>4. ASSUME NEW v \in Worker, NEW g \in Follower PROVE x \notin RangeOf(todo'[v][g])
  <2>1. x \notin RangeOf(todo[v][g])
    BY <1>1 DEF InCommit
  <2>2. ASSUME NEW w \in Worker, NEW f \in Follower, R!TaskFound(w, f)
        PROVE  x \notin RangeOf(todo'[v][g])
    <3>1. PICK t \in taskList[w] :
             /\ todo'[w][f] = t.xacts
             /\ ~ (v = w /\ g = f) => todo'[v][g] = todo[v][g]
      BY <2>2, TaskFoundTakes
    <3>2. x \notin RangeOf(t.xacts)
      BY <1>3 DEF InTask
    <3> QED
      BY <2>1, <3>1, <3>2
  <2>3. ASSUME NEW w \in Worker, NEW f \in Follower, R!commitNext(w, f)
        PROVE  x \notin RangeOf(todo'[v][g])
    BY <2>1, <2>3, commitNextTakes
  <2>4. ASSUME NEW w \in Worker, NEW f \in Follower,
               R!addVoteCount(w, f) \/ R!TaskNotFound(w, f)
        PROVE  x \notin RangeOf(todo'[v][g])
    BY <2>1, <2>4, countingKeeps
  <2> QED
    BY <2>1, <2>2, <2>3, <2>4, NotifierFrame DEF R!notifier
<1> QED
  BY <1>2, <1>4 DEF Told, InCommit

\* A commit message tells of one request more.
LEMMA notifyTells ==
    ASSUME Known, IInv, Singly, NEW w \in Worker, NEW f \in Follower, notifyClient(w, f),
           NEW x, x = Head(todo[w][f])
    PROVE  x \in Xact /\ phase[x] = "done" /\ ~ Told(x) /\ Told(x)'
<1>1. /\ npc[w][f] = "commit" /\ phase[x] = "done" /\ phase' = phase
      /\ todo' = [todo EXCEPT ![w][f] = Tail(@)]
  BY DEF notifyClient, kvsVars, R!commitNext
<1>2. todo[w][f] \in Seq(Xact) /\ todo[w][f] /= <<>> /\ x \in Xact
  BY <1>1, HeadOfTodo DEF Known
<1>3. x \in RangeOf(todo[w][f]) /\ x \notin RangeOf(Tail(todo[w][f]))
  <2> DEFINE s == todo[w][f]
  <2>1. OnceEach(s) /\ s \in Seq(Xact) /\ s /= <<>> /\ x = Head(s)
    BY <1>2 DEF Singly
  <2> HIDE DEF s
  <2>2. x \in RangeOf(s) /\ x \notin RangeOf(Tail(s))
    BY <2>1, RangeOfTail, OnceEachTail
  <2> QED
    BY <2>2 DEF s
<1>4. ASSUME NEW v \in Worker, NEW g \in Follower PROVE x \notin RangeOf(todo'[v][g])
  <2>1. CASE v = w /\ g = f
    BY <1>1, <1>3, <2>1, KnownTypes
  <2>2. CASE ~ (v = w /\ g = f)
    <3>1. todo'[v][g] = todo[v][g]
      BY <1>1, <2>2, KnownTypes
    <3>2. x \notin RangeOf(todo[v][g])
      BY <1>3, <2>2, OneNotifier
    <3> QED
      BY <3>1, <3>2
  <2> QED
    BY <2>1, <2>2
<1> QED
  BY <1>1, <1>2, <1>3, <1>4 DEF Told, InCommit

\* Of each command, more and more is told.
LEMMA ToldGrows ==
    ASSUME Known, IInv, [Next]_vars, NEW c \in Client, NEW i \in DOMAIN Command[c]
    PROVE  /\ ToldIn(c, i) \subseteq ToldIn(c, i)' /\ IsFiniteSet(ToldIn(c, i)')
           /\ Cardinality(ToldIn(c, i)) \in Nat /\ Cardinality(ToldIn(c, i)') \in Nat
           /\ Cardinality(ToldIn(c, i)) <= Cardinality(ToldIn(c, i)')
<1>1. ToldIn(c, i) \subseteq ToldIn(c, i)'
  BY ToldStays, CommandTypes DEF ToldIn
<1>2. /\ ToldIn(c, i)' \subseteq RangeOf(Command[c][i])
      /\ IsFiniteSet(RangeOf(Command[c][i]))
  BY CommandTypes DEF ToldIn
<1>3. IsFiniteSet(ToldIn(c, i)')
  BY <1>2, FS_Subset
<1> QED
  BY <1>1, <1>3, FS_Subset, FS_CardinalityType

LEMMA ToldAll ==
    ASSUME NEW c \in Client, NEW i \in DOMAIN Command[c],
           Cardinality(ToldIn(c, i)) >= MAX_CLI_REQ
    PROVE  /\ \A x \in RangeOf(Command[c][i]) : Told(x)
           /\ Cardinality(ToldIn(c, i)) = MAX_CLI_REQ
<1> DEFINE S == RangeOf(Command[c][i])
           T == ToldIn(c, i)
<1>1. IsFiniteSet(S) /\ Cardinality(S) <= MAX_CLI_REQ /\ T \subseteq S
  BY CommandTypes DEF ToldIn
<1>2. T = S /\ Cardinality(T) = MAX_CLI_REQ
  <2> HIDE DEF S, T
  <2>1. IsFiniteSet(T) /\ Cardinality(T) <= Cardinality(S)
    BY <1>1, FS_Subset
  <2>2. Cardinality(S) \in Nat /\ Cardinality(T) \in Nat /\ MAX_CLI_REQ \in Nat
    BY <1>1, <2>1, FS_CardinalityType, CapacityIsNat
  <2>3. Cardinality(T) >= MAX_CLI_REQ
    BY DEF T
  <2>4. Cardinality(T) = Cardinality(S) /\ Cardinality(T) = MAX_CLI_REQ
    BY <1>1, <2>1, <2>2, <2>3
  <2> QED
    BY <1>1, <2>4, FS_Subset
<1> QED
  BY <1>2 DEF ToldIn

LEMMA AnswersFrame ==
    ASSUME Known, IInv, Answered, [Next]_vars, NEW c \in Client,
           commandId'[c] = commandId[c], commitCount'[c] = commitCount[c],
           inbox'[c] = inbox[c]
    PROVE  AnsweredTo(c)'
<1>1. AnsweredTo(c)
  BY DEF Answered
<1>2. ASSUME NEW i \in DOMAIN Command[c], i < commandId'[c], NEW x \in RangeOf(Command[c][i])
      PROVE  Told(x)'
  <2>1. x \in Xact /\ Told(x)
    BY <1>1, <1>2, CommandTypes DEF AnsweredTo
  <2> QED
    BY <2>1, ToldStays
<1>3. ASSUME commitCount'[c] /= -1
      PROVE  /\ commandId'[c] \in DOMAIN Command[c]
             /\ commitCount'[c] + Len(inbox'[c]) <= Cardinality(ToldIn(c, commandId[c])')
  <2> DEFINE k == commandId[c]
             m == commitCount[c]
             n == Len(inbox[c])
             t == Cardinality(ToldIn(c, k))
             u == Cardinality(ToldIn(c, k)')
  <2>1. m \in Int /\ n \in Int
    BY DEF Answered
  <2>2. k \in DOMAIN Command[c] /\ m + n <= t
    BY <1>1, <1>3 DEF AnsweredTo
  <2>3. t \in Int /\ u \in Int /\ t <= u
    BY <2>2, ToldGrows
  <2>4. u = Cardinality(ToldIn(c, commandId[c])')
    BY DEF ToldIn
  <2> HIDE DEF m, n, t, u
  <2>5. m + n <= u
    BY <2>1, <2>2, <2>3
  <2> QED
    BY <2>2, <2>4, <2>5 DEF m, n
<1> QED
  BY <1>1, <1>2, <1>3 DEF AnsweredTo, ToldIn

LEMMA sendCommandAnswers ==
    ASSUME Known, IInv, Answered, Next, NEW c \in Client, sendCommand(c)
    PROVE  Answered'
<1>1. /\ commitCount[c] = -1 /\ commandId[c] \in DOMAIN Command[c]
      /\ commitCount' = [commitCount EXCEPT ![c] = 0]
      /\ commandId' = commandId /\ inbox' = inbox
  BY DEF sendCommand
<1>2. ASSUME NEW d \in Client PROVE AnsweredTo(d)'
  <2>1. CASE d /= c
    <3>1. commitCount'[d] = commitCount[d]
      BY <1>1, <2>1 DEF Answered
    <3> QED
      BY <1>1, <3>1, AnswersFrame
  <2>2. CASE d = c
    <3>1. commitCount'[c] = 0 /\ inbox[c] = <<>> /\ Len(inbox[c]) = 0
      BY <1>1 DEF Answered, AnsweredTo
    <3>2. ASSUME NEW i \in DOMAIN Command[c], i < commandId[c],
                 NEW x \in RangeOf(Command[c][i])
          PROVE  Told(x)'
      <4>1. x \in Xact /\ Told(x)
        BY <3>2, CommandTypes DEF Answered, AnsweredTo
      <4> QED
        BY <4>1, ToldStays
    <3>3. Cardinality(ToldIn(c, commandId[c])') \in Nat
      BY <1>1, ToldGrows
    <3>4. 0 + 0 <= Cardinality(ToldIn(c, commandId[c])')
      BY <3>3
    <3> QED
      BY <1>1, <2>2, <3>1, <3>2, <3>4 DEF AnsweredTo, ToldIn
  <2> QED
    BY <2>1, <2>2
<1>3. commitCount' \in [Client -> Nat \cup {-1}]
  BY <1>1 DEF Answered
<1> QED
  BY <1>1, <1>2, <1>3 DEF Answered

\* The last message of a command comes when all its requests are told; then
\* there is no other message on its way.
LEMMA recvCommitAnswers ==
    ASSUME Known, IInv, Answered, Next, NEW c \in Client, recvCommit(c)
    PROVE  Answered'
<1>0. PICK k : k = commandId[c]
  OBVIOUS
<1> DEFINE m == commitCount[c]
           s == inbox[c]
           n == Len(s)
           t == Cardinality(ToldIn(c, k))
<1>1. /\ k \in Nat /\ m \in Nat /\ s \in Seq(Nat) /\ s /= <<>>
      /\ inbox' = [inbox EXCEPT ![c] = Tail(s)]
  BY <1>0 DEF recvCommit, Answered
<1>2. n \in Nat /\ n >= 1 /\ Len(Tail(s)) = n - 1 /\ Tail(s) \in Seq(Nat)
  <2> HIDE DEF s
  <2> QED
    BY <1>1
<1>3. \A j \in DOMAIN s : s[j] = k
  BY <1>0 DEF Answered, AnsweredTo
<1>4. Head(s) = k /\ \A j \in DOMAIN Tail(s) : Tail(s)[j] = k
  <2> HIDE DEF s
  <2>1. RangeOf(s) \subseteq {k}
    BY <1>3 DEF RangeOf
  <2>2. Head(s) \in RangeOf(s) /\ RangeOf(Tail(s)) \subseteq RangeOf(s)
    BY <1>1, HeadIsIn
  <2> QED
    BY <2>1, <2>2 DEF RangeOf
<1>5. m /= -1
  <2> HIDE DEF m
  <2> QED
    BY <1>1
<1>6. k \in DOMAIN Command[c] /\ m + n <= t
  BY <1>0, <1>5 DEF Answered, AnsweredTo
<1>7. /\ t \in Nat /\ Cardinality(ToldIn(c, k)') \in Nat
      /\ t <= Cardinality(ToldIn(c, k)')
  BY <1>6, ToldGrows
<1>8. ASSUME NEW i \in DOMAIN Command[c], i < k, NEW x \in RangeOf(Command[c][i])
      PROVE  Told(x)'
  <2>1. x \in Xact /\ Told(x)
    BY <1>0, <1>8, CommandTypes DEF Answered, AnsweredTo
  <2> QED
    BY <2>1, ToldStays
<1>9. CASE m + 1 = MAX_CLI_REQ
  <2>1. /\ commandId' = [commandId EXCEPT ![c] = @ + 1]
        /\ commitCount' = [commitCount EXCEPT ![c] = -1]
    BY <1>0, <1>4, <1>9 DEF recvCommit
  <2>2. commandId'[c] = k + 1 /\ commitCount'[c] = -1 /\ inbox'[c] = Tail(s)
    BY <1>0, <1>1, <2>1 DEF Answered
  <2> HIDE DEF m, s, n, t
  <2>3. t >= MAX_CLI_REQ
    BY <1>1, <1>2, <1>6, <1>7, <1>9, CapacityIsNat
  <2>4. /\ t = MAX_CLI_REQ
        /\ \A x \in RangeOf(Command[c][k]) : Told(x)
    BY <1>6, <2>3, ToldAll DEF t
  <2>5. n = 1
    BY <1>1, <1>2, <1>6, <1>7, <1>9, <2>4, CapacityIsNat
  <2>6. Tail(s) = <<>>
    BY <1>1, <2>5, RangeOfTail DEF n
  <2>7. ASSUME NEW i \in DOMAIN Command[c], i < commandId'[c],
               NEW x \in RangeOf(Command[c][i])
        PROVE  Told(x)'
    <3>1. i \in Nat /\ x \in Xact
      BY CommandTypes
    <3>2. i < k \/ i = k
      BY <1>1, <2>2, <2>7, <3>1
    <3> QED
      BY <1>8, <2>4, <3>1, <3>2, ToldStays
  <2>8. ASSUME NEW d \in Client PROVE AnsweredTo(d)'
    <3>1. CASE d /= c
      <4>1. /\ commitCount'[d] = commitCount[d] /\ commandId'[d] = commandId[d]
            /\ inbox'[d] = inbox[d]
        BY <1>1, <2>1, <3>1 DEF Answered
      <4> QED
        BY <4>1, AnswersFrame
    <3>2. CASE d = c
      <4>1. inbox'[c] = <<>> /\ DOMAIN inbox'[c] = {} /\ commitCount'[c] = -1
        BY <2>2, <2>6
      <4> QED
        BY <2>7, <3>2, <4>1 DEF AnsweredTo
    <3> QED
      BY <3>1, <3>2
  <2>9. /\ commandId' \in [Client -> Nat] /\ commitCount' \in [Client -> Nat \cup {-1}]
        /\ inbox' \in [Client -> Seq(Nat)]
    BY <1>1, <1>2, <2>1 DEF Answered
  <2> QED
    BY <2>8, <2>9 DEF Answered
<1>10. CASE m + 1 /= MAX_CLI_REQ
  <2>1. commandId' = commandId /\ commitCount' = [commitCount EXCEPT ![c] = m + 1]
    BY <1>0, <1>4, <1>10 DEF recvCommit
  <2>2. commandId'[c] = k /\ commitCount'[c] = m + 1 /\ inbox'[c] = Tail(s)
    BY <1>0, <1>1, <2>1 DEF Answered
  <2>3. (m + 1) + Len(Tail(s)) <= Cardinality(ToldIn(c, k)') /\ m + 1 \in Nat /\ m + 1 /= -1
    <3> HIDE DEF m, s, n, t
    <3> QED
      BY <1>1, <1>2, <1>6, <1>7
  <2>4. ASSUME NEW d \in Client PROVE AnsweredTo(d)'
    <3>1. CASE d /= c
      <4>1. /\ commitCount'[d] = commitCount[d] /\ commandId'[d] = commandId[d]
            /\ inbox'[d] = inbox[d]
        BY <1>1, <2>1, <3>1 DEF Answered
      <4> QED
        BY <4>1, AnswersFrame
    <3>2. CASE d = c
      <4> HIDE DEF m, s, n, t
      <4> QED
        BY <1>4, <1>6, <1>8, <2>1, <2>2, <2>3, <3>2 DEF AnsweredTo, ToldIn
    <3> QED
      BY <3>1, <3>2
  <2>5. /\ commandId' \in [Client -> Nat] /\ commitCount' \in [Client -> Nat \cup {-1}]
        /\ inbox' \in [Client -> Seq(Nat)]
    BY <1>1, <1>2, <2>1, <2>3 DEF Answered
  <2> QED
    BY <2>4, <2>5 DEF Answered
<1> QED
  BY <1>9, <1>10

\* A commit message is for the current command of a client that waits for it.
LEMMA notifyAnswers ==
    ASSUME Known, IInv, AInv, Next, NEW w \in Worker, NEW f \in Follower, notifyClient(w, f)
    PROVE  Answered'
<1>1. PICK x : x = Head(todo[w][f])
  OBVIOUS
<1>2. PICK c \in Client : \E i \in 1 .. commandId[c] :
         SentIn(x, c, i) /\ inbox' = [inbox EXCEPT ![c] = Append(@, i)]
  BY <1>1 DEF notifyClient
<1>3. PICK i \in 1 .. commandId[c] :
         SentIn(x, c, i) /\ inbox' = [inbox EXCEPT ![c] = Append(@, i)]
  BY <1>2
<1>4. /\ Singly /\ OnlySent /\ Answered /\ AnsweredTo(c)
      /\ commandId' = commandId /\ commitCount' = commitCount
  BY DEF AInv, Answered, notifyClient, clientVars
<1>5. x \in Xact /\ phase[x] = "done" /\ ~ Told(x) /\ Told(x)'
  BY <1>1, <1>4, notifyTells
<1>6. i \in DOMAIN Command[c] /\ x \in RangeOf(Command[c][i])
  BY <1>3 DEF SentIn
<1>7. i = commandId[c] /\ i \in Nat
  <2> DEFINE k == commandId[c]
  <2>1. k \in Nat /\ i \in 1 .. k
    BY <1>4 DEF Answered
  <2>2. ~ (i < k)
    BY <1>4, <1>5, <1>6 DEF AnsweredTo
  <2> HIDE DEF k
  <2>3. i = k /\ i \in Nat
    BY <2>1, <2>2
  <2> QED
    BY <2>3 DEF k
<1>8. commitCount[c] >= 0
  <2>1. PICK d \in Client : \E j \in DOMAIN Command[d] :
           /\ SentIn(x, d, j)
           /\ j < commandId[d] \/ (j = commandId[d] /\ commitCount[d] >= 0)
    BY <1>4, <1>5 DEF OnlySent, Sent
  <2>2. PICK j \in DOMAIN Command[d] :
           /\ SentIn(x, d, j)
           /\ j < commandId[d] \/ (j = commandId[d] /\ commitCount[d] >= 0)
    BY <2>1
  <2>3. d = c /\ j = i
    BY <1>3, <1>5, <1>6, <2>2, CommandsAssumption
  <2>4. ~ (i < i)
    BY <1>7
  <2> QED
    BY <1>7, <2>2, <2>3, <2>4
<1>9. commitCount[c] \in Nat /\ commitCount[c] /= -1
  <2> DEFINE m == commitCount[c]
  <2>1. m \in Nat \cup {-1} /\ m >= 0
    BY <1>4, <1>8 DEF Answered
  <2> HIDE DEF m
  <2>2. m \in Nat /\ m /= -1
    BY <2>1
  <2> QED
    BY <2>2 DEF m
<1> DEFINE m == commitCount[c]
           s == inbox[c]
           n == Len(s)
           t == Cardinality(ToldIn(c, i))
           u == Cardinality(ToldIn(c, i)')
<1>10. m + n <= t
  BY <1>4, <1>7, <1>9 DEF AnsweredTo
<1>11. s \in Seq(Nat) /\ inbox'[c] = Append(s, i)
  BY <1>3, <1>4 DEF Answered
<1>12. /\ n \in Nat /\ Len(Append(s, i)) = n + 1 /\ Append(s, i) \in Seq(Nat)
       /\ \A j \in DOMAIN Append(s, i) : Append(s, i)[j] = i
  <2>1. \A j \in DOMAIN s : s[j] = i
    BY <1>4, <1>7 DEF AnsweredTo
  <2> HIDE DEF s
  <2>2. RangeOf(Append(s, i)) = RangeOf(s) \cup {i} /\ RangeOf(s) \subseteq {i}
    BY <1>7, <1>11, <2>1, RangeOfAppend DEF RangeOf
  <2>3. \A j \in DOMAIN Append(s, i) : Append(s, i)[j] \in RangeOf(Append(s, i))
    BY DEF RangeOf
  <2>4. n \in Nat /\ Len(Append(s, i)) = n + 1 /\ Append(s, i) \in Seq(Nat)
    BY <1>7, <1>11
  <2> QED
    BY <2>2, <2>3, <2>4
<1>13. t + 1 <= u /\ t \in Nat /\ u \in Nat
  <2>1. /\ ToldIn(c, i) \subseteq ToldIn(c, i)' /\ IsFiniteSet(ToldIn(c, i)')
        /\ t \in Nat /\ u \in Nat
    BY <1>6, ToldGrows
  <2>2. x \in ToldIn(c, i)' /\ x \notin ToldIn(c, i)
    BY <1>5, <1>6 DEF ToldIn
  <2>3. IsFiniteSet(ToldIn(c, i))
    BY <2>1, FS_Subset
  <2>4. Cardinality(ToldIn(c, i) \cup {x}) = t + 1
    BY <2>2, <2>3, FS_AddElement
  <2>5. ToldIn(c, i) \cup {x} \subseteq ToldIn(c, i)'
    BY <2>1, <2>2
  <2>6. Cardinality(ToldIn(c, i) \cup {x}) <= u
    BY <2>1, <2>5, FS_Subset
  <2> QED
    BY <2>1, <2>4, <2>6
<1>14. m + Len(inbox'[c]) <= u
  <2>1. m \in Nat
    BY <1>9
  <2>2. m + (n + 1) <= u
    <3> HIDE DEF m, n, t, u
    <3> QED
      BY <1>10, <1>12, <1>13, <2>1
  <2> QED
    BY <1>11, <1>12, <2>2
<1>15. ASSUME NEW j \in DOMAIN Command[c], j < commandId[c],
              NEW y \in RangeOf(Command[c][j])
       PROVE  Told(y)'
  <2>1. y \in Xact /\ Told(y)
    BY <1>4, <1>15, CommandTypes DEF AnsweredTo
  <2> QED
    BY <2>1, ToldStays
<1>16. ASSUME NEW d \in Client PROVE AnsweredTo(d)'
  <2>1. CASE d /= c
    <3>1. inbox'[d] = inbox[d]
      BY <1>3, <1>4, <2>1 DEF Answered
    <3> QED
      BY <1>4, <3>1, AnswersFrame
  <2>2. CASE d = c
    <3> HIDE DEF s, n, t
    <3> QED
      BY <1>4, <1>6, <1>7, <1>9, <1>11, <1>12, <1>14, <1>15, <2>2 DEF AnsweredTo, ToldIn
  <2> QED
    BY <2>1, <2>2
<1>17. inbox' \in [Client -> Seq(Nat)]
  BY <1>3, <1>4, <1>11, <1>12 DEF Answered
<1> QED
  BY <1>4, <1>16, <1>17 DEF Answered

LEMMA AnsweredKept ==
    ASSUME Known, IInv, AInv, [Next]_vars
    PROVE  Answered'
<1>1. UNCHANGED <<clientVars, inbox>> => Answered'
  <2> SUFFICES ASSUME UNCHANGED <<clientVars, inbox>> PROVE Answered'
    OBVIOUS
  <2>1. Answered /\ commandId' = commandId /\ commitCount' = commitCount /\ inbox' = inbox
    BY DEF AInv, clientVars
  <2>2. \A c \in Client : AnsweredTo(c)'
    BY <2>1, AnswersFrame
  <2> QED
    BY <2>1, <2>2 DEF Answered
<1>2. ASSUME NEW c \in Client, producer(c) PROVE UNCHANGED <<clientVars, inbox>>
  BY <1>2 DEF producer
<1>3. ASSUME NEW w \in Worker, worker(w) PROVE UNCHANGED <<clientVars, inbox>>
  BY <1>3 DEF worker, xactDequeue, tryLock, acquire, flush, sendBatch
<1>4. ASSUME NEW w \in Worker, NEW f \in Follower,
             logReceiver(w, f) \/ countAck(w, f) \/ commitWork(w, f)
      PROVE  UNCHANGED <<clientVars, inbox>>
  BY <1>4 DEF logReceiver, countAck, commitWork
<1>5. UNCHANGED vars => UNCHANGED <<clientVars, inbox>>
  BY DEF vars
<1>6. ASSUME Next, NEW c \in Client, sendCommand(c) \/ recvCommit(c) PROVE Answered'
  BY <1>6, sendCommandAnswers, recvCommitAnswers DEF AInv
<1>7. ASSUME Next, NEW w \in Worker, NEW f \in Follower, notifyClient(w, f) PROVE Answered'
  BY <1>7, notifyAnswers
<1> QED
  BY <1>1, <1>2, <1>3, <1>4, <1>5, <1>6, <1>7 DEF Next, client, notifier

LEMMA AnswersInit == Init => AInv
<1> SUFFICES ASSUME Init PROVE AInv
  OBVIOUS
<1>1. /\ wpc = [w \in Worker |-> "run"] /\ wlog = [w \in Worker |-> <<>>]
      /\ todo = [w \in Worker |-> [f \in Follower |-> <<>>]]
      /\ logBuffer = [w \in Worker |-> <<>>] /\ cur = [w \in Worker |-> None]
      /\ xactQ = [w \in Worker |-> <<>>] /\ producing = [c \in Client |-> <<>>]
      /\ phase = [x \in Xact |-> "new"]
      /\ commandId = [c \in Client |-> 1] /\ commitCount = [c \in Client |-> -1]
      /\ inbox = [c \in Client |-> <<>>]
  BY DEF Init, R!Init, E!Init, R!PerFollower, R!Follower, Follower
<1>2. Entries = {} /\ Numbered = {}
  BY <1>1, RangeOfEmpty DEF Entries, Numbered
<1>3. Singly
  BY <1>1, <1>2, OnceEachEmpty DEF Singly
<1>4. OnlySent
  BY <1>1, RangeOfEmpty DEF OnlySent
<1>5. ASSUME NEW c \in Client PROVE AnsweredTo(c)
  <2>1. \A i \in DOMAIN Command[c] : ~ (i < 1)
    <3>1. \A i \in DOMAIN Command[c] : i \in Nat /\ i >= 1
      BY CommandTypes
    <3> QED
      BY <3>1
  <2>2. inbox[c] = <<>> /\ DOMAIN inbox[c] = {} /\ commandId[c] = 1 /\ commitCount[c] = -1
    BY <1>1
  <2> QED
    BY <2>1, <2>2 DEF AnsweredTo
<1>6. Answered
  BY <1>1, <1>5 DEF Answered
<1> QED
  BY <1>3, <1>4, <1>6 DEF AInv

LEMMA AnswersAlways == Spec => []AInv
<1>1. Known /\ IInv /\ AInv /\ [Next]_vars => AInv'
  <2> SUFFICES ASSUME Known, IInv, AInv, [Next]_vars PROVE AInv'
    OBVIOUS
  <2> QED
    BY SinglyKept, OnlySentKept, AnsweredKept DEF AInv
<1> QED
  BY <1>1, AnswersInit, KnownAlways, Invariance, PTL DEF Spec

\* AnswersAreTrue (raft.cc, notifier; client.cc): a client is never told of a
\* request that is not applied and unlocked, nor twice of one, and it goes on
\* to its next command when the former one is done altogether.
THEOREM TellsTheTruth == Spec => []AnswersAreTrue
<1>1. AInv => AnswersAreTrue
  <2> SUFFICES ASSUME AInv, NEW c \in Client, NEW i \in DOMAIN Command[c]
      PROVE  LET doneIn == {x \in RangeOf(Command[c][i]) : phase[x] = "done"}
                 told == Cardinality({j \in DOMAIN inbox[c] : inbox[c][j] = i})
             IN  /\ i < commandId[c] => doneIn = RangeOf(Command[c][i]) /\ told = 0
                 /\ i = commandId[c] /\ commitCount[c] >= 0 =>
                       commitCount[c] + told <= Cardinality(doneIn)
    BY DEF AnswersAreTrue
  <2> DEFINE done == {x \in RangeOf(Command[c][i]) : phase[x] = "done"}
             places == {j \in DOMAIN inbox[c] : inbox[c][j] = i}
             m == commitCount[c]
             n == Len(inbox[c])
             t == Cardinality(ToldIn(c, i))
  <2>1. /\ AnsweredTo(c) /\ inbox[c] \in Seq(Nat) /\ m \in Nat \cup {-1}
        /\ commandId[c] \in Nat /\ i \in Nat
    BY CommandTypes DEF AInv, Answered
  <2>2. ASSUME i < commandId[c]
        PROVE  done = RangeOf(Command[c][i]) /\ Cardinality(places) = 0
    <3>1. done = RangeOf(Command[c][i])
      BY <2>1, <2>2 DEF AnsweredTo, Told
    <3>2. i /= commandId[c]
      <4> DEFINE k == commandId[c]
      <4>1. k \in Nat /\ i < k
        BY <2>1, <2>2
      <4> HIDE DEF k
      <4>2. i /= k
        BY <2>1, <4>1
      <4> QED
        BY <4>2 DEF k
    <3>3. places = {}
      BY <2>1, <3>2 DEF AnsweredTo
    <3> QED
      BY <3>1, <3>3, FS_EmptySet
  <2>3. ASSUME i = commandId[c], m >= 0
        PROVE  m + Cardinality(places) <= Cardinality(done)
    <3>1. m \in Nat /\ m /= -1
      <4> HIDE DEF m
      <4> QED
        BY <2>1, <2>3
    <3>2. m + n <= t
      BY <2>1, <2>3, <3>1 DEF AnsweredTo
    <3>3. places = 1 .. n /\ n \in Nat
      BY <2>1, <2>3 DEF AnsweredTo
    <3>4. Cardinality(places) = n
      <4> HIDE DEF n
      <4>1. Cardinality(1 .. n) = n
        BY <3>3, FS_Interval
      <4> QED
        BY <3>3, <4>1
    <3>5. IsFiniteSet(done) /\ ToldIn(c, i) \subseteq done
      BY CommandTypes, FS_Subset DEF ToldIn, Told
    <3>6. t <= Cardinality(done) /\ t \in Nat /\ Cardinality(done) \in Nat
      BY <3>5, FS_Subset, FS_CardinalityType
    <3> HIDE DEF m, n, t, places, done
    <3> QED
      BY <3>1, <3>2, <3>3, <3>4, <3>6
  <2> QED
    BY <2>2, <2>3
<1> QED
  BY <1>1, AnswersAlways, PTL
=============================================================================
