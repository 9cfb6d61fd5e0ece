----------------------------- MODULE RaftTwoPL ------------------------------
(***************************************************************************)
(* The leader with its clients: two-phase locking (module TwoPL) on top of *)
(* group commit (module Replication).  A client sends commands of          *)
(* MAX_CLI_REQ requests and waits for as many commit messages.  Its        *)
(* producer thread puts the requests into the queue of one worker.  The    *)
(* worker locks the keys of a request, again and again until it succeeds,  *)
(* puts it into a batch, and flushes the batch when it is full or when the *)
(* timer has run out.  A notifier that has loaded the batch commits its    *)
(* requests one by one and sends a commit message for each.  The locks are *)
(* held from the worker's transferWork to the notifier's commitWork.       *)
(***************************************************************************)
EXTENDS Integers, Sequences, FiniteSets

CONSTANTS
    INT_MAX, Key, InitValue,        \* the store, see KVS
    Xact, From, To, Diff,           \* the requests, see Requests
    Worker, NF, Batch, MaxLsn,      \* the cluster, see Replication
    Client,
    Command,            \* Command[c]: the commands of c, sequences of requests
    WorkerOf,           \* the worker that the receiver gave the client
    MAX_CLI_REQ,        \* the requests of one command
    MAX_GROUP_ENTRY,    \* the capacity of a batch
    None                \* no request

\* the assumptions of the modules composed, which an instance does not state
ASSUME ComponentsAssumption ==
    /\ INT_MAX \in Nat /\ Key \subseteq Nat
    /\ InitValue \in [Key -> 0 .. INT_MAX]
    /\ From \in [Xact -> Key] /\ To \in [Xact -> Key]
    /\ Diff \in [Xact -> -(INT_MAX + 1) .. INT_MAX]
    /\ NF \in Nat \ {0} /\ MaxLsn \in Nat
    /\ Batch = UNION {[1 .. n -> Xact] : n \in 1 .. MAX_GROUP_ENTRY}

ASSUME RaftTwoPLAssumption ==
    /\ WorkerOf \in [Client -> Worker]
    /\ MAX_CLI_REQ \in Nat \ {0} /\ MAX_GROUP_ENTRY \in Nat \ {0}
    /\ None \notin Xact
    /\ \A c \in Client : Command[c] \in Seq([1 .. MAX_CLI_REQ -> Xact])

VARIABLES
    locked, value, phase, seen,                             \* of TwoPL
    lsn, wpc, packet, dest, wlog, appendCh, fpc, flog,      \* of Replication
    ackCh, votes, taskList, npc, ack, todo,
    commandId,      \* the command each client is at
    commitCount,    \* the commit messages it has counted for it, -1 before
                    \* the command is sent
    inbox,          \* commit messages on their way to the client
    producing,      \* what its producer has not yet put into the queue
    xactQ,          \* the queue of each worker
    cur,            \* xact in Raft::worker: the request it tries to lock
    logBuffer       \* the batch being filled

kvsVars == <<locked, value, phase, seen>>
repVars == <<lsn, wpc, packet, dest, wlog, appendCh, fpc, flog, ackCh, votes,
             taskList, npc, ack, todo>>
clientVars == <<commandId, commitCount>>
workerVars == <<cur, logBuffer>>
vars == <<kvsVars, repVars, clientVars, inbox, producing, xactQ, workerVars>>

E == INSTANCE TwoPL
R == INSTANCE Replication

Follower == 1 .. NF

Init ==
    /\ E!Init /\ R!Init
    /\ commandId = [c \in Client |-> 1]
    /\ commitCount = [c \in Client |-> -1]
    /\ inbox = [c \in Client |-> <<>>]
    /\ producing = [c \in Client |-> <<>>]
    /\ xactQ = [w \in Worker |-> <<>>]
    /\ cur = [w \in Worker |-> None]
    /\ logBuffer = [w \in Worker |-> <<>>]

RangeOf(s) == {s[i] : i \in DOMAIN s}

\* clientId and commandId travel with the request
SentIn(x, c, i) == i \in DOMAIN Command[c] /\ x \in RangeOf(Command[c][i])

\* what is sent again is another request
ASSUME CommandsAssumption ==
    \A x \in Xact : \A c, d \in Client : \A i \in DOMAIN Command[c], j \in DOMAIN Command[d] :
        SentIn(x, c, i) /\ SentIn(x, d, j) => c = d /\ i = j

-----------------------------------------------------------------------------
(* The client and its producer thread *)

xactEnqueue(w, x) == xactQ' = [xactQ EXCEPT ![w] = Append(@, x)]

sendCommand(c) ==
    /\ commitCount[c] = -1 /\ commandId[c] \in DOMAIN Command[c]
    /\ commitCount' = [commitCount EXCEPT ![c] = 0]
    /\ producing' = [producing EXCEPT ![c] = Command[c][commandId[c]]]
    /\ UNCHANGED <<kvsVars, repVars, commandId, inbox, xactQ, workerVars>>

producer(c) ==
    /\ producing[c] /= <<>>
    /\ producing' = [producing EXCEPT ![c] = Tail(@)]
    /\ xactEnqueue(WorkerOf[c], Head(producing[c]))
    /\ UNCHANGED <<kvsVars, repVars, clientVars, inbox, workerVars>>

\* A message for another command is dropped.  The last message of the command
\* lets the client go on to the next.
recvCommit(c) ==
    LET count == commitCount[c] + (IF Head(inbox[c]) = commandId[c] THEN 1 ELSE 0)
    IN
    /\ commitCount[c] >= 0 /\ inbox[c] /= <<>>
    /\ inbox' = [inbox EXCEPT ![c] = Tail(@)]
    /\ IF count = MAX_CLI_REQ
       THEN /\ commandId' = [commandId EXCEPT ![c] = @ + 1]
            /\ commitCount' = [commitCount EXCEPT ![c] = -1]
       ELSE /\ commitCount' = [commitCount EXCEPT ![c] = count]
            /\ UNCHANGED commandId
    /\ UNCHANGED <<kvsVars, repVars, producing, xactQ, workerVars>>

-----------------------------------------------------------------------------
(* The worker *)

\* One round of the loop tries one request; a full batch is flushed first.
xactDequeue(w) ==
    /\ wpc[w] = "run" /\ cur[w] = None /\ Len(logBuffer[w]) < MAX_GROUP_ENTRY
    /\ xactQ[w] /= <<>>
    /\ cur' = [cur EXCEPT ![w] = Head(xactQ[w])]
    /\ xactQ' = [xactQ EXCEPT ![w] = Tail(@)]
    /\ UNCHANGED <<kvsVars, repVars, clientVars, inbox, producing, logBuffer>>

\* transferWork on the way to success or failure; after a failure the request
\* stays and is tried again (canDoXactDeq is false)
tryLock(w) ==
    /\ wpc[w] = "run" /\ cur[w] /= None
    /\ LET x == cur[w] IN
          E!AssertFails(x) \/ E!LockFrom(x) \/ E!LockToBusy(x) \/ E!Release(x)
    /\ UNCHANGED <<repVars, clientVars, inbox, producing, xactQ, workerVars>>

\* transferWork returns true: the request joins the batch
acquire(w) ==
    /\ wpc[w] = "run" /\ cur[w] /= None
    /\ E!LockTo(cur[w])
    /\ logBuffer' = [logBuffer EXCEPT ![w] = Append(@, cur[w])]
    /\ cur' = [cur EXCEPT ![w] = None]
    /\ UNCHANGED <<repVars, clientVars, inbox, producing, xactQ>>

\* The test at the end of a round, when transferWork is not under way: the
\* batch is full, or it is not empty and the timer has run out, which it may do
\* at any moment.  (A request may have been dequeued and not yet tried: the
\* dequeue, which nobody else sees, could as well come after the flush.)
FlushDue(w) == logBuffer[w] /= <<>> /\ (cur[w] /= None => phase[cur[w]] = "new")

\* mutant: the batch is not emptied (buffid = 0 is missing)
flushWithoutReset(w) ==
    /\ FlushDue(w)
    /\ R!getLogSequenceNumber(w, logBuffer[w])
    /\ UNCHANGED <<kvsVars, clientVars, inbox, producing, xactQ, workerVars>>

\* mutant: the locks of the batch are released as soon as it is on its way
flushUnlocking(w) ==
    /\ FlushDue(w)
    /\ R!getLogSequenceNumber(w, logBuffer[w])
    /\ locked' = locked \ UNION {{From[x], To[x]} : x \in RangeOf(logBuffer[w])}
    /\ logBuffer' = [logBuffer EXCEPT ![w] = <<>>]
    /\ UNCHANGED <<value, phase, seen, clientVars, inbox, producing, xactQ, cur>>

\* mutant: the timer is not looked at while a request is being retried
flushWhenIdle(w) ==
    /\ logBuffer[w] /= <<>> /\ cur[w] = None
    /\ R!getLogSequenceNumber(w, logBuffer[w])
    /\ logBuffer' = [logBuffer EXCEPT ![w] = <<>>]
    /\ UNCHANGED <<kvsVars, clientVars, inbox, producing, xactQ, cur>>

\* the batch is handed to loggingWork and emptied
flush(w) ==
    /\ FlushDue(w)
    /\ R!getLogSequenceNumber(w, logBuffer[w])
    /\ logBuffer' = [logBuffer EXCEPT ![w] = <<>>]
    /\ UNCHANGED <<kvsVars, clientVars, inbox, producing, xactQ, cur>>

\* writing, sending and storing the batch
sendBatch(w) ==
    /\ R!flush(w)
    /\ UNCHANGED <<kvsVars, clientVars, inbox, producing, xactQ, workerVars>>

-----------------------------------------------------------------------------
(* Followers and notifiers *)

logReceiver(w, f) ==
    /\ R!logReceiver(w, f)
    /\ UNCHANGED <<kvsVars, clientVars, inbox, producing, xactQ, workerVars>>

\* an acknowledgement is counted, and the task is looked for
countAck(w, f) ==
    /\ R!addVoteCount(w, f) \/ R!TaskFound(w, f) \/ R!TaskNotFound(w, f)
    /\ UNCHANGED <<kvsVars, clientVars, inbox, producing, xactQ, workerVars>>

commitWork(w, f) ==
    /\ npc[w][f] = "commit"
    /\ E!commitWork(Head(todo[w][f]))
    /\ UNCHANGED <<repVars, clientVars, inbox, producing, xactQ, workerVars>>

\* mutant: the commit message is sent before commitWork is called
notifyClientFirst(w, f) ==
    /\ npc[w][f] = "commit" /\ phase[Head(todo[w][f])] = "locked"
    /\ R!commitNext(w, f)
    /\ \E c \in Client : \E i \in 1 .. commandId[c] :
          /\ SentIn(Head(todo[w][f]), c, i)
          /\ inbox' = [inbox EXCEPT ![c] = Append(@, i)]
    /\ UNCHANGED <<kvsVars, clientVars, producing, xactQ, workerVars>>

\* the commit message, when commitWork has returned
notifyClient(w, f) ==
    /\ npc[w][f] = "commit" /\ phase[Head(todo[w][f])] = "done"
    /\ R!commitNext(w, f)
    /\ \E c \in Client : \E i \in 1 .. commandId[c] :
          /\ SentIn(Head(todo[w][f]), c, i)
          /\ inbox' = [inbox EXCEPT ![c] = Append(@, i)]
    /\ UNCHANGED <<kvsVars, clientVars, producing, xactQ, workerVars>>

-----------------------------------------------------------------------------
client(c) == sendCommand(c) \/ producer(c) \/ recvCommit(c)

worker(w) == xactDequeue(w) \/ tryLock(w) \/ acquire(w) \/ flush(w) \/ sendBatch(w)

notifier(w, f) == countAck(w, f) \/ commitWork(w, f) \/ notifyClient(w, f)

Next ==
    /\ E!Running
    /\ \/ \E c \in Client : client(c)
       \/ \E w \in Worker : worker(w)
       \/ \E w \in Worker, f \in Follower : logReceiver(w, f) \/ notifier(w, f)

Spec == Init /\ [][Next]_vars

\* Every worker is scheduled.  Of the other threads, none of which can repeat
\* itself, it is enough that one that has something to do is scheduled.  A
\* worker whose request finds its keys busy goes round its loop and reaches the
\* test of the timer in every round: a batch that could be flushed again and
\* again is flushed.
Fairness ==
    /\ WF_vars(/\ E!Running
               /\ \/ \E c \in Client : client(c)
                  \/ \E w \in Worker, f \in Follower :
                        logReceiver(w, f) \/ notifier(w, f))
    /\ \A w \in Worker : /\ WF_vars(E!Running /\ worker(w))
                          /\ SF_vars(E!Running /\ flush(w))

FairSpec == Spec /\ Fairness

-----------------------------------------------------------------------------
(* Properties *)

\* the entries of the leader's logs
Entries == UNION {RangeOf(wlog[w]) : w \in Worker}

HolderCount(e) ==
    Cardinality({f \in Follower : \E w \in Worker : e \in RangeOf(flog[w][f])})

\* Locks are held over replication: when two conflicting requests are both in
\* the logs, the one with the smaller log sequence number had been applied to
\* the store before the other was logged, and they are never in one batch.  So
\* the numbers order conflicting requests as the store applied them, across
\* the logs of all workers, and a replay in that order rebuilds the store.
LogOrderIsCommitOrder ==
    \A e1, e2 \in Entries :
        \A x \in RangeOf(e1.xacts), y \in RangeOf(e2.xacts) :
            /\ x /= y /\ E!Conflict(x, y)
            /\ e1.lsn <= e2.lsn
            => x \in E!Applied /\ e1.lsn < e2.lsn

Committing == {"readTo", "debit", "credit", "unlockFrom", "unlockTo", "done"}

\* The store is never ahead of the replicated log: a request that has begun to
\* be applied is in the logs of a majority of the cluster, the leader included.
AppliedIsReplicated ==
    \A x \in Xact :
        phase[x] \in Committing =>
            \E e \in Entries : /\ x \in RangeOf(e.xacts)
                               /\ 2 * (HolderCount(e) + 1) > NF + 1

\* What a client is told is true: the messages it has counted or will count
\* for a command are for requests of it that have been applied and unlocked,
\* each told once, and the commands it has left behind are applied altogether.
AnswersAreTrue ==
    \A c \in Client :
        LET doneIn(i) == {x \in RangeOf(Command[c][i]) : phase[x] = "done"}
            told(i) == Cardinality({j \in DOMAIN inbox[c] : inbox[c][j] = i})
        IN  \A i \in DOMAIN Command[c] :
                /\ i < commandId[c] =>
                      doneIn(i) = RangeOf(Command[c][i]) /\ told(i) = 0
                /\ i = commandId[c] /\ commitCount[c] >= 0 =>
                      commitCount[c] + told(i) <= Cardinality(doneIn(i))

\* The workers share one counter of log sequence numbers and one array of
\* votes: with batches formed from the requests of clients, every number is
\* used once, every follower has a prefix of each worker's log, each vote
\* stands for a follower that has the entry, and each batch is committed by at
\* most one notifier.
WorkersInStep ==
    R!LsnOrder /\ R!FollowerLogIsPrefix /\ R!VotesAreHolders /\ R!OneCommitter

\* A request of a batch or a task has both its keys locked, until the notifier
\* that commits it unlocks them: nothing between the two threads loses a
\* request with its locks, or hands over one that is not locked.
LocksHandedOver ==
    LET inBuffer == UNION {RangeOf(logBuffer[w]) : w \in Worker}
        inFlight == UNION {RangeOf(packet[w].xacts) :
                              w \in {v \in Worker : wpc[v] /= "run"}}
        inTask   == UNION {RangeOf(t.xacts) : t \in UNION {taskList[w] : w \in Worker}}
        inCommit == UNION {RangeOf(todo[w][f]) : w \in Worker, f \in Follower}
    IN  \A x \in Xact :
            /\ x \in inBuffer \cup inFlight \cup inTask => phase[x] = "locked"
            /\ phase[x] = "locked" => x \in inBuffer \cup inFlight \cup inTask \cup inCommit

\* a notifier has looked for a task that the worker has not yet stored
MissedTask == ~ R!NotFoundMeansLoaded

\* Either an acknowledgement overtakes the store of its task, or every command
\* is answered in full and the clients get to the end of their input.  Workers
\* hold the locks of their batch while they try for more, in no global order;
\* it is flushing while trying that keeps them from waiting for each other.
EveryCommandAnswered ==
    <>(MissedTask \/ \A c \in Client : commandId[c] = Len(Command[c]) + 1)
=============================================================================
