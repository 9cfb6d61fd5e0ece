---------------------------- MODULE Replication -----------------------------
(***************************************************************************)
(* Group commit (src/server/raft.cc, logging.cc, log.cc, worker.cc,        *)
(* status.cc).  A worker thread of the leader flushes a batch of locked    *)
(* transactions: it takes a log sequence number, writes the batch to its   *)
(* own log, sends it to the followers one after the other, and only then   *)
(* stores the batch as a task.  For every worker each follower has a       *)
(* logReceiver thread, which writes the batch and acknowledges it, and for *)
(* every logReceiver the leader has a notifier thread, which counts the    *)
(* acknowledgements, looks for the task and commits its transactions.  All *)
(* of them run concurrently; connections are TCP streams, first in first   *)
(* out.  The followers are numbered in the order in which they are sent to.*)
(***************************************************************************)
EXTENDS Integers, Sequences, FiniteSets

CONSTANTS
    Worker,     \* the worker threads of the leader, WORKER_NUM of them
    NF,         \* the number of followers
    Xact,       \* transactions
    Batch,      \* what a batch can be: a non-empty sequence of transactions
    MaxLsn      \* bound: batches flushed in a behaviour

ASSUME ReplicationAssumption ==
    /\ NF \in Nat \ {0}
    /\ MaxLsn \in Nat
    /\ \A b \in Batch : b \in Seq(Xact) /\ b /= <<>>

Follower == 1 .. NF
clusterSize == NF + 1
Lsn == 0 .. MaxLsn - 1

VARIABLES
    lsn,        \* the static counter of getLogSequenceNumber
    wpc,        \* where each worker is: "run", "append", "send" or "store"
    packet,     \* the batch that the worker is flushing
    dest,       \* the follower it sends to next
    wlog,       \* the log of each worker, a file on the leader
    appendCh,   \* AppendEntries on their way to a follower
    fpc,        \* where each logReceiver is: "recv" or "ack"
    flog,       \* the copy of the worker's log, a file on the follower
    ackCh,      \* acknowledgements on their way back
    votes,      \* Status::votes, acknowledgements counted for each lsn
    taskList,   \* WorkerInfo::taskList
    npc,        \* where each notifier is: "recv", "load" or "commit"
    ack,        \* the lsn of the acknowledgement it is working on
    todo        \* the transactions of its task still to be committed

workerVars   == <<lsn, wpc, packet, dest, wlog>>
followerVars == <<fpc, flog>>
notifierVars == <<votes, npc, ack, todo>>
vars == <<workerVars, followerVars, notifierVars, appendCh, ackCh, taskList>>

PerFollower(v) == [w \in Worker |-> [f \in Follower |-> v]]

Init ==
    /\ lsn = 0
    /\ wpc = [w \in Worker |-> "run"]
    /\ packet = [w \in Worker |-> [lsn |-> -1, xacts |-> <<>>]]
    /\ dest = [w \in Worker |-> 1]
    /\ wlog = [w \in Worker |-> <<>>]
    /\ appendCh = PerFollower(<<>>)
    /\ fpc = PerFollower("recv")
    /\ flog = PerFollower(<<>>)
    /\ ackCh = PerFollower(<<>>)
    /\ votes = [n \in Lsn |-> 0]
    /\ taskList = [w \in Worker |-> {}]
    /\ npc = PerFollower("recv")
    /\ ack = PerFollower(-1)
    /\ todo = PerFollower(<<>>)

-----------------------------------------------------------------------------
(* The messages *)

\* APPEND_ENTRIES: the number of the batch and its transactions.  (The indices
\* and terms of Raft are sent along and never looked at.)
arpcByFields(n, b) == [lsn |-> n, xacts |-> b]

\* the acknowledgement: the number of the last entry of the follower's log,
\* which is the one just written
raeByFields(w, f) == flog[w][f][Len(flog[w][f])].lsn

-----------------------------------------------------------------------------
(* The worker thread *)

\* mutant: the counter is incremented before it is read
getLogSequenceNumberAfter(w, b) ==
    /\ wpc[w] = "run" /\ lsn < MaxLsn
    /\ packet' = [packet EXCEPT ![w] = arpcByFields(lsn + 1, b)]
    /\ lsn' = lsn + 1
    /\ wpc' = [wpc EXCEPT ![w] = "append"]
    /\ UNCHANGED <<dest, wlog, followerVars, notifierVars, appendCh, ackCh, taskList>>

\* mutant: the counter is the length of the worker's own log
getLogSequenceNumberOwn(w, b) ==
    /\ wpc[w] = "run" /\ lsn < MaxLsn
    /\ packet' = [packet EXCEPT ![w] = arpcByFields(Len(wlog[w]), b)]
    /\ lsn' = lsn + 1
    /\ wpc' = [wpc EXCEPT ![w] = "append"]
    /\ UNCHANGED <<dest, wlog, followerVars, notifierVars, appendCh, ackCh, taskList>>

\* loggingWork: the number is drawn first, the entry is written afterwards
getLogSequenceNumber(w, b) ==
    /\ wpc[w] = "run" /\ lsn < MaxLsn
    /\ packet' = [packet EXCEPT ![w] = arpcByFields(lsn, b)]
    /\ lsn' = lsn + 1
    /\ wpc' = [wpc EXCEPT ![w] = "append"]
    /\ UNCHANGED <<dest, wlog, followerVars, notifierVars, appendCh, ackCh, taskList>>

addEntry(w) ==
    /\ wpc[w] = "append"
    /\ wlog' = [wlog EXCEPT ![w] = Append(@, packet[w])]
    /\ dest' = [dest EXCEPT ![w] = 1]
    /\ wpc' = [wpc EXCEPT ![w] = "send"]
    /\ UNCHANGED <<lsn, packet, followerVars, notifierVars, appendCh, ackCh, taskList>>

\* mutant: every copy goes to the first follower
sendRPCToFirst(w) ==
    /\ wpc[w] = "send"
    /\ appendCh' = [appendCh EXCEPT ![w][1] = Append(@, packet[w])]
    /\ dest' = [dest EXCEPT ![w] = @ + 1]
    /\ wpc' = [wpc EXCEPT ![w] = IF dest[w] = NF THEN "store" ELSE "send"]
    /\ UNCHANGED <<lsn, packet, wlog, followerVars, notifierVars, ackCh, taskList>>

\* the loop over the followers; the last iteration leaves it
sendRPC(w) ==
    /\ wpc[w] = "send"
    /\ appendCh' = [appendCh EXCEPT ![w][dest[w]] = Append(@, packet[w])]
    /\ dest' = [dest EXCEPT ![w] = @ + 1]
    /\ wpc' = [wpc EXCEPT ![w] = IF dest[w] = NF THEN "store" ELSE "send"]
    /\ UNCHANGED <<lsn, packet, wlog, followerVars, notifierVars, ackCh, taskList>>

taskStore(w) ==
    /\ wpc[w] = "store"
    /\ taskList' = [taskList EXCEPT ![w] = @ \cup {packet[w]}]
    /\ wpc' = [wpc EXCEPT ![w] = "run"]
    /\ UNCHANGED <<lsn, packet, dest, wlog, followerVars, notifierVars, appendCh, ackCh>>

-----------------------------------------------------------------------------
(* The logReceiver thread of follower f for worker w *)

followerAddEntry(w, f) ==
    /\ fpc[w][f] = "recv" /\ appendCh[w][f] /= <<>>
    /\ flog' = [flog EXCEPT ![w][f] = Append(@, Head(appendCh[w][f]))]
    /\ appendCh' = [appendCh EXCEPT ![w][f] = Tail(@)]
    /\ fpc' = [fpc EXCEPT ![w][f] = "ack"]
    /\ UNCHANGED <<workerVars, notifierVars, ackCh, taskList>>

\* mutant: the acknowledgement is sent twice
sendAckTwice(w, f) ==
    /\ fpc[w][f] = "ack"
    /\ ackCh' = [ackCh EXCEPT ![w][f] = @ \o <<raeByFields(w, f), raeByFields(w, f)>>]
    /\ fpc' = [fpc EXCEPT ![w][f] = "recv"]
    /\ UNCHANGED <<workerVars, notifierVars, flog, appendCh, taskList>>

sendAck(w, f) ==
    /\ fpc[w][f] = "ack"
    /\ ackCh' = [ackCh EXCEPT ![w][f] = Append(@, raeByFields(w, f))]
    /\ fpc' = [fpc EXCEPT ![w][f] = "recv"]
    /\ UNCHANGED <<workerVars, notifierVars, flog, appendCh, taskList>>

-----------------------------------------------------------------------------
(* The notifier thread of worker w and follower f, on the leader *)

\* mutant: the first acknowledgement is enough
addVoteCountAny(w, f) ==
    LET n == Head(ackCh[w][f]) IN
    /\ npc[w][f] = "recv" /\ ackCh[w][f] /= <<>>
    /\ ackCh' = [ackCh EXCEPT ![w][f] = Tail(@)]
    /\ votes' = [votes EXCEPT ![n] = @ + 1]
    /\ ack' = [ack EXCEPT ![w][f] = n]
    /\ npc' = [npc EXCEPT ![w][f] = "load"]
    /\ UNCHANGED <<workerVars, followerVars, todo, appendCh, taskList>>

\* mutant: the task is looked for when the majority is reached, not after it
addVoteCountOnce(w, f) ==
    LET n == Head(ackCh[w][f]) IN
    /\ npc[w][f] = "recv" /\ ackCh[w][f] /= <<>>
    /\ ackCh' = [ackCh EXCEPT ![w][f] = Tail(@)]
    /\ votes' = [votes EXCEPT ![n] = @ + 1]
    /\ ack' = [ack EXCEPT ![w][f] = n]
    /\ npc' = [npc EXCEPT ![w][f] =
                  IF votes[n] = clusterSize \div 2 THEN "load" ELSE "recv"]
    /\ UNCHANGED <<workerVars, followerVars, todo, appendCh, taskList>>

\* More than half of the nodes must acknowledge, and the leader does not.
addVoteCount(w, f) ==
    LET n == Head(ackCh[w][f]) IN
    /\ npc[w][f] = "recv" /\ ackCh[w][f] /= <<>>
    /\ ackCh' = [ackCh EXCEPT ![w][f] = Tail(@)]
    /\ votes' = [votes EXCEPT ![n] = @ + 1]
    /\ ack' = [ack EXCEPT ![w][f] = n]
    /\ npc' = [npc EXCEPT ![w][f] =
                  IF votes[n] + 1 > clusterSize \div 2 THEN "load" ELSE "recv"]
    /\ UNCHANGED <<workerVars, followerVars, todo, appendCh, taskList>>

\* the task of the acknowledged lsn, at most one
TasksFor(w, n) == {t \in taskList[w] : t.lsn = n}

\* mutant: the task stays in the list
TaskFoundKept(w, f) ==
    /\ npc[w][f] = "load"
    /\ \E t \in TasksFor(w, ack[w][f]) :
          todo' = [todo EXCEPT ![w][f] = t.xacts]
    /\ npc' = [npc EXCEPT ![w][f] = "commit"]
    /\ UNCHANGED <<workerVars, followerVars, votes, ack, appendCh, ackCh, taskList>>

\* mutant: some task of the list is taken, whatever its number
TaskFoundAny(w, f) ==
    /\ npc[w][f] = "load"
    /\ \E t \in taskList[w] :
          /\ taskList' = [taskList EXCEPT ![w] = @ \ {t}]
          /\ todo' = [todo EXCEPT ![w][f] = t.xacts]
    /\ npc' = [npc EXCEPT ![w][f] = "commit"]
    /\ UNCHANGED <<workerVars, followerVars, votes, ack, appendCh, ackCh>>

\* taskLoad: the task is taken out of the list
TaskFound(w, f) ==
    /\ npc[w][f] = "load"
    /\ \E t \in TasksFor(w, ack[w][f]) :
          /\ taskList' = [taskList EXCEPT ![w] = @ \ {t}]
          /\ todo' = [todo EXCEPT ![w][f] = t.xacts]
    /\ npc' = [npc EXCEPT ![w][f] = "commit"]
    /\ UNCHANGED <<workerVars, followerVars, votes, ack, appendCh, ackCh>>

\* taskLoad returns -1: the notifier goes on to the next acknowledgement
TaskNotFound(w, f) ==
    /\ npc[w][f] = "load" /\ TasksFor(w, ack[w][f]) = {}
    /\ npc' = [npc EXCEPT ![w][f] = "recv"]
    /\ UNCHANGED <<workerVars, followerVars, votes, ack, todo, appendCh, ackCh, taskList>>

\* one transaction is committed and its client notified; the last one ends
\* the loop
commitNext(w, f) ==
    /\ npc[w][f] = "commit"
    /\ todo' = [todo EXCEPT ![w][f] = Tail(@)]
    /\ npc' = [npc EXCEPT ![w][f] = IF Len(todo[w][f]) = 1 THEN "recv" ELSE "commit"]
    /\ UNCHANGED <<workerVars, followerVars, votes, ack, appendCh, ackCh, taskList>>

-----------------------------------------------------------------------------
flush(w) == addEntry(w) \/ sendRPC(w) \/ taskStore(w)

logReceiver(w, f) == followerAddEntry(w, f) \/ sendAck(w, f)

notifier(w, f) ==
    addVoteCount(w, f) \/ TaskFound(w, f) \/ TaskNotFound(w, f) \/ commitNext(w, f)

Next ==
    \E w \in Worker :
        \/ \E b \in Batch : getLogSequenceNumber(w, b)
        \/ flush(w)
        \/ \E f \in Follower : logReceiver(w, f) \/ notifier(w, f)

Spec == Init /\ [][Next]_vars

\* A worker in the middle of a flush, a logReceiver and a notifier are threads
\* that wait for nothing but their own input.  Nothing makes a worker start a
\* flush.
Fairness ==
    \A w \in Worker :
        /\ WF_vars(flush(w))
        /\ \A f \in Follower : WF_vars(logReceiver(w, f)) /\ WF_vars(notifier(w, f))

FairSpec == Spec /\ Fairness

-----------------------------------------------------------------------------
(* Properties *)

Entry == [lsn : Lsn, xacts : Batch]

TypeOK ==
    /\ lsn \in 0 .. MaxLsn
    /\ wpc \in [Worker -> {"run", "append", "send", "store"}]
    /\ packet \in [Worker -> Entry \cup {[lsn |-> -1, xacts |-> <<>>]}]
    /\ dest \in [Worker -> 1 .. NF + 1]
    /\ wlog \in [Worker -> Seq(Entry)]
    /\ appendCh \in [Worker -> [Follower -> Seq(Entry)]]
    /\ fpc \in [Worker -> [Follower -> {"recv", "ack"}]]
    /\ flog \in [Worker -> [Follower -> Seq(Entry)]]
    /\ ackCh \in [Worker -> [Follower -> Seq(Lsn)]]
    /\ votes \in [Lsn -> 0 .. NF]
    /\ taskList \in [Worker -> SUBSET Entry]
    /\ npc \in [Worker -> [Follower -> {"recv", "load", "commit"}]]
    /\ ack \in [Worker -> [Follower -> Lsn \cup {-1}]]
    /\ todo \in [Worker -> [Follower -> Seq(Xact)]]

LsnsOf(log) == {log[i].lsn : i \in DOMAIN log}

\* logging.cc calls the number a global log index: every number is used once,
\* by one worker, and every log is in the order of the numbers, although
\* drawing a number and writing the entry are two steps of concurrent threads.
LsnOrder ==
    \A w \in Worker :
        /\ \A i, j \in DOMAIN wlog[w] : i < j => wlog[w][i].lsn < wlog[w][j].lsn
        /\ LsnsOf(wlog[w]) \subseteq 0 .. lsn - 1
        /\ \A v \in Worker \ {w} : LsnsOf(wlog[w]) \cap LsnsOf(wlog[v]) = {}

\* how much of its log the worker has sent to follower f
SentTo(w, f) == Len(wlog[w]) - (IF wpc[w] = "send" /\ dest[w] <= f THEN 1 ELSE 0)

\* What a follower has written is a prefix of the worker's log, and what is on
\* its way is the rest of what was sent: nothing is lost, doubled or swapped.
FollowerLogIsPrefix ==
    \A w \in Worker, f \in Follower :
        flog[w][f] \o appendCh[w][f] = SubSeq(wlog[w], 1, SentTo(w, f))

\* the followers that have written entry n of worker w
Holders(w, n) == {f \in Follower : n \in LsnsOf(flog[w][f])}

\* the acknowledgements of logReceiver f that the notifier has not yet counted
Uncounted(w, f) ==
    {ackCh[w][f][i] : i \in DOMAIN ackCh[w][f]}
        \cup (IF fpc[w][f] = "ack" THEN {raeByFields(w, f)} ELSE {})

\* The votes for an entry are the followers that have written it and whose
\* acknowledgement has arrived: none is counted twice, and none for another
\* entry, though all notifiers share the counters.
VotesAreHolders ==
    \A w \in Worker : \A n \in LsnsOf(wlog[w]) :
        votes[n] = Cardinality({f \in Holders(w, n) : n \notin Uncounted(w, f)})

\* the worker has flushed the batch and is done with it
Stored(w, n) ==
    n \in LsnsOf(wlog[w]) /\ ~ (wpc[w] \in {"send", "store"} /\ packet[w].lsn = n)

Loaded(w, n) == Stored(w, n) /\ TasksFor(w, n) = {}

\* A batch is taken for commit only when a majority of the cluster, the leader
\* included, has it in its log.
Durable ==
    \A w \in Worker : \A n \in LsnsOf(wlog[w]) :
        Loaded(w, n) => 2 * (Cardinality(Holders(w, n)) + 1) > clusterSize

\* The transactions of a batch are committed by at most one notifier, although
\* every notifier past the majority looks for the task: a batch that is still
\* being sent or still in the task list is in the hands of none.
OneCommitter ==
    \A w \in Worker, f, g \in Follower :
        npc[w][f] = "commit" =>
            /\ Loaded(w, ack[w][f])
            /\ npc[w][g] = "commit" /\ ack[w][g] = ack[w][f] => f = g

\* A batch is committed
Committed(w, n) ==
    Loaded(w, n) /\ \A f \in Follower : ~ (npc[w][f] = "commit" /\ ack[w][f] = n)

\* A task that is stored while an acknowledgement is still to be counted is
\* eventually committed: whichever acknowledgements came too early, a later
\* one that makes a majority looks again.
StoredIsCommitted ==
    \A w \in Worker, n \in Lsn :
        (TasksFor(w, n) /= {} /\ votes[n] < NF) ~> Committed(w, n)

\* raft.cc: "-1 if the task has already been loaded".  A notifier that does not
\* find the task has come after another one that did.
NotFoundMeansLoaded ==
    \A w \in Worker, f \in Follower :
        npc[w][f] = "load" /\ TasksFor(w, ack[w][f]) = {} => Loaded(w, ack[w][f])
=============================================================================
