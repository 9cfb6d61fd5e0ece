# A formal model of raft-2pl

raft-2pl is a replicated bank: clients send transfers between accounts, a fixed
leader executes them under two-phase locking and commits them in groups, when a
majority of the nodes has logged them. There is no election and no failover:
the "Raft" of the name is the log replication with its quorum.

This directory holds TLA+ modules for the parts of the program where
concurrency decides correctness, TLC configurations that check them on small
instances, and proofs, checked by TLAPS, of the properties that matter most.
Paths below are relative to the root of the repository (`src/...` in
`PROJECT.json` counts from one directory above).

## 1. The system

### Parts, their state and their operations

| part | files | state | operations |
|---|---|---|---|
| key-value store | `src/2pl/kvs.cc` | a mutex and an `int` per key | `lock` (trylock), `unlock`, `index_read`, `index_update` |
| two-phase locking | `src/2pl/twopl.cc` | the request, sorted in place; locals | `transferWork` (lock both keys or none), `commitWork` (move the money, unlock) |
| worker threads (leader) | `src/server/raft.cc` `worker`, `worker.cc` | queue of requests, batch being filled, request being retried, log file | take a request, lock it, flush the batch: log, send, store as a task |
| notifier threads (leader) | `raft.cc` `notifier`, `status.cc` | task list of the worker, vote counters, both behind a mutex | count an acknowledgement, take the task, commit, answer clients |
| log receivers (follower) | `raft.cc` `logReceiver`, `logging.cc`, `log.cc` | log file per worker | write the batch, acknowledge it |
| receiver (every node) | `raft.cc` `receiver` | round robin over workers, the connection it waits for | accept a connection, read its header, start the thread it is for |
| producers (leader) | `raft.cc` `producer`, `closeClient`, `clientnode.cc` | list of client records, each with a number and a socket | tell the leader's address, queue requests, say goodbye, free the record |
| startup | `raft.cc` `setupLeader`, `transmitter`, `main.cc`, `status.cc`, `config.cc` | `votedFor`, `currentTerm`, `workerInfos` | the node built as a candidate tells every other node that it is the leader, then creates its workers |
| restart | `main.cc`, `log.cc`, `status.cc`, `logging.cc` | the log files; everything else starts afresh | read the log file back and append to it; end with a lost connection |
| client | `src/client/client.cc` | current command, commit count, place in its input | find the leader; send a command, wait for all its commits, send the next; exit |
| input generator | `src/client/createInput.cc` | | write lines of random keys and amounts |
| Silo (`raft-silo` build) | `src/silo/transaction.cc`, `tuple.hh`, `db.cc` | a TID word and a value per tuple; read and write set of each worker | optimistic `transferWork`: read, lock and validate, write; `commitWork` is empty |

The rest is data and I/O: message layout (`rpc.cc`), node records, printing. A
standalone Silo benchmark, `silo.cc`, is in no build file.

### How the parts interact

```
client --command--> producer --xactQ--> worker --APPEND_ENTRIES--> logReceiver (per follower)
  ^                                      |  \--taskStore--> taskList       |
  |                                      lock()                            ack
  |                                      v                                 v
  +------COMMIT_MESSAGE------ notifier (per follower and worker) <---------+
                               addVoteCount, taskLoad, commitWork: update, unlock()
```

A request is locked by a worker and unlocked by a notifier: the locks are held
while the batch is written, sent, acknowledged by a majority, and found again
in the task list. All queues between processes are TCP streams (first in, first
out); workers, notifiers, log receivers and producers are threads that share the
store, the vote counters and the task lists.

### What is hard about it

* **Locks without waiting.** `transferWork` uses trylock and gives way. Sorting
  the keys of one request keeps two requests from giving way for ever, but a
  worker also holds the locks of every request in its batch while it tries the
  next one, in no global order. Only the flush on the timer, between two tries,
  resolves a circular wait, also with itself.
* **The notifier races with the worker.** The task is stored after the sends;
  its acknowledgements may be counted before.
* **Several notifiers for one task**, with vote counters that count messages
  and are shared between all workers.
* **Order across workers.** Every worker has its own log; only the global
  number orders entries of different workers, and drawing it and writing the
  entry are two steps.
* **Silo reads without locks.** A value may be copied while it is written, and may
  have changed when the transaction locks; TIDs that grow are what tells. New
  values are measured with `strlen`.
* **Partial failure and restart.** A lost connection ends the process at the
  other end, but what was sent before it ended can still be read. A restarted
  leader counts its batches and votes from zero, while a follower may still owe
  it an acknowledgement for its predecessor.
* **Startup.** Every node has one thread that accepts connections and waits
  for each to speak; `votedFor` is overwritten by whoever speaks last; clients
  may come before the workers exist.
* **Sessions.** A client's number is the length of a list from which failed
  sends remove elements. At the end of a session the record is freed but stays
  in the list, while notifiers may still look for it; memory and socket numbers
  are used again.

`PROJECT.json` lists each of these under `hazards`, at the line where it bites,
with the properties that cover it.

### What makes each part correct

* store and locking: a key is locked exactly while one request holds it; no
  update is lost; a transfer is atomic and happens at most once; money is
  conserved; every request gets its locks eventually.
* replication: follower logs are prefixes of the worker's log; votes are the
  followers that have logged the entry; a batch is taken by one notifier, and
  only when a majority has it; a stored task is eventually committed.
* Silo: transactions are serializable, a TID names one value, lock bits are not
  leaked by any of the ways to abort, every transaction commits in the end.
* startup: a client ends at a node that has declared itself the leader; a
  follower knows its leader when the first batch comes; clients are spread
  evenly over workers that exist; everybody is served in the end.
* sessions: an answer goes to the client whose request was committed; clients
  that come and go do no harm to the leader; each gets all answers and covers
  its input.
* restart: what was answered stays in the files of a majority; a vote stands
  for a follower that has the batch; a node does not go on alone.
* the whole leader: log order agrees with commit order on conflicting requests;
  the store is never ahead of the replicated log; locks pass from worker to
  notifier without being lost; clients are told the truth, and told it in the
  end.

## 2. The modules

| module | models | extends / instantiates |
|---|---|---|
| `Data` | the keys and the C type `int`: range, wrap-around, sum over a set | |
| `DataProofs` | lemmas about these, and induction over the subsets of a finite set; two theorems about `Input` | `Data`, `Input`, TLAPS |
| `Requests` | `client_request` and the in-place sort of `transferWork` | `Data` |
| `KVS` | locks and values of `kvs.cc` | `Data` |
| `Bank` | abstract: atomic transfers, each at most once | `Data` |
| `TwoPL` | `twopl.cc`, every access to the store one step | `Requests`, `KVS`; refines `Bank` |
| `TwoPLProofs` | the theorems about `TwoPL` | `TwoPL`, TLAPS |
| `Replication` | flush, log receivers, votes, task list, notifiers | |
| `ReplicationProofs` | the theorems about `Replication` | `Replication`, TLAPS |
| `RaftTwoPL` | clients, producers, worker loop, commit messages | `E == INSTANCE TwoPL`, `R == INSTANCE Replication` |
| `RaftTwoPLProofs` | the theorems about `RaftTwoPL`, with those about its two parts | `RaftTwoPL`, `TwoPLProofs`, `ReplicationProofs`, TLAPS |
| `Records` | the bytes of a Silo value, the union and `strlen` | `Data` |
| `SerialStore` | abstract: transactions one after the other | `Records` |
| `Silo` | `transaction.cc`, every access to a tuple one step | `Records`; refines `SerialStore` |
| `SiloProofs` | the theorems about `Silo`: types and locks, transaction numbers, the refinement | `Silo`, TLAPS |
| `Startup` | from the start of the processes to the first acknowledged batch | |
| `StartupProofs` | the theorems about `Startup` | `Startup`, TLAPS |
| `Sessions` | the clients' sessions on the leader, from the first command to the goodbye | |
| `SessionsProofs` | the theorems about `Sessions` | `Sessions`, TLAPS |
| `Recovery` | processes that end and are started again, with their log files | |
| `RecoveryProofs` | the theorems about `Recovery` | `Recovery`, TLAPS |
| `Input` | the lines `createInput.cc` may write | |
| `MCTwoPL`, `MCReplication`, `MCRaftTwoPL`, `MCSilo`, `MCStartup`, `MCSessions`, `MCRecovery` | the instances TLC checks | |

Operators called `mutant` in a comment are plausible bugs of the definition
that follows them; nothing uses them. Each property of a passing run is known
to be violated when one of them takes the place of that definition
(`PROJECT.json`, `mutants`), so that no property holds for the wrong reason.

### TwoPL

`phase[x]` is the program counter of request `x` through `transferWork` and
`commitWork`; `seen[x]` holds `fromVal` and `toVal`. One action is one access to
shared state: `LockFrom`, `LockTo`, `LockToBusy`/`Release` (the failure path),
then `ReadFrom`, `ReadTo`, `UpdateFrom`, `UpdateTo`, `UnlockFrom`, `UnlockTo`. A
first trylock that fails changes nothing and is no step. The sort of the keys
is the function `Sorted`: it depends on the request alone, and the sorted
request is what is used from then on. `AssertFails` is the failing assertion,
which ends the process: after it nothing moves (`Running`).

### Replication

Per worker: `wpc`, `packet`, `dest` (the loop over the followers) and `wlog`; per
worker and follower: two channels, the follower's log and program counter, and
the notifier's program counter with the acknowledgement and the task it is
working on. Connections are made lazily and retried until they succeed, so
they are taken as made. Acknowledgements always report success (`grant` is
always true). Fields of the messages that no receiver reads (term, previous
index and term, commit index) are left out, as is `nextIndex`, which is read
uninitialised and flows only into those fields.

### RaftTwoPL

The two modules above with their variables, and the worker loop that ties
them: `cur[w]` is the request being retried, `logBuffer[w]` the batch.
`acquire` is the `LockTo` step of `TwoPL` together with the append to the batch;
`flush` starts the flush of `Replication` with the batch, at the places where
the loop tests the timer (the timer may have run out at any test);
`commitWork` runs the steps of `TwoPL` for the first request of the notifier's
task, and `notifyClient` sends its commit message. A client sends its next
command when it has counted `MAX_CLI_REQ` messages for the current one.

### Silo

`pc[w]` is the program counter of worker `w` through `transferWork`; `lock`, `tid`
and `record` are the tuples. The TID word is a lock bit and one number (epoch
above transaction number); the bits `latest` and `absent` never differ. Read and
write set always hold the same two records in the same order, so one iterator
`idx` over `Keys(cur[w])` serves all loops. Loading an unlocked word and the
compare-and-swap that finds it unchanged are one step, a failed
compare-and-swap is the step that the word then allows. Values are copied into
a tuple byte by byte and out of it at once (a word of four bytes). `max_set` is
the larger of `max_rset_` and `max_wset_`, which are used in no other way. The
global epoch stays 1: only `leaderWork` of the benchmark advances it.

The length of a new value is that of a C string. `Source` says what is copied;
a value without a zero byte may be copied beyond its record (`Overrun`). That is
undefined, the model stops there, and every property speaks of what comes
before. The contents of freshly allocated memory are the constant `Memory`.

### Startup

`proc`, `votedFor`, `tpc`/`peer` (the transmitter thread in `setupLeader`) and
`workers` are the state of each node; `backlog`, `handling` and `spoken` are the
connections not yet accepted, the one whose header the receiver waits for, and
those whose header has arrived. `Received(n, kind)` is the common part of the
branches of `receiver`. The configuration is data: `Config` drops the empty
lines and takes the first other one for the directory, `me` is
`setRaftNodesByConfig` (a node number as argument, else the first address of
this machine). The model goes up to the first batch of each worker and its
first acknowledgement, because that is when connections are made. A process that
calls `exit`, fails an assertion or follows the pointer that
`getWorkerInfoById` never set is `ended`, and its connections end with it.

### Sessions

`clientNodes` is a sequence of addresses, `heap` the record at each address,
`owner` the client behind each socket number; so a record that was freed can be
found, printed or sent to, as in the code. `connect` is the branch of the
receiver that makes a record (number = length of the list), `sendRPC` the leader's
send with the removal after a failure, and `sayBye`, `closeRecvSock`, `free` are
`closeClient` step by step. TCP appears in `conn`: after the client has closed,
the first send succeeds and the next fail; a client that closes with unread
messages resets the connection. Freed memory may read as 0 or as garbage. The
client reads its input in batches (`Batches`) and goes round as the code does
(`NextBatch`).

### Recovery

Node 0 is the leader, with one worker. A connection is a record with the process
it leads to and what is on it; each pair of a leader process and a follower has
one in each direction. `End` is the end of a process with its threads and its
volatile state, `Boot` the next one with the log file and nothing else. Entries
carry the number of their leader process as a ghost, which tells apart batches
that the program cannot: both have the same log sequence number.

## 3. The runs

| run | instance | shows |
|---|---|---|
| `twopl` | 4 requests in a cycle of conflicts, 4 accounts, 4-bit integers | `LockDiscipline`, `NoLostUpdate`, `MoneyConserved`, refinement of `Bank`, `EventuallyCommitted` |
| `replication` | 1 worker, 4 followers, 2 batches | `LsnOrder`, `FollowerLogIsPrefix`, `VotesAreHolders`, `OneCommitter`, `Durable`, `StoredIsCommitted` |
| `raft_ring` | 2 clients, 2 workers, 2 followers, 4 requests in a ring of conflicts, no amounts | `LogOrderIsCommitOrder`, `LocksHandedOver`, `EveryCommandAnswered`, `WorkersInStep` (the invariants of `Replication` for two workers) |
| `raft_shared` | 2 clients on one worker, several commands each, one failing the assertion | `AppliedIsReplicated`, `AnswersAreTrue` |
| `silo_ring` | 3 workers, 3 transactions in a ring of conflicts, no amounts | `LockDiscipline`, `EventuallyCommitted` |
| `silo_serial` | 2 workers, 3 transactions in a ring, one more that fails the assertion | `TidNamesValue`, `CommitTidLarger`, refinement of `SerialStore` |
| `startup` | 2 nodes, 1 candidate, 2 workers, 3 clients, a file that may be missing | `SettledAtLeader`, `BatchAfterVote`, `SharedEvenly`, `EverybodyServed` |
| `sessions` | 3 clients with 2, 1 and 0 batches, 1 notifier, one client that may be interrupted | `MessagesReachOwner`, `LeaderSurvives`, `InputCovered`, `EverybodyLeaves` |
| `recovery` | 2 followers, one crash, leader and one follower started twice, 3 batches | `PrefixPerLeader`, `AnsweredSurvives`, `VotesAreTrue`, `EndSpreads` |
| `twopl_direction` | 2 requests | violated: `BalancesAsRequested` |
| `replication_race` | 1 worker, 2 followers, 1 batch | violated: `NotFoundMeansLoaded` |
| `silo_values` | 1 transaction | violated: `BalancesAsRequested` |

Each run but `raft_ring`, `raft_shared` and `silo_serial` also checks the type
invariant `TypeOK` of its module, that of `twopl` includes the one of `KVS`.

Bounds. Requests, commands and batches are finite supplies, used up in each
behaviour. Four requests over four accounts give every kind of conflict: in the
same batch, with the worker's own batch, with another worker's, and a cycle of
all of them. Batches hold two requests (`MAX_GROUP_ENTRY`; 100 in the code),
enough for a batch to be full, not full, and shared by two clients. Three nodes
are the smallest cluster that commits at all; five are the smallest in which a
majority of acknowledgements is not all of them, which is where a late
acknowledgement finds the task after an early one missed it. `INT_MAX` is 7, so
that three of the transfers overflow. `MaxLsn` bounds the batches of a behaviour;
in `RaftTwoPL` it is larger than the number of requests and never reached.
Silo values have three bytes of one bit: of the eight values one has no zero
byte, three begin with one, and the others are cut at different lengths. Three
transactions, each pair with one key in common, give every order of lock, abort
and commit that the workers can be in; `TIDS` is larger than the number of
transactions.
In `startup` one more client than there are workers takes the round robin once
round, and both kinds of node, asked directly or not, are there. In `sessions`
three clients are enough for a number, a record and a socket to be used again
while an older one is still in the list; two lines make a batch, so that a batch
is answered in two messages. In `recovery` one interruption ends all three
nodes in any order, and the second leader process meets an acknowledgement of the
first; the second follower is not started again, which is the follower a leader
may lose. Deadlock is not checked: the programs stop when the supply is used up,
the assertion has failed or the processes have ended; that they do not stop
earlier is what the liveness properties check.

Fairness. In `TwoPL` a request with a step to take is scheduled (neither
function blocks); that `commitWork` is called at all is an assumption there. In
`Replication` every thread that has input is scheduled; no flush is forced to
begin. In `RaftTwoPL` the worker loop is fair and its test of the timer is
strongly fair, because the loop reaches the test in every round while the timer
stays expired until the flush; for clients, log receivers and notifiers it is
enough that one of them that can move does. In `Silo` every worker with a step to
take is scheduled; it is also assumed that no value overruns (there are no
amounts), since that would end the process. In `Startup` every thread is
scheduled and every node is started some time, as `connect2raftnode` has to
assume; in `Sessions` every thread and client is scheduled while the leader
runs; in `Recovery` the threads are, but nobody has to start a node, flush a
batch or interrupt anything. Interruptions are never fair.

Exceptions, which the properties name because the code has them.
`EveryCommandAnswered`: when the acknowledgements overtake `taskStore`
(`MissedTask`), the batch is lost for ever. `SharedEvenly`: no client was
accepted before the workers existed (`early`). `EverybodyServed`: no process has
ended. `MessagesReachOwner`, `LeaderSurvives`, `EverybodyLeaves`: no client was
interrupted with answers to come (`hurt`). `AnsweredSurvives`, `VotesAreTrue`: the
leader process has got no connection from the log receiver of another
(`Confused`). TLC finds each of them violated without its exception.

### Disagreements found while modelling

Each of these has a run of its own:

1. `transferWork` exchanges source and destination when the source has the
   larger key, and does not negate the amount: the money moves the wrong way
   (`README.md`: source, destination, amount; the Silo version negates).
   `TwoPL` is faithful to this, so `ImplementsBank` debits the smaller key.
2. `taskStore` comes after the sends. In a cluster of three the second
   acknowledgement may be counted before it; the notifier takes "not found" for
   "already loaded" and the batch is never committed nor unlocked. With five
   nodes a later acknowledgement may still find it (`StoredIsCommitted`).
3. Silo writes a new balance only up to its first zero byte; if that is the
   first byte, the thread id takes the place of the balance; if there is none,
   the copy has no proper end. Transactions are serial all the same
   (`Serializable`), but they do not do what was requested.

Other behaviour of the code that the models contain and that contradicts no
document or comment:

* `assert(req.from != req.to)` is reached by requests that nothing rejects, 96
  lines of `INPUT/input_20k` among them. It ends the leader.
* The transaction number of Silo has 29 bits and no epoch above it that moves;
  after the last number the first one follows.
* A two-node cluster never commits: one follower is not more than half of two.
* Clients that come before the workers exist get a number for which there is
  no worker, and when as many as `WORKER_NUM` come, the round robin never
  returns to 0.
* A client interrupted between connecting and asking ends the node it connected
  to (`receiveNothing`). One interrupted with answers to come ends the leader,
  by a reset connection or through a freed record.
* A freed record may read as number 0 and stay in the list; with its socket
  number used again, an answer to the first client of the list can reach a
  later one once that first client has gone with answers to come.
* A client whose input has a single batch ends after one command; one with more
  sends the first batch once and the others again and again. `TX_NUM` counts
  commands, not transfers.
* A process without its file `votedFor` or `currentTerm` passes a null pointer
  to `fgets`.
* After a restart, an acknowledgement of a batch of the previous leader process
  counts for the batch of the same number of the new one.

## 4. The proofs

All theorems hold for every value of the constants that the named assumptions
of the modules allow: any number of workers, followers and clients, any set of
requests, any width of the integers, batches of any capacity. Where a proof
counts, what it counts is assumed to be finite (the clients of `Startup`, the
clients and notifiers of `Sessions`, the followers). A theorem
with a further hypothesis says so in its statement. `PROJECT.json` lists them
under `theorems`, with the property of a run that each of them states.

### DataProofs

`DataProofs` has what the other modules need of arithmetic: what `Wrap`
preserves (its result differs from the sum by a multiple of the width), and how
`SumOver` changes with one value of the function. `SumOver` is a fold, which is a
function chosen to satisfy a recursive equation; that there is one
(`SolutionUnique` and the lemmas around it) is shown by induction over the
subsets of a finite set (`SubsetInduction`): a minimal counterexample of the
well-founded strict subset ordering. `LargestIs` finds the largest number of a
finite set in the same way.

About `Input` it shows that the keys `createInput` writes exist as long as `RAND_MAX` is
below the square of the size of the database (`KeysExist`), and that otherwise it
can write a key that fails the assertion of `KVS::lock` (`KeyMissing`).

### TwoPLProofs

`TypeCorrect`, `LockDisciplineHolds`, `NoLostUpdateHolds`, the refinement of `Bank`
(`Refinement`), and `MoneyIsConserved`: for a finite set of keys, all balances and
what half-done transfers have taken out sum to the money there was, modulo the
width of the type.

The inductive invariant `IInv` is `TypeOK`, `LockDiscipline`, `NoLostUpdate` and
`DistinctKeys`: a request past the assertion has two different keys. The last is
needed because a request with one key would unlock it twice and debit it before
it credits it. `LockDiscipline` carries the argument: the keys of different
requests are disjoint while they are held (`OthersKeys`), so what one request
writes, no other has read. Each step is one of three kinds for the locks (takes
a free key, gives back a key it holds, touches none), proved once each
(`LockKeeps`, `UnlockKeeps`, `SameLocksKeep`). For the refinement, `CommittedView`
hides the debit of a half-done request: `BankDebit` shows that the first update
is a stutter of `Bank`, `BankTransfer` that the second is its transfer, and
`BankStutter` that all other steps are stutters. The sum of the money follows
along the same lines: a step changes it by a multiple of the width or not at
all.

`GivingWayEnds` is the part of `EventuallyCommitted` that is not about fairness.
`transferWork` never waits: a request that finds its second key taken gives the
first one back, and two requests could do that to each other for ever. By
`GivesWayUpwards` a request gives way only to one that has got both its keys or
holds a larger one, because the keys are sorted; so there is no circle, and by
`SomebodyGetsOn`, as long as none has both keys, the one with the largest first
key finds its second key free. Without the sort TLC finds `GivesWayUpwards`
violated by two requests.

### ReplicationProofs

`TypeCorrect`, `NumbersInOrder`, `CopiesArePrefixes`, `VotesAreTrue`,
`LoadedIsDurable` and `CommittedOnce` are the six invariants of the run
`replication`. None is inductive. The invariant follows a batch on its way:

* `Flushing`: while a worker writes or sends, its packet has a number of its
  own, and the entry is the last of its log once it is written;
* the checked invariants themselves: `TypeOK`, `LsnOrder`, `FollowerLogIsPrefix`
  (what a follower has written, what it is writing and what is in the channel are
  one after the other in the log of the worker), `OneCommitter`;
* `AcksInOrder`: what a follower has acknowledged is what it has written, in
  order, and the leader has counted a first part of it, so that no
  acknowledgement is counted twice;
* `VotesByCount`: the counter of an entry is the number of followers whose
  acknowledgement has been counted for it (`Voters`);
* `TasksStored`, `Notifying`: a task is in the list from `taskStore` until it is
  taken, and then with one notifier, which has seen a majority.

### RaftTwoPLProofs

The leader first implements its parts. `Queues` (the types of what its threads
hold, and that a worker with a request in hand has room for it) makes every
flushed batch one that `Replication` takes: `ImplementsReplication`, so
`StepTogether` (`WorkersInStep`) follows from `ReplicationProofs`. What notifiers
have to do is then known to be requests, so `commitWork` is a step of `TwoPL`:
`ImplementsTwoPL`, and with `Refinement`, `ImplementsBank`: what clients get
through queues, batches, logs and notifiers is still an atomic transfer, at
most once. All that is proved of the two parts is `Known` in what follows.

On top, by an invariant of the composition alone (`IInv`):

* `BatchesApart`: a request that has been locked is in one batch only, and
  in one log entry;
* `CommitsOwn`: what a notifier has yet to commit is locked, or is the request
  it is committing, and is of an entry taken by that notifier;
* `BatchOrder`: of conflicting requests the earlier one was applied before the
  later one was locked, in batches not yet logged too;
* `LocksHandedOver` and `AppliedIsReplicated`.

Theorems: `HandsOver`, `LogsInCommitOrder`, `NeverAhead`. The second needs
`LocksHandedOver` and the disjoint keys of `TwoPLProofs`: a request that is logged
holds its locks, so a conflicting one of another entry has given them back,
which is after it was applied.

`TellsTheTruth` (`AnswersAreTrue`: the messages that a client has counted or will
count for a command are of requests of it that are applied and unlocked, each
told once, and its former commands are applied altogether) has an invariant of
its own:

* `Singly`: no request is twice in a buffer, a batch or a task (that it is not in
  two of them is `BatchesApart`);
* `OnlySent`: what producers, queues and workers hold, and every request that is
  no longer new, is of a command that its client has sent;
* `Answered`: a client has been told of every request of its former commands; the
  messages on their way are about the current one, and the client has counted no
  more of them than requests have been told.

Only `notifyTells` adds to what has been told, and it adds requests whose commit
is done (`ToldStays`, `OneNotifier`). The assumption `CommandsAssumption` says that
a request belongs to one place of one command: what a client sends again is
another request.

### SiloProofs

`TypeCorrect` and `LockDisciplineHolds` (a record is locked exactly while one
worker has it in the locked part of its write set) rest on where the iterators
are (`Places`), on write sets having two different keys (`DistinctKeys`) and on
each transaction being run by one worker (`OneEach`).

The properties of transaction numbers hold as long as the numbers do not come
round, which is the hypothesis `NumbersSuffice` of `TidNamesOneValue`,
`CommitTidGrows` and `ImplementsSerialStore`: fewer transactions than numbers.
(After 2^29 numbers the program does use one again,
section 3.) From it `NumbersBounded` shows that no number exceeds the count of
transactions that have chosen one, so `Increment` never wraps. `Fresh` and
`SameTidSameVal`: a number names one value for one key, whether in a record or in
a read set; `HalfWritten` is the exception of a record whose value or number is being
written, by the worker that has it locked; `StillCurrent`: after validation what
was read is still there; `Above`: the number computed so far exceeds those
already looked at. For `Serializable` the view hides what a validated transaction
has yet to write (`ViewOK`); the last successful check of `validationPhase` is the
transaction of `SerialStore` (`LastValidation`), every other step a stutter.

`GivingWayEnds` is the counterpart for `lockWriteSet`, which gives up at the first
record that is locked: transactions make each other abort only upwards in the
order of the sorted write sets. (A transaction may also abort because the number
of a record has changed; then another has committed.)

### StartupProofs

`Shape` is the invariant that holds for every configuration: any number of nodes,
candidates, workers and clients, any files. It has `TypeOK` (`TypeCorrect`),
`Unstarted` (nobody has connected to a process that is not there), `Transmitting`
(only a candidate has workers, after its calls), `Connections` (votes and batches
come from a candidate, to another node), `Leading`, `Working` and `Served` (a worker
with something to send exists). The lemmas `Changes_...` say which actions change
which variable, so that each step has to look only at those.

Two theorems are about one candidate (`OneCandidate`: one process of the program
that may become the leader, the others of the one built with
`CAN_BE_CANDIDACY=false`). `NoBatchBeforeVote` (`BatchAfterVote`) rests on
`VotesFirst`: whoever `setupLeader` has called knows the leader, or is about to
read the vote, or has the vote in the line of its connections, there before any
batch (`InLineKept`, `NewlyCalled`). `SettledWithLeader` (`SettledAtLeader`) rests on
`OwnVote` and `RightPlace`: a client is answered with the address it has asked only
by a node that has voted for itself, which only the candidate does. It needs
`OwnFiles` too: nobody has written into the file `votedFor` of a node that is no
candidate that it is its own leader (the program never writes this file). With two
candidates both properties fail: the later vote overwrites the earlier.

With one candidate the workers are shared evenly, too
(`WorkersSharedEvenly` for `SharedEvenly`). `AskedOnce`: a client asks one node at a
time, so that its request, the number given to its producer and the answer are
never there together, and nobody is counted twice. `Placed`: a client that the
leader has taken is told to stay (`VotedForSelf`: a candidate that has workers
has voted for itself), and no other node can give it a worker, since it has
none. `Even`: the workers below the next of the round robin have been given one
client more than the others (`Dealt`); `LoadAdded` is the step of the count.

### SessionsProofs

`TypeCorrect`, `ReachesOwner`, `Survives` and `CoversInput` are the four invariants of
the run `sessions`, for any number of clients and notifiers and any input. None
is inductive; the parts of `IInv` are:

* `RecordsInv`: a producer that has not freed its record has one that is in use,
  no other's, with a socket number of its own; a record that is not in use reads
  0 or garbage;
* `SafeInv`, as long as no client has gone away with answers to come: the leader
  runs, the number of a record is its position in the list (`Listed`: no send has
  failed, so nothing was taken out), and each client is in one of a few states
  with its producer and its connection (`Phase`). From `RecordsInv` and `Listed`
  follows that the search for a number ends at the record of the client that
  sent it, although freed records are still in the list (`RecordOfClient`).
  `Waiting` bounds the answers that a client has counted, those in its inbox,
  those that a notifier holds and those not yet committed, together, by the
  number that it waits for; so when it leaves, nobody is about to send to it,
  no send fails and nothing is taken out of the list, which closes the circle;
* `CoveredInv`: which batches have been sent, at each point of the client's loop.

TLC has checked `IInv` on an instance with three clients, one of which may be
interrupted, before it was proved.

### RecoveryProofs

`TypeCorrect`, `PrefixInOrder`, `AnswersSurvive` and `VotesTrue` are the four
invariants of the run `recovery`, for any number of followers, starts of each node
and batches. The inductive invariant `IInv` follows a batch from the leader to the
file of a follower and back, for each pair of a leader process and a follower:

* `FilesInv`: of each leader process a file has the batches below some number
  (`Held`), in order; a follower has no more of them than the leader's file, which
  has exactly the running leader's;
* `AppendInv`: as long as the follower that a connection leads to is alive, what
  is on it continues what the follower holds (`From`), up to what the worker has
  sent (`Sent`). When the follower ends, its connections do, and nobody connects to
  its successor in the name of the same leader process: that is why there is no
  gap;
* `BackInv`: the acknowledgements on their way rise, without a repetition, and are
  below what the follower holds, or is about to acknowledge (`Acked`);
* `VotesInv`: the votes for a number are at most the connections from which the
  running leader has taken an acknowledgement of it (`Voters`). It counts those of
  other leader processes too, as the code does; without them (`Confused`) every
  voter is a follower with the batch in its file.

A batch in a file stays there, so `AnsweredSurvives` has to be shown only where a
batch is answered: there a majority has voted, and the leader has the batch itself.

### Only model-checked

Liveness, since the prover has no rule for fairness or ENABLED:
`EventuallyCommitted` (of `TwoPL` and of `Silo`), `StoredIsCommitted`,
`EveryCommandAnswered`, `EverybodyServed`, `EverybodyLeaves`, `EndSpreads`. The two
theorems `GivingWayEnds` show what the first needs besides fairness. Every
invariant and every action property that a passing run checks, and every
refinement, is proved.

## 5. Not modelled

* Silo together with the replication. Its transactions are visible before they
  are logged; a composition like `RaftTwoPL` would show which answers may be
  lost, but multiplies the two largest state spaces.
* Torn writes of a log entry, removed files, and a replay of the log, which the
  code does not have: a restarted leader has its log files and an empty store.
* A reallocation of `clientNodes` under a notifier that iterates over it. It is
  undefined behaviour; the model looks up and erases in one step each.
* A configuration with host names instead of addresses: the receiver compares
  the numeric address of a connection with the text of the file, finds no node
  for it, and drops votes, batches and acknowledgements alike.
* The 31 bits of the log sequence number, which take 2^31 batches to use up.
* Left out for good: the Silo benchmark (`silo.cc` is in no build file, and the
  `transactionWork` that it calls is commented out), message layout, logging to
  the console, functions that nothing calls (`ackEnqueue`, `Log::match`, the lock
  memo of the store, the probing of the hash table past the first bucket, which
  cannot happen with ten buckets for each key).

## 6. Plan

1. **Core** (done): `TwoPL` with `Bank`, `Replication`, `RaftTwoPL`, `Silo` with
   `SerialStore`, and the proofs about `TwoPL`.
2. **Extensions** (done): `Startup`, `Sessions` with the client's way through
   its input, `Recovery`, `Input`.
3. **Proofs** (done): `TwoPLProofs`, `ReplicationProofs`, `RaftTwoPLProofs`,
   `SiloProofs`, `StartupProofs`, `SessionsProofs`, `RecoveryProofs`. Left: the
   composition of Silo with the replication; the hash table of `kvs.cc`, whose
   every probe ends in the first bucket.
