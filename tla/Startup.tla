------------------------------ MODULE Startup -------------------------------
(***************************************************************************)
(* From the start of the processes to the first batch (src/server/main.cc, *)
(* raft.cc, status.cc, src/client/client.cc).  Nodes are started in any    *)
(* order.  A node built as a candidate tells all others, one after the     *)
(* other, that it is the leader, and only then creates its workers.  A     *)
(* client asks the node it knows for the leader and goes where it is sent. *)
(* A worker connects to the followers when it sends its first batch, and   *)
(* each follower connects back with the acknowledgement.  On every node    *)
(* all connections are accepted by one thread, in the order in which they  *)
(* were made, and that thread waits for what a connection has to say       *)
(* before it accepts the next.                                             *)
(***************************************************************************)
EXTENDS Integers, Sequences, FiniteSets, FiniteSetsExt

CONSTANTS
    ConfigFile,     \* the lines of raft.conf, each empty, the name of the
                    \* storage directory or the address of a node
    ClientConfig,   \* ClientConfig[c]: the lines of the client's file
    Candidate,      \* the nodes that run the program built as a candidate
    Arg,            \* Arg[n]: the node number given to the process that is
                    \* meant to be node n, or -1 for none
    VotedForFile,   \* VotedForFile[n]: what the file votedFor may hold
    WORKER_NUM,
    Client,
    Empty,          \* an empty line
    Missing,        \* no file
    None            \* no node, no worker, no connection

\* The constructor of Config: the first line that is not empty names the
\* storage directory, the later ones are the nodes, in this order.
Config == Tail(SelectSeq(ConfigFile, LAMBDA line : line /= Empty))

\* the number of an address of Config is its place, from 0
N == Len(Config)
node_conf(n) == Config[n + 1]

Node == 0 .. N - 1
Worker == 0 .. WORKER_NUM - 1
Follower(n) == Node \ {n}

\* how a client is told of node n
rrlByFields(n) == [hostname |-> node_conf(n).hostname, port |-> node_conf(n).port]

\* the node that listens at the address
NodeAt(address) == CHOOSE n \in Node : node_conf(n) = address

\* the first line of the client's file
getHost(c) == Head(ClientConfig[c])

\* setRaftNodesByConfig: the argument, or else the first node of the file that
\* has an address of this machine
me(n) ==
    IF Arg[n] \in Node THEN Arg[n]
    ELSE Min({m \in Node : node_conf(m).hostname = node_conf(n).hostname})

Connection ==
    [from : Node \cup Client, worker : Worker \cup {None},
     kind : {"REQUEST_VOTE", "REQUEST_LOCATION", "APPEND_ENTRIES", "RESPONSE_APPEND_ENTRIES"}]

Address == {rrlByFields(n) : n \in Node}

\* An address is a host name and a port, and no two nodes have the same.  Every
\* process is started so that it becomes the node it is meant to be.

ASSUME StartupAssumption ==
    /\ N \in Nat \ {0} /\ WORKER_NUM \in Nat \ {0}
    /\ Candidate \subseteq Node
    /\ \A n \in Node : node_conf(n) = rrlByFields(n)
    /\ \A m, n \in Node : node_conf(m) = node_conf(n) => m = n
    /\ \A n \in Node : me(n) = n
    /\ VotedForFile \in [Node -> SUBSET (Node \cup {-1, Missing})]
    /\ \A c \in Client : \E n \in Node : getHost(c) = node_conf(n)
    /\ None \notin Nat \cup Connection \cup Address /\ Client \cap Node = {}
    /\ IsFiniteSet(Client)

VARIABLES
    proc,       \* "off", "up" or "ended", of each node
    votedFor,   \* Status::votedFor, the leader as far as the node knows
    tpc,        \* transmitter: "start", "call", "create" or "idle"
    peer,       \* the node that setupLeader calls next
    workers,    \* the number of elements of workerInfos
    workerId,   \* the round robin of the receiver
    backlog,    \* connections made and not yet accepted
    handling,   \* the connection whose header the receiver waits for
    spoken,     \* connections whose header has been sent, with their node
    notifiers,  \* the notifier threads: follower and worker of each
    work,       \* the workers that have something to send
    dest,       \* the follower that a worker connects to next
    lpc,        \* logReceiver of a worker: "none", "start", "connect",
                \* "write" or "done"
    leaderOf,   \* the node whose batch it received
    cpc,        \* client: "connect", "ask", "wait", "settled", "sent", "ended"
    host,       \* the address it is connected to
    answer,     \* the leader's address on its way to it
    given,      \* the worker number that its producer thread was started with
    served,     \* the worker that the producer found
    early       \* history: clients accepted by a node before it had all
                \* its workers, with that node

nodeVars   == <<proc, votedFor, tpc, peer, workers>>
batchVars  == <<work, dest, lpc, leaderOf, notifiers>>
clientVars == <<cpc, host>>
sessionVars == <<answer, given, served, early>>
connVars   == <<backlog, handling, spoken>>
vars == <<nodeVars, workerId, batchVars, clientVars, sessionVars, connVars>>

\* the nodes that setupLeader and the worker go through, in order
After(n, m) == {k \in Follower(n) : k > m}
NextAfter(n, m) == IF After(n, m) = {} THEN N ELSE Min(After(n, m))

PerNode(v) == [n \in Node |-> v]
PerWorker(v) == [n \in Node |-> [w \in Worker |-> v]]

Init ==
    /\ proc = PerNode("off") /\ votedFor = PerNode(-1)
    /\ tpc = PerNode("idle") /\ peer = PerNode(N)
    /\ workers = PerNode(0) /\ workerId = PerNode(0)
    /\ backlog = PerNode(<<>>) /\ handling = PerNode(None) /\ spoken = {}
    /\ notifiers = PerNode({})
    /\ work = PerNode({}) /\ dest = PerWorker(N)
    /\ lpc = PerWorker("none") /\ leaderOf = PerWorker(None)
    /\ cpc = [c \in Client |-> "connect"]
    /\ host = [c \in Client |-> getHost(c)]
    /\ answer = [c \in Client |-> None]
    /\ given = [c \in Client |-> None] /\ served = [c \in Client |-> None]
    /\ early = {}

Up(n) == proc[n] = "up"
\* exit(1), a failed assertion or a wild pointer
End(n) == proc' = [proc EXCEPT ![n] = "ended"]

Gone(x) == IF x \in Node THEN proc[x] = "ended" ELSE cpc[x] = "ended"

Conn(from, kind, w) == [from |-> from, kind |-> kind, worker |-> w]

Connect(n, c) == backlog' = [backlog EXCEPT ![n] = Append(@, c)]

setVotedFor(n, m) == votedFor' = [votedFor EXCEPT ![n] = m]

-----------------------------------------------------------------------------
(* main, the constructor of Raft and the transmitter thread *)

\* The constructor of Status: without a file, fgets is given a null pointer; an
\* empty file votedFor means -1.  (The term, which the other file holds, is only
\* copied into entries and messages.)
Status(n, file) ==
    IF file = Missing
    THEN End(n) /\ UNCHANGED votedFor
    ELSE proc' = [proc EXCEPT ![n] = "up"] /\ setVotedFor(n, file)

Boot(n) ==
    /\ proc[n] = "off"
    /\ \E file \in VotedForFile[n] : Status(n, file)
    /\ tpc' = [tpc EXCEPT ![n] = IF n \in Candidate THEN "start" ELSE "idle"]
    /\ UNCHANGED <<peer, workers, workerId, batchVars, clientVars, sessionVars, connVars>>

\* mutant: the followers are not told
voteForMeAlone(n) ==
    /\ Up(n) /\ tpc[n] = "start"
    /\ setVotedFor(n, n)
    /\ tpc' = [tpc EXCEPT ![n] = "create"]
    /\ UNCHANGED <<proc, peer, workers, workerId, batchVars, clientVars, sessionVars, connVars>>

\* setupLeader, the dummy vote
voteForMe(n) ==
    /\ Up(n) /\ tpc[n] = "start"
    /\ setVotedFor(n, n)
    /\ peer' = [peer EXCEPT ![n] = NextAfter(n, -1)]
    /\ tpc' = [tpc EXCEPT ![n] = IF Follower(n) = {} THEN "create" ELSE "call"]
    /\ UNCHANGED <<proc, workers, workerId, batchVars, clientVars, sessionVars, connVars>>

\* connect2raftnode tries again until the other node listens, and is followed
\* by the REQUEST_VOTE at once
requestVote(n) ==
    LET m == peer[n]
        c == Conn(n, "REQUEST_VOTE", None)
    IN
    /\ Up(n) /\ tpc[n] = "call" /\ Up(m)
    /\ Connect(m, c) /\ spoken' = spoken \cup {<<m, c>>}
    /\ peer' = [peer EXCEPT ![n] = NextAfter(n, m)]
    /\ tpc' = [tpc EXCEPT ![n] = IF NextAfter(n, m) = N THEN "create" ELSE "call"]
    /\ UNCHANGED <<proc, votedFor, workers, workerId, batchVars, clientVars, sessionVars, handling>>

\* mutant: i <= WORKER_NUM
createWorkerOneMore(n) ==
    /\ Up(n) /\ tpc[n] = "create"
    /\ workers' = [workers EXCEPT ![n] = @ + 1]
    /\ tpc' = [tpc EXCEPT ![n] = IF workers[n] = WORKER_NUM THEN "idle" ELSE "create"]
    /\ UNCHANGED <<proc, votedFor, peer, workerId, batchVars, clientVars, sessionVars, connVars>>

createWorker(n) ==
    /\ Up(n) /\ tpc[n] = "create"
    /\ workers' = [workers EXCEPT ![n] = @ + 1]
    /\ tpc' = [tpc EXCEPT ![n] = IF workers'[n] = WORKER_NUM THEN "idle" ELSE "create"]
    /\ UNCHANGED <<proc, votedFor, peer, workerId, batchVars, clientVars, sessionVars, connVars>>

-----------------------------------------------------------------------------
(* The receiver thread *)

accept(n) ==
    /\ Up(n) /\ handling[n] = None /\ backlog[n] /= <<>>
    /\ handling' = [handling EXCEPT ![n] = Head(backlog[n])]
    /\ backlog' = [backlog EXCEPT ![n] = Tail(@)]
    /\ UNCHANGED <<nodeVars, workerId, batchVars, clientVars, sessionVars, spoken>>

\* the header of the accepted connection has arrived and is of this kind
Received(n, kind) ==
    /\ Up(n) /\ handling[n] /= None /\ handling[n].kind = kind
    /\ <<n, handling[n]>> \in spoken
    /\ spoken' = spoken \ {<<n, handling[n]>>}
    /\ handling' = [handling EXCEPT ![n] = None]
    /\ UNCHANGED backlog

receiveVote(n) ==
    /\ Received(n, "REQUEST_VOTE")
    /\ setVotedFor(n, handling[n].from)
    /\ UNCHANGED <<proc, tpc, peer, workers, workerId, batchVars, clientVars, sessionVars>>

\* mutant: compared with the size, not with the last index
roundRobinLong(n) == IF workerId[n] = workers[n] THEN 0 ELSE workerId[n] + 1

\* A worker number that is never the last index never returns to 0.
roundRobin(n) == IF workerId[n] = workers[n] - 1 THEN 0 ELSE workerId[n] + 1

\* the record of the client, its producer thread and the round robin
receiveClient(n) ==
    LET c == handling[n].from IN
    /\ Received(n, "REQUEST_LOCATION")
    /\ given' = [given EXCEPT ![c] = workerId[n]]
    /\ workerId' = [workerId EXCEPT ![n] = roundRobin(n)]
    /\ early' = early \cup (IF workers[n] < WORKER_NUM THEN {<<n, c>>} ELSE {})
    /\ UNCHANGED <<nodeVars, batchVars, clientVars, answer, served>>

receiveBatch(n) ==
    LET c == handling[n] IN
    /\ Received(n, "APPEND_ENTRIES")
    /\ lpc' = [lpc EXCEPT ![n][c.worker] = "start"]
    /\ leaderOf' = [leaderOf EXCEPT ![n][c.worker] = c.from]
    /\ UNCHANGED <<nodeVars, workerId, work, dest, notifiers, clientVars, sessionVars>>

\* mutant: only the first connection of a follower is recognised by its port
receiveAckOnce(n) ==
    LET c == handling[n] IN
    /\ Received(n, "RESPONSE_APPEND_ENTRIES")
    /\ notifiers' = [notifiers EXCEPT ![n] =
          @ \cup (IF \E x \in @ : x[1] = c.from THEN {} ELSE {<<c.from, c.worker>>})]
    /\ UNCHANGED <<nodeVars, workerId, work, dest, lpc, leaderOf, clientVars, sessionVars>>

receiveAck(n) ==
    LET c == handling[n] IN
    /\ Received(n, "RESPONSE_APPEND_ENTRIES")
    /\ notifiers' = [notifiers EXCEPT ![n] = @ \cup {<<c.from, c.worker>>}]
    /\ UNCHANGED <<nodeVars, workerId, work, dest, lpc, leaderOf, clientVars, sessionVars>>

\* a short receive: the other end has gone without a word
receiveNothing(n) ==
    /\ Up(n) /\ handling[n] /= None
    /\ <<n, handling[n]>> \notin spoken /\ Gone(handling[n].from)
    /\ End(n)
    /\ UNCHANGED <<votedFor, tpc, peer, workers, workerId, batchVars, clientVars,
                   sessionVars, connVars>>

-----------------------------------------------------------------------------
(* Workers and log receivers, up to the first batch and its acknowledgement *)

\* the first batch of worker w for its next follower; later ones use the
\* same connection
sendBatch(n, w) ==
    LET m == dest[n][w]
        c == Conn(n, "APPEND_ENTRIES", w)
    IN
    /\ Up(n) /\ w \in work[n] /\ m \in Node /\ Up(m)
    /\ Connect(m, c) /\ spoken' = spoken \cup {<<m, c>>}
    /\ dest' = [dest EXCEPT ![n][w] = NextAfter(n, m)]
    /\ UNCHANGED <<nodeVars, workerId, work, lpc, leaderOf, notifiers, clientVars,
                   sessionVars, handling>>

\* getLeader: the assertion that the node has been told
findLeader(n, w) ==
    /\ Up(n) /\ lpc[n][w] = "start"
    /\ IF votedFor[n] < 0
       THEN End(n) /\ UNCHANGED lpc
       ELSE lpc' = [lpc EXCEPT ![n][w] = "connect"] /\ UNCHANGED proc
    /\ UNCHANGED <<votedFor, tpc, peer, workers, workerId, work, dest, leaderOf,
                   notifiers, clientVars, sessionVars, connVars>>

\* The follower connects before it writes the batch; until it has written it,
\* the connection says nothing but the port number.
connectBack(n, w) ==
    /\ Up(n) /\ lpc[n][w] = "connect" /\ Up(votedFor[n])
    /\ Connect(votedFor[n], Conn(n, "RESPONSE_APPEND_ENTRIES", w))
    /\ lpc' = [lpc EXCEPT ![n][w] = "write"]
    /\ UNCHANGED <<nodeVars, workerId, work, dest, leaderOf, notifiers, clientVars,
                   sessionVars, handling, spoken>>

sendAck(n, w) ==
    /\ Up(n) /\ lpc[n][w] = "write"
    /\ spoken' = spoken \cup {<<votedFor[n], Conn(n, "RESPONSE_APPEND_ENTRIES", w)>>}
    /\ lpc' = [lpc EXCEPT ![n][w] = "done"]
    /\ UNCHANGED <<nodeVars, workerId, work, dest, leaderOf, notifiers, clientVars,
                   sessionVars, backlog, handling>>

-----------------------------------------------------------------------------
(* The client and its producer thread *)

ClientAt(c, pc) == cpc' = [cpc EXCEPT ![c] = pc]

\* refused when the node does not listen
connect(c) ==
    LET n == NodeAt(host[c]) IN
    /\ cpc[c] = "connect"
    /\ IF Up(n)
       THEN Connect(n, Conn(c, "REQUEST_LOCATION", None)) /\ ClientAt(c, "ask")
       ELSE UNCHANGED backlog /\ ClientAt(c, "ended")
    /\ UNCHANGED <<nodeVars, workerId, batchVars, host, sessionVars, handling, spoken>>

requestLocation(c) ==
    /\ cpc[c] = "ask"
    /\ spoken' = spoken \cup {<<NodeAt(host[c]), Conn(c, "REQUEST_LOCATION", None)>>}
    /\ ClientAt(c, "wait")
    /\ UNCHANGED <<nodeVars, workerId, batchVars, host, sessionVars, backlog, handling>>

\* a number without a worker gives a pointer that was never set
getWorkerInfoById(n, id) == IF id < workers[n] THEN id ELSE None

\* mutant: the node gives its own address
producerOwn(c) ==
    LET n == NodeAt(host[c]) IN
    /\ Up(n) /\ given[c] /= None
    /\ given' = [given EXCEPT ![c] = None]
    /\ served' = [served EXCEPT ![c] = getWorkerInfoById(n, given[c])]
    /\ answer' = [answer EXCEPT ![c] = rrlByFields(n)]
    /\ UNCHANGED <<nodeVars, early, workerId, batchVars, clientVars, connVars>>

\* The worker is looked up and the leader named, if the node knows one: the
\* assertion of getLeader.
producer(c) ==
    LET n == NodeAt(host[c]) IN
    /\ Up(n) /\ given[c] /= None
    /\ given' = [given EXCEPT ![c] = None]
    /\ served' = [served EXCEPT ![c] = getWorkerInfoById(n, given[c])]
    /\ IF votedFor[n] < 0
       THEN End(n) /\ UNCHANGED answer
       ELSE answer' = [answer EXCEPT ![c] = rrlByFields(votedFor[n])] /\ UNCHANGED proc
    /\ UNCHANGED <<votedFor, tpc, peer, workers, early, workerId, batchVars, clientVars, connVars>>

\* Connected, or sent to another node.
receiveLocation(c) ==
    /\ cpc[c] = "wait" /\ answer[c] /= None
    /\ ClientAt(c, IF answer[c] = host[c] THEN "settled" ELSE "connect")
    /\ host' = [host EXCEPT ![c] = answer[c]]
    /\ answer' = [answer EXCEPT ![c] = None]
    /\ UNCHANGED <<nodeVars, workerId, batchVars, given, served, early, connVars>>

\* The first command, which the producer puts into the queue of the worker.
\* Through the pointer that was never set it goes anywhere or ends the node.
sendCommand(c) ==
    LET n == NodeAt(host[c]) IN
    /\ cpc[c] = "settled" /\ Up(n)
    /\ ClientAt(c, "sent")
    /\ IF served[c] \in Worker
       THEN /\ work' = [work EXCEPT ![n] = @ \cup {served[c]}]
            /\ dest' = [dest EXCEPT ![n][served[c]] =
                           IF served[c] \in work[n] THEN @ ELSE NextAfter(n, -1)]
            /\ UNCHANGED proc
       ELSE /\ End(n) \/ UNCHANGED proc
            /\ UNCHANGED <<work, dest>>
    /\ UNCHANGED <<votedFor, tpc, peer, workers, workerId, lpc, leaderOf, notifiers,
                   host, sessionVars, connVars>>

\* its node has ended
loseNode(c) ==
    /\ cpc[c] \in {"ask", "wait", "settled"} /\ proc[NodeAt(host[c])] = "ended"
    /\ answer[c] = None
    /\ ClientAt(c, "ended")
    /\ UNCHANGED <<nodeVars, workerId, batchVars, host, sessionVars, connVars>>

\* a client is interrupted between connecting and asking
interrupt(c) ==
    /\ cpc[c] = "ask"
    /\ ClientAt(c, "ended")
    /\ UNCHANGED <<nodeVars, workerId, batchVars, host, sessionVars, connVars>>

-----------------------------------------------------------------------------
transmitter(n) == voteForMe(n) \/ requestVote(n) \/ createWorker(n)

receiver(n) ==
    \/ accept(n) \/ receiveNothing(n) \/ receiveVote(n) \/ receiveClient(n)
    \/ receiveBatch(n) \/ receiveAck(n)

logReceiver(n, w) == findLeader(n, w) \/ connectBack(n, w) \/ sendAck(n, w)

client(c) ==
    connect(c) \/ requestLocation(c) \/ receiveLocation(c) \/ sendCommand(c) \/ loseNode(c)

Next ==
    \/ \E n \in Node : Boot(n) \/ transmitter(n) \/ receiver(n)
    \/ \E n \in Node, w \in Worker : sendBatch(n, w) \/ logReceiver(n, w)
    \/ \E c \in Client : client(c) \/ producer(c) \/ interrupt(c)

Spec == Init /\ [][Next]_vars

\* All threads are scheduled and all nodes are started some time; no client
\* must be interrupted.
Fairness ==
    /\ \A n \in Node : WF_vars(Boot(n)) /\ WF_vars(transmitter(n)) /\ WF_vars(receiver(n))
    /\ \A n \in Node, w \in Worker : WF_vars(sendBatch(n, w)) /\ WF_vars(logReceiver(n, w))
    /\ \A c \in Client : WF_vars(client(c)) /\ WF_vars(producer(c))

FairSpec == Spec /\ Fairness

-----------------------------------------------------------------------------
(* Properties *)

TypeOK ==
    /\ proc \in [Node -> {"off", "up", "ended"}]
    /\ votedFor \in [Node -> Node \cup {-1}]
    /\ tpc \in [Node -> {"start", "call", "create", "idle"}]
    /\ peer \in [Node -> 0 .. N] /\ workers \in [Node -> 0 .. WORKER_NUM]
    /\ workerId \in [Node -> Nat]
    /\ backlog \in [Node -> Seq(Connection)]
    /\ handling \in [Node -> Connection \cup {None}]
    /\ spoken \subseteq Node \X Connection
    /\ notifiers \in [Node -> SUBSET (Node \X Worker)]
    /\ work \in [Node -> SUBSET Worker] /\ dest \in [Node -> [Worker -> 0 .. N]]
    /\ lpc \in [Node -> [Worker -> {"none", "start", "connect", "write", "done"}]]
    /\ leaderOf \in [Node -> [Worker -> Node \cup {None}]]
    /\ cpc \in [Client -> {"connect", "ask", "wait", "settled", "sent", "ended"}]
    /\ host \in [Client -> Address] /\ answer \in [Client -> Address \cup {None}]
    /\ given \in [Client -> Nat \cup {None}]
    /\ served \in [Client -> Worker \cup {None}]
    /\ early \subseteq Node \X Client

\* Wherever a client asked, and whenever, it stays only with a node that has
\* declared itself the leader.
SettledAtLeader ==
    \A c \in Client : cpc[c] \in {"settled", "sent"} =>
        LET n == NodeAt(host[c]) IN n \in Candidate /\ votedFor[n] = n

\* A follower that receives a batch has been told its leader and acknowledges
\* to the node that sent the batch, although the vote and the batch come over
\* two connections: they are accepted in the order in which they were made.
BatchAfterVote ==
    \A n \in Node, w \in Worker :
        lpc[n][w] /= "none" => votedFor[n] = leaderOf[n][w]

\* the worker number of a client of node n
WorkerGiven(n, c) ==
    IF NodeAt(host[c]) /= n THEN None ELSE IF given[c] /= None THEN given[c] ELSE served[c]

\* raft.cc: "round robin".  If no client comes before the workers exist, every
\* client is given a worker that exists, and the workers are shared evenly.
SharedEvenly ==
    \A n \in Candidate :
        LET load(w) == Cardinality({c \in Client : WorkerGiven(n, c) = w})
        IN  (\A c \in Client : <<n, c>> \notin early) =>
                /\ \A c \in Client : WorkerGiven(n, c) \in Worker \cup {None}
                /\ \A v, w \in Worker : load(v) <= load(w) + 1

\* the batch of the client's worker is acknowledged by all followers
Acknowledged(c) ==
    LET n == NodeAt(host[c]) IN
    cpc[c] = "sent" /\ \A m \in Follower(n) : <<m, served[c]>> \in notifiers[n]

\* One thread per node waits for the header of one connection at a time, also
\* of a follower that has yet to write a batch, and setupLeader waits for all
\* nodes: nevertheless, unless some process ends, every client finds the
\* leader, and its first batch is acknowledged if it was given a worker.
EverybodyServed ==
    <>(\/ \E n \in Node : proc[n] = "ended"
       \/ \A c \in Client :
             cpc[c] = "ended" \/ Acknowledged(c) \/ (cpc[c] = "sent" /\ served[c] = None))
=============================================================================
