--------------------------- MODULE StartupProofs ----------------------------
(***************************************************************************)
(* Proofs about Startup for every configuration of nodes and clients.      *)
(***************************************************************************)
EXTENDS Startup, SequenceTheorems, FiniteSetTheorems, WellFoundedInduction, TLAPS

-----------------------------------------------------------------------------
(* Nodes and addresses *)

LEMMA NodesAreNumbers == N \in Nat /\ N >= 1 /\ Node \subseteq Nat /\ -1 \notin Node /\ N \notin Node
  BY StartupAssumption DEF Node

\* An address names one node.
LEMMA NodeAtAddress ==
    ASSUME NEW n \in Node
    PROVE  NodeAt(rrlByFields(n)) = n
<1>1. node_conf(n) = rrlByFields(n)
  BY StartupAssumption
<1>2. \A m \in Node : node_conf(m) = rrlByFields(n) => m = n
  BY <1>1, StartupAssumption
<1> QED
  BY <1>1, <1>2 DEF NodeAt

\* A set of nodes has a first one: the shortest of the intervals that end in it.
LEMMA MinIs ==
    ASSUME NEW S, S \subseteq Node, S /= {}
    PROVE  Min(S) \in S /\ \A k \in S : Min(S) <= k
<1> DEFINE T == {0 .. k : k \in S}
<1>1. IsWellFoundedOn(StrictSubsetOrdering(Node), SUBSET Node)
  <2>1. IsFiniteSet(Node)
    <3>1. N - 1 \in Int
      BY NodesAreNumbers
    <3> QED
      BY <3>1, FS_Interval DEF Node
  <2>2. FiniteSubsetsOf(Node) = SUBSET Node
    BY <2>1, FS_FiniteSubsetsOfFinite
  <2> QED
    BY <2>2, FS_StrictSubsetOrderingWellFounded
<1>2. \A k \in Node : 0 .. k \subseteq Node
  BY NodesAreNumbers DEF Node
<1>3. PICK t \in T : \A u \in T : <<u, t>> \notin StrictSubsetOrdering(Node)
  <2>1. T \subseteq SUBSET Node /\ T /= {}
    BY <1>2
  <2> HIDE DEF T
  <2> QED
    BY <1>1, <2>1, WFMin
<1>4. PICK x \in S : t = 0 .. x
  BY <1>3
<1>5. ASSUME NEW y \in S PROVE x <= y
  <2>1. x \in Nat /\ y \in Nat /\ 0 .. y \in T
    BY NodesAreNumbers
  <2>2. ~ (0 .. y \subseteq 0 .. x /\ 0 .. y /= 0 .. x)
    BY <1>2, <1>3, <1>4, <2>1 DEF StrictSubsetOrdering
  <2>3. y < x => 0 .. y \subseteq 0 .. x /\ x \in 0 .. x /\ x \notin 0 .. y
    BY <2>1
  <2> QED
    BY <2>1, <2>2, <2>3
<1> QED
  BY <1>5 DEF Min

\* The loop over the other nodes: the next one, or N after the last.
LEMMA NextAfterIs ==
    ASSUME NEW n \in Node, NEW m \in Int
    PROVE  /\ NextAfter(n, m) \in Follower(n) \cup {N}
           /\ \A k \in Follower(n) : k > m => NextAfter(n, m) <= k
<1>1. After(n, m) \subseteq Node /\ After(n, m) \subseteq Follower(n)
  BY NodesAreNumbers DEF After, Follower
<1>2. CASE After(n, m) = {}
  BY <1>2 DEF NextAfter, After
<1>3. CASE After(n, m) /= {}
  <2>1. NextAfter(n, m) = Min(After(n, m))
    BY <1>3 DEF NextAfter
  <2>2. NextAfter(n, m) \in After(n, m) /\ \A k \in After(n, m) : NextAfter(n, m) <= k
    BY <1>1, <1>3, <2>1, MinIs
  <2> QED
    BY <1>1, <2>2 DEF After
<1> QED
  BY <1>2, <1>3

-----------------------------------------------------------------------------
(* The state of the processes *)

\* What is on its way to node m: votes and batches come from another node that
\* is a candidate, locations from clients.
Right(m, c) ==
    /\ c \in Connection
    /\ c.kind = "REQUEST_VOTE" => c.from \in Candidate /\ m \in Follower(c.from)
    /\ c.kind = "APPEND_ENTRIES" =>
          c.from \in Candidate /\ m \in Follower(c.from) /\ c.worker \in Worker
    /\ c.kind = "RESPONSE_APPEND_ENTRIES" => c.from \in Node /\ c.worker \in Worker
    /\ c.kind = "REQUEST_LOCATION" => c.from \in Client

Connections ==
    \A m \in Node :
        /\ \A i \in 1 .. Len(backlog[m]) : Right(m, backlog[m][i])
        /\ handling[m] /= None => Right(m, handling[m])

\* A process that has not been started has done nothing, and nobody has
\* connected to it.
Unstarted ==
    \A n \in Node : proc[n] = "off" =>
        /\ backlog[n] = <<>> /\ handling[n] = None /\ votedFor[n] = -1
        /\ tpc[n] = "idle" /\ workers[n] = 0
        /\ \A w \in Worker : lpc[n][w] = "none"

\* Only a candidate has workers, after it has called all others.
Transmitting ==
    \A n \in Node :
        /\ tpc[n] /= "idle" \/ workers[n] > 0 => n \in Candidate
        /\ tpc[n] \in {"start", "call"} => workers[n] = 0
        /\ tpc[n] = "create" => workers[n] < WORKER_NUM
        /\ tpc[n] = "call" => peer[n] \in Follower(n)

\* A log receiver that has found the leader keeps one.
Leading ==
    \A n \in Node, w \in Worker :
        lpc[n][w] \in {"connect", "write", "done"} => votedFor[n] \in Node

\* A worker with something to send exists, and sends to the followers.
Working ==
    \A n \in Node :
        /\ work[n] /= {} => workers[n] > 0
        /\ \A w \in Worker : dest[n][w] \in Follower(n) \cup {N}

\* A client that has an answer was given a worker that exists, or none.
Served ==
    \A c \in Client :
        (answer[c] /= None \/ cpc[c] \in {"settled", "sent"}) /\ served[c] \in Worker =>
            workers[NodeAt(host[c])] > 0

Shape ==
    /\ TypeOK /\ Connections /\ Unstarted /\ Transmitting
    /\ Leading /\ Working /\ Served

\* every address is that of the node listening there
LEMMA AddressOfNode == \A a \in Address : NodeAt(a) \in Node /\ a = rrlByFields(NodeAt(a))
<1> SUFFICES ASSUME NEW n \in Node PROVE NodeAt(rrlByFields(n)) = n
  BY DEF Address
<1> QED
  BY NodeAtAddress

-----------------------------------------------------------------------------
(* Which actions change which variables *)

LEMMA Changes_votedFor ==
    [Next]_vars =>
        \/ UNCHANGED votedFor
        \/ \E n \in Node : Boot(n) \/ voteForMe(n) \/ receiveVote(n)
BY DEF Next, transmitter, receiver, logReceiver, client, vars, nodeVars,
       batchVars, clientVars, sessionVars, connVars, Received, requestVote,
       createWorker, accept, receiveNothing, receiveClient, receiveBatch,
       receiveAck, sendBatch, findLeader, connectBack, sendAck, connect,
       requestLocation, receiveLocation, sendCommand, loseNode, producer,
       interrupt

LEMMA Changes_proc ==
    [Next]_vars =>
        \/ UNCHANGED proc
        \/ \E n \in Node : Boot(n) \/ receiveNothing(n)
        \/ \E n \in Node, w \in Worker : findLeader(n, w)
        \/ \E c \in Client : producer(c) \/ sendCommand(c)
BY DEF Next, transmitter, receiver, logReceiver, client, vars, nodeVars,
       batchVars, clientVars, sessionVars, connVars, Received, voteForMe,
       requestVote, createWorker, accept, receiveVote, receiveClient,
       receiveBatch, receiveAck, sendBatch, connectBack, sendAck, connect,
       requestLocation, receiveLocation, loseNode, interrupt

LEMMA Changes_tpc ==
    [Next]_vars =>
        \/ UNCHANGED tpc
        \/ \E n \in Node : Boot(n) \/ voteForMe(n) \/ requestVote(n) \/
              createWorker(n)
BY DEF Next, transmitter, receiver, logReceiver, client, vars, nodeVars,
       batchVars, clientVars, sessionVars, connVars, Received, accept,
       receiveNothing, receiveVote, receiveClient, receiveBatch, receiveAck,
       sendBatch, findLeader, connectBack, sendAck, connect, requestLocation,
       receiveLocation, sendCommand, loseNode, producer, interrupt

LEMMA Changes_peer ==
    [Next]_vars =>
        \/ UNCHANGED peer
        \/ \E n \in Node : voteForMe(n) \/ requestVote(n)
BY DEF Next, transmitter, receiver, logReceiver, client, vars, nodeVars,
       batchVars, clientVars, sessionVars, connVars, Received, Boot,
       createWorker, accept, receiveNothing, receiveVote, receiveClient,
       receiveBatch, receiveAck, sendBatch, findLeader, connectBack, sendAck,
       connect, requestLocation, receiveLocation, sendCommand, loseNode,
       producer, interrupt

LEMMA Changes_workers ==
    [Next]_vars =>
        \/ UNCHANGED workers
        \/ \E n \in Node : createWorker(n)
BY DEF Next, transmitter, receiver, logReceiver, client, vars, nodeVars,
       batchVars, clientVars, sessionVars, connVars, Received, Boot, voteForMe,
       requestVote, accept, receiveNothing, receiveVote, receiveClient,
       receiveBatch, receiveAck, sendBatch, findLeader, connectBack, sendAck,
       connect, requestLocation, receiveLocation, sendCommand, loseNode,
       producer, interrupt

LEMMA Changes_workerId ==
    [Next]_vars =>
        \/ UNCHANGED workerId
        \/ \E n \in Node : receiveClient(n)
BY DEF Next, transmitter, receiver, logReceiver, client, vars, nodeVars,
       batchVars, clientVars, sessionVars, connVars, Received, Boot, voteForMe,
       requestVote, createWorker, accept, receiveNothing, receiveVote,
       receiveBatch, receiveAck, sendBatch, findLeader, connectBack, sendAck,
       connect, requestLocation, receiveLocation, sendCommand, loseNode,
       producer, interrupt

LEMMA Changes_backlog ==
    [Next]_vars =>
        \/ UNCHANGED backlog
        \/ \E n \in Node : accept(n) \/ requestVote(n)
        \/ \E n \in Node, w \in Worker : sendBatch(n, w) \/ connectBack(n, w)
        \/ \E c \in Client : connect(c)
BY DEF Next, transmitter, receiver, logReceiver, client, vars, nodeVars,
       batchVars, clientVars, sessionVars, connVars, Received, Boot, voteForMe,
       createWorker, receiveNothing, receiveVote, receiveClient, receiveBatch,
       receiveAck, findLeader, sendAck, requestLocation, receiveLocation,
       sendCommand, loseNode, producer, interrupt

LEMMA Changes_handling ==
    [Next]_vars =>
        \/ UNCHANGED handling
        \/ \E n \in Node : accept(n) \/ receiveVote(n) \/ receiveClient(n) \/
              receiveBatch(n) \/ receiveAck(n)
BY DEF Next, transmitter, receiver, logReceiver, client, vars, nodeVars,
       batchVars, clientVars, sessionVars, connVars, Received, Boot, voteForMe,
       requestVote, createWorker, receiveNothing, sendBatch, findLeader,
       connectBack, sendAck, connect, requestLocation, receiveLocation,
       sendCommand, loseNode, producer, interrupt

LEMMA Changes_spoken ==
    [Next]_vars =>
        \/ UNCHANGED spoken
        \/ \E n \in Node : receiveVote(n) \/ receiveClient(n) \/
              receiveBatch(n) \/ receiveAck(n) \/ requestVote(n)
        \/ \E n \in Node, w \in Worker : sendBatch(n, w) \/ sendAck(n, w)
        \/ \E c \in Client : requestLocation(c)
BY DEF Next, transmitter, receiver, logReceiver, client, vars, nodeVars,
       batchVars, clientVars, sessionVars, connVars, Received, Boot, voteForMe,
       createWorker, accept, receiveNothing, findLeader, connectBack, connect,
       receiveLocation, sendCommand, loseNode, producer, interrupt

LEMMA Changes_notifiers ==
    [Next]_vars =>
        \/ UNCHANGED notifiers
        \/ \E n \in Node : receiveAck(n)
BY DEF Next, transmitter, receiver, logReceiver, client, vars, nodeVars,
       batchVars, clientVars, sessionVars, connVars, Received, Boot, voteForMe,
       requestVote, createWorker, accept, receiveNothing, receiveVote,
       receiveClient, receiveBatch, sendBatch, findLeader, connectBack,
       sendAck, connect, requestLocation, receiveLocation, sendCommand,
       loseNode, producer, interrupt

LEMMA Changes_work ==
    [Next]_vars =>
        \/ UNCHANGED work
        \/ \E c \in Client : sendCommand(c)
BY DEF Next, transmitter, receiver, logReceiver, client, vars, nodeVars,
       batchVars, clientVars, sessionVars, connVars, Received, Boot, voteForMe,
       requestVote, createWorker, accept, receiveNothing, receiveVote,
       receiveClient, receiveBatch, receiveAck, sendBatch, findLeader,
       connectBack, sendAck, connect, requestLocation, receiveLocation,
       loseNode, producer, interrupt

LEMMA Changes_dest ==
    [Next]_vars =>
        \/ UNCHANGED dest
        \/ \E n \in Node, w \in Worker : sendBatch(n, w)
        \/ \E c \in Client : sendCommand(c)
BY DEF Next, transmitter, receiver, logReceiver, client, vars, nodeVars,
       batchVars, clientVars, sessionVars, connVars, Received, Boot, voteForMe,
       requestVote, createWorker, accept, receiveNothing, receiveVote,
       receiveClient, receiveBatch, receiveAck, findLeader, connectBack,
       sendAck, connect, requestLocation, receiveLocation, loseNode, producer,
       interrupt

LEMMA Changes_lpc ==
    [Next]_vars =>
        \/ UNCHANGED lpc
        \/ \E n \in Node : receiveBatch(n)
        \/ \E n \in Node, w \in Worker : findLeader(n, w) \/ connectBack(n, w)
              \/ sendAck(n, w)
BY DEF Next, transmitter, receiver, logReceiver, client, vars, nodeVars,
       batchVars, clientVars, sessionVars, connVars, Received, Boot, voteForMe,
       requestVote, createWorker, accept, receiveNothing, receiveVote,
       receiveClient, receiveAck, sendBatch, connect, requestLocation,
       receiveLocation, sendCommand, loseNode, producer, interrupt

LEMMA Changes_leaderOf ==
    [Next]_vars =>
        \/ UNCHANGED leaderOf
        \/ \E n \in Node : receiveBatch(n)
BY DEF Next, transmitter, receiver, logReceiver, client, vars, nodeVars,
       batchVars, clientVars, sessionVars, connVars, Received, Boot, voteForMe,
       requestVote, createWorker, accept, receiveNothing, receiveVote,
       receiveClient, receiveAck, sendBatch, findLeader, connectBack, sendAck,
       connect, requestLocation, receiveLocation, sendCommand, loseNode,
       producer, interrupt

LEMMA Changes_cpc ==
    [Next]_vars =>
        \/ UNCHANGED cpc
        \/ \E c \in Client : connect(c) \/ requestLocation(c) \/
              receiveLocation(c) \/ sendCommand(c) \/ loseNode(c) \/
              interrupt(c)
BY DEF Next, transmitter, receiver, logReceiver, client, vars, nodeVars,
       batchVars, clientVars, sessionVars, connVars, Received, Boot, voteForMe,
       requestVote, createWorker, accept, receiveNothing, receiveVote,
       receiveClient, receiveBatch, receiveAck, sendBatch, findLeader,
       connectBack, sendAck, producer

LEMMA Changes_host ==
    [Next]_vars =>
        \/ UNCHANGED host
        \/ \E c \in Client : receiveLocation(c)
BY DEF Next, transmitter, receiver, logReceiver, client, vars, nodeVars,
       batchVars, clientVars, sessionVars, connVars, Received, Boot, voteForMe,
       requestVote, createWorker, accept, receiveNothing, receiveVote,
       receiveClient, receiveBatch, receiveAck, sendBatch, findLeader,
       connectBack, sendAck, connect, requestLocation, sendCommand, loseNode,
       producer, interrupt

LEMMA Changes_answer ==
    [Next]_vars =>
        \/ UNCHANGED answer
        \/ \E c \in Client : producer(c) \/ receiveLocation(c)
BY DEF Next, transmitter, receiver, logReceiver, client, vars, nodeVars,
       batchVars, clientVars, sessionVars, connVars, Received, Boot, voteForMe,
       requestVote, createWorker, accept, receiveNothing, receiveVote,
       receiveClient, receiveBatch, receiveAck, sendBatch, findLeader,
       connectBack, sendAck, connect, requestLocation, sendCommand, loseNode,
       interrupt

LEMMA Changes_given ==
    [Next]_vars =>
        \/ UNCHANGED given
        \/ \E n \in Node : receiveClient(n)
        \/ \E c \in Client : producer(c)
BY DEF Next, transmitter, receiver, logReceiver, client, vars, nodeVars,
       batchVars, clientVars, sessionVars, connVars, Received, Boot, voteForMe,
       requestVote, createWorker, accept, receiveNothing, receiveVote,
       receiveBatch, receiveAck, sendBatch, findLeader, connectBack, sendAck,
       connect, requestLocation, receiveLocation, sendCommand, loseNode,
       interrupt

LEMMA Changes_served ==
    [Next]_vars =>
        \/ UNCHANGED served
        \/ \E c \in Client : producer(c)
BY DEF Next, transmitter, receiver, logReceiver, client, vars, nodeVars,
       batchVars, clientVars, sessionVars, connVars, Received, Boot, voteForMe,
       requestVote, createWorker, accept, receiveNothing, receiveVote,
       receiveClient, receiveBatch, receiveAck, sendBatch, findLeader,
       connectBack, sendAck, connect, requestLocation, receiveLocation,
       sendCommand, loseNode, interrupt

LEMMA Changes_early ==
    [Next]_vars =>
        \/ UNCHANGED early
        \/ \E n \in Node : receiveClient(n)
BY DEF Next, transmitter, receiver, logReceiver, client, vars, nodeVars,
       batchVars, clientVars, sessionVars, connVars, Received, Boot, voteForMe,
       requestVote, createWorker, accept, receiveNothing, receiveVote,
       receiveBatch, receiveAck, sendBatch, findLeader, connectBack, sendAck,
       connect, requestLocation, receiveLocation, sendCommand, loseNode,
       producer, interrupt
-----------------------------------------------------------------------------
(* The types *)

\* A node number is one that votedFor can hold, an index and a place in dest.
LEMMA Numbers ==
    /\ \A n \in Node : n \in Nat /\ n \in 0 .. N /\ n >= 0 /\ rrlByFields(n) \in Address
    /\ \A n \in Node, m \in Int : NextAfter(n, m) \in 0 .. N
    /\ N \in 0 .. N
    /\ \A x \in Node \cup {-1} : x >= 0 => x \in Node
<1>1. N \in Nat
  BY NodesAreNumbers
<1>2. \A n \in Node, m \in Int : NextAfter(n, m) \in Follower(n) \cup {N}
  BY NextAfterIs
<1> QED
  BY <1>1, <1>2 DEF Node, Follower, Address

LEMMA TypeOKStep ==
    ASSUME Shape, [Next]_vars
    PROVE  TypeOK'
<1> USE DEF Up, End, setVotedFor, Connect, Received
<1>p. proc \in [Node -> {"off", "up", "ended"}] /\ votedFor \in [Node -> Node \cup {-1}]
  BY DEF Shape, TypeOK
<1>t. /\ tpc \in [Node -> {"start", "call", "create", "idle"}]
      /\ peer \in [Node -> 0 .. N] /\ workers \in [Node -> 0 .. WORKER_NUM]
  BY DEF Shape, TypeOK
<1>b. backlog \in [Node -> Seq(Connection)] /\ handling \in [Node -> Connection \cup {None}]
  BY DEF Shape, TypeOK
<1>w. work \in [Node -> SUBSET Worker] /\ dest \in [Node -> [Worker -> 0 .. N]]
  BY DEF Shape, TypeOK
<1>g. /\ workerId \in [Node -> Nat] /\ given \in [Client -> Nat \cup {None}]
      /\ served \in [Client -> Worker \cup {None}]
  BY DEF Shape, TypeOK
<1>h. host \in [Client -> Address] /\ answer \in [Client -> Address \cup {None}]
  BY DEF Shape, TypeOK
<1>n. \A c \in Client : NodeAt(host[c]) \in Node
  BY <1>h, AddressOfNode
<1>r. \A n \in Node : handling[n] /= None => Right(n, handling[n])
  BY DEF Shape, Connections
<1>1. proc' \in [Node -> {"off", "up", "ended"}]
  BY <1>p, Changes_proc DEF Boot, Status, receiveNothing, findLeader, producer, sendCommand
<1>2. votedFor' \in [Node -> Node \cup {-1}]
  <2>1. ASSUME NEW n \in Node, Boot(n) PROVE votedFor' \in [Node -> Node \cup {-1}]
    <3>1. PICK file \in VotedForFile[n] : Status(n, file)
      BY <2>1 DEF Boot
    <3>2. file = Missing \/ file \in Node \cup {-1}
      BY StartupAssumption
    <3> QED
      BY <1>p, <3>1, <3>2 DEF Status
  <2>2. ASSUME NEW n \in Node, receiveVote(n) PROVE votedFor' \in [Node -> Node \cup {-1}]
    <3>1. handling[n].from \in Node
      BY <1>r, <2>2, StartupAssumption DEF Right, receiveVote
    <3> QED
      BY <1>p, <2>2, <3>1 DEF receiveVote
  <2> QED
    BY <1>p, <2>1, <2>2, Changes_votedFor DEF voteForMe
<1>3. tpc' \in [Node -> {"start", "call", "create", "idle"}]
  BY <1>t, Changes_tpc DEF Boot, voteForMe, requestVote, createWorker
<1>4. peer' \in [Node -> 0 .. N]
  <2>1. \A n \in Node : peer[n] \in Int /\ -1 \in Int
    BY <1>t, NodesAreNumbers
  <2>2. \A n \in Node : NextAfter(n, -1) \in 0 .. N /\ NextAfter(n, peer[n]) \in 0 .. N
    BY <2>1, Numbers
  <2>3. ASSUME NEW n \in Node, voteForMe(n) \/ requestVote(n) PROVE peer' \in [Node -> 0 .. N]
    BY <1>t, <2>2, <2>3 DEF voteForMe, requestVote
  <2> QED
    BY <1>t, <2>3, Changes_peer
<1>5. workers' \in [Node -> 0 .. WORKER_NUM]
  <2>1. ASSUME NEW n \in Node, createWorker(n) PROVE workers' \in [Node -> 0 .. WORKER_NUM]
    <3>1. workers[n] < WORKER_NUM /\ workers[n] \in 0 .. WORKER_NUM /\ WORKER_NUM \in Nat
      BY <1>t, <2>1, StartupAssumption DEF createWorker, Shape, Transmitting
    <3>2. workers[n] + 1 \in 0 .. WORKER_NUM
      BY <3>1
    <3> QED
      BY <1>t, <2>1, <3>2 DEF createWorker
  <2> QED
    BY <1>t, <2>1, Changes_workers
<1>6. workerId' \in [Node -> Nat]
  <2>1. ASSUME NEW n \in Node PROVE roundRobin(n) \in Nat
    BY <1>g DEF roundRobin
  <2>2. ASSUME NEW n \in Node, receiveClient(n) PROVE workerId' \in [Node -> Nat]
    BY <1>g, <2>1, <2>2 DEF receiveClient
  <2> QED
    BY <1>g, <2>2, Changes_workerId
<1>7. backlog' \in [Node -> Seq(Connection)]
  <2>1. ASSUME NEW n \in Node, accept(n) PROVE backlog' \in [Node -> Seq(Connection)]
    BY <1>b, <2>1 DEF accept
  <2>2. ASSUME NEW n \in Node, NEW c \in Connection, Connect(n, c)
        PROVE  backlog' \in [Node -> Seq(Connection)]
    BY <1>b, <2>2
  <2>3. \A n \in Node :
           /\ Conn(n, "REQUEST_VOTE", None) \in Connection
           /\ \A w \in Worker : /\ Conn(n, "APPEND_ENTRIES", w) \in Connection
                                /\ Conn(n, "RESPONSE_APPEND_ENTRIES", w) \in Connection
    BY DEF Conn, Connection
  <2>4. \A c \in Client : Conn(c, "REQUEST_LOCATION", None) \in Connection
    BY DEF Conn, Connection
  <2>5. ASSUME NEW n \in Node, requestVote(n) PROVE backlog' \in [Node -> Seq(Connection)]
    <3>1. peer[n] \in Node
      BY <2>5 DEF requestVote, Shape, Transmitting, Follower
    <3>2. Connect(peer[n], Conn(n, "REQUEST_VOTE", None))
      BY <2>5 DEF requestVote
    <3> QED
      BY <2>2, <2>3, <3>1, <3>2
  <2>6. ASSUME NEW n \in Node, NEW w \in Worker, connectBack(n, w)
        PROVE  backlog' \in [Node -> Seq(Connection)]
    <3>1. votedFor[n] \in Node \/ UNCHANGED backlog
      BY <1>b, <1>p, <2>6 DEF connectBack
    <3> QED
      BY <1>b, <2>2, <2>3, <2>6, <3>1 DEF connectBack
  <2> QED
    BY <1>b, <1>n, <2>1, <2>2, <2>3, <2>4, <2>5, <2>6, Changes_backlog DEF sendBatch, connect
<1>8. handling' \in [Node -> Connection \cup {None}]
  <2>1. ASSUME NEW n \in Node, accept(n) PROVE handling' \in [Node -> Connection \cup {None}]
    BY <1>b, <2>1 DEF accept
  <2> QED
    BY <1>b, <2>1, Changes_handling DEF receiveVote, receiveClient, receiveBatch, receiveAck
<1>9. spoken' \subseteq Node \X Connection
  <2>s. spoken \subseteq Node \X Connection
    BY DEF Shape, TypeOK
  <2>1. ASSUME NEW n \in Node, requestVote(n) PROVE spoken' \subseteq Node \X Connection
    BY <2>s, <2>1 DEF requestVote, Conn, Connection, Shape, Transmitting, Follower
  <2>2. ASSUME NEW n \in Node, NEW w \in Worker, sendBatch(n, w)
        PROVE  spoken' \subseteq Node \X Connection
    BY <2>s, <2>2 DEF sendBatch, Conn, Connection
  <2>3. ASSUME NEW n \in Node, NEW w \in Worker, sendAck(n, w)
        PROVE  spoken' \subseteq Node \X Connection
    BY <2>s, <2>3 DEF sendAck, Conn, Connection, Shape, Leading
  <2>4. ASSUME NEW c \in Client, requestLocation(c) PROVE spoken' \subseteq Node \X Connection
    BY <1>n, <2>s, <2>4 DEF requestLocation, Conn, Connection
  <2> QED
    BY <2>s, <2>1, <2>2, <2>3, <2>4, Changes_spoken
       DEF receiveVote, receiveClient, receiveBatch, receiveAck
<1>10. notifiers' \in [Node -> SUBSET (Node \X Worker)]
  <2>s. notifiers \in [Node -> SUBSET (Node \X Worker)]
    BY DEF Shape, TypeOK
  <2>1. ASSUME NEW n \in Node, receiveAck(n)
        PROVE  notifiers' \in [Node -> SUBSET (Node \X Worker)]
    <3>1. <<handling[n].from, handling[n].worker>> \in Node \X Worker
      BY <1>r, <2>1 DEF receiveAck, Right
    <3> QED
      BY <2>s, <2>1, <3>1 DEF receiveAck
  <2> QED
    BY <2>s, <2>1, Changes_notifiers
<1>11. work' \in [Node -> SUBSET Worker]
  <2>1. ASSUME NEW c \in Client, sendCommand(c) PROVE work' \in [Node -> SUBSET Worker]
    BY <1>n, <1>w, <2>1 DEF sendCommand
  <2> QED
    BY <1>w, <2>1, Changes_work
<1>12. dest' \in [Node -> [Worker -> 0 .. N]]
  <2>1. ASSUME NEW n \in Node, NEW w \in Worker, sendBatch(n, w)
        PROVE  dest' \in [Node -> [Worker -> 0 .. N]]
    <3>1. NextAfter(n, dest[n][w]) \in 0 .. N
      BY <2>1, Numbers DEF sendBatch
    <3> QED
      BY <1>w, <2>1, <3>1 DEF sendBatch
  <2>2. ASSUME NEW c \in Client, sendCommand(c) PROVE dest' \in [Node -> [Worker -> 0 .. N]]
    <3> DEFINE n == NodeAt(host[c])
    <3>1. n \in Node /\ NextAfter(n, -1) \in 0 .. N
      BY <1>n, Numbers
    <3>2. CASE served[c] \in Worker
      <4>1. dest' = [dest EXCEPT ![n][served[c]] =
                        IF served[c] \in work[n] THEN @ ELSE NextAfter(n, -1)]
        BY <2>2, <3>2 DEF sendCommand
      <4> HIDE DEF n
      <4> QED
        BY <1>w, <3>1, <3>2, <4>1
    <3>3. CASE served[c] \notin Worker
      BY <1>w, <2>2, <3>3 DEF sendCommand
    <3> QED
      BY <3>2, <3>3
  <2> QED
    BY <1>w, <2>1, <2>2, Changes_dest
<1>13. lpc' \in [Node -> [Worker -> {"none", "start", "connect", "write", "done"}]]
  <2>1. lpc \in [Node -> [Worker -> {"none", "start", "connect", "write", "done"}]]
    BY DEF Shape, TypeOK
  <2>2. ASSUME NEW n \in Node, receiveBatch(n)
        PROVE  lpc' \in [Node -> [Worker -> {"none", "start", "connect", "write", "done"}]]
    BY <2>1, <2>2 DEF receiveBatch
  <2>3. ASSUME NEW n \in Node, NEW w \in Worker, logReceiver(n, w)
        PROVE  lpc' \in [Node -> [Worker -> {"none", "start", "connect", "write", "done"}]]
    BY <2>1, <2>3 DEF logReceiver, findLeader, connectBack, sendAck
  <2> QED
    BY <2>1, <2>2, <2>3, Changes_lpc DEF logReceiver
<1>14. leaderOf' \in [Node -> [Worker -> Node \cup {None}]]
  <2>1. leaderOf \in [Node -> [Worker -> Node \cup {None}]]
    BY DEF Shape, TypeOK
  <2>2. ASSUME NEW n \in Node, receiveBatch(n)
        PROVE  leaderOf' \in [Node -> [Worker -> Node \cup {None}]]
    <3>1. handling[n].from \in Node
      BY <1>r, <2>2, StartupAssumption DEF receiveBatch, Right
    <3> QED
      BY <2>1, <2>2, <3>1 DEF receiveBatch
  <2> QED
    BY <2>1, <2>2, Changes_leaderOf
<1>15. cpc' \in [Client -> {"connect", "ask", "wait", "settled", "sent", "ended"}]
  <2>1. cpc \in [Client -> {"connect", "ask", "wait", "settled", "sent", "ended"}]
    BY DEF Shape, TypeOK
  <2> QED
    BY <2>1, Changes_cpc DEF connect, requestLocation, receiveLocation, sendCommand,
       loseNode, interrupt, ClientAt
<1>16. host' \in [Client -> Address] /\ answer' \in [Client -> Address \cup {None}]
  <2>1. host' \in [Client -> Address]
    BY <1>h, Changes_host DEF receiveLocation
  <2>2. ASSUME NEW c \in Client, producer(c) PROVE answer' \in [Client -> Address \cup {None}]
    <3>1. NodeAt(host[c]) \in Node
      BY <1>n
    <3>2. ~ votedFor[NodeAt(host[c])] < 0 => rrlByFields(votedFor[NodeAt(host[c])]) \in Address
      <4>1. votedFor[NodeAt(host[c])] \in Node \cup {-1}
        BY <1>p, <3>1
      <4> QED
        BY <4>1, Numbers
    <3> QED
      BY <1>h, <2>2, <3>2 DEF producer
  <2> QED
    BY <1>h, <2>1, <2>2, Changes_answer DEF receiveLocation
<1>17. given' \in [Client -> Nat \cup {None}]
  BY <1>g, Changes_given DEF receiveClient, producer
<1>18. served' \in [Client -> Worker \cup {None}]
  <2>1. ASSUME NEW c \in Client, NEW n \in Node, given[c] /= None
        PROVE  getWorkerInfoById(n, given[c]) \in Worker \cup {None}
    <3>1. given[c] \in Nat /\ workers[n] \in 0 .. WORKER_NUM
      BY <1>g, <1>t, <2>1
    <3> QED
      BY <3>1, StartupAssumption DEF getWorkerInfoById, Worker
  <2> QED
    BY <1>g, <1>n, <2>1, Changes_served DEF producer
<1>19. early' \subseteq Node \X Client
  <2>1. early \subseteq Node \X Client
    BY DEF Shape, TypeOK
  <2>2. ASSUME NEW n \in Node, receiveClient(n) PROVE early' \subseteq Node \X Client
    <3>1. handling[n].from \in Client
      BY <1>r, <2>2 DEF receiveClient, Right
    <3>2. early' \subseteq early \cup {<<n, handling[n].from>>}
      BY <2>2 DEF receiveClient
    <3> QED
      BY <2>1, <3>1, <3>2
  <2> QED
    BY <2>1, <2>2, Changes_early
<1> QED
  BY <1>1, <1>2, <1>3, <1>4, <1>5, <1>6, <1>7, <1>8, <1>9, <1>10, <1>11, <1>12, <1>13,
     <1>14, <1>15, <1>16, <1>17, <1>18, <1>19 DEF TypeOK

-----------------------------------------------------------------------------
(* The rest of Shape *)

\* A process that is not there does nothing, and nobody connects to it.
LEMMA UnstartedStep ==
    ASSUME Shape, [Next]_vars
    PROVE  Unstarted'
<1> USE DEF Up, End, setVotedFor, Connect, Received
<1> SUFFICES ASSUME NEW n \in Node, proc'[n] = "off"
             PROVE  /\ backlog'[n] = <<>> /\ handling'[n] = None /\ votedFor'[n] = -1
                    /\ tpc'[n] = "idle" /\ workers'[n] = 0
                    /\ \A w \in Worker : lpc'[n][w] = "none"
  BY DEF Unstarted
<1>p. proc \in [Node -> {"off", "up", "ended"}] /\ votedFor \in [Node -> Node \cup {-1}]
  BY DEF Shape, TypeOK
<1>t. /\ tpc \in [Node -> {"start", "call", "create", "idle"}]
      /\ workers \in [Node -> 0 .. WORKER_NUM]
  BY DEF Shape, TypeOK
<1>b. backlog \in [Node -> Seq(Connection)] /\ handling \in [Node -> Connection \cup {None}]
  BY DEF Shape, TypeOK
<1>l. lpc \in [Node -> [Worker -> {"none", "start", "connect", "write", "done"}]]
  BY DEF Shape, TypeOK
<1>o. proc[n] = "off" /\ ~ Boot(n)
  <2>1. proc[n] = "off"
    BY <1>p, Changes_proc DEF Boot, Status, receiveNothing, findLeader, producer, sendCommand
  <2>2. ASSUME Boot(n) PROVE FALSE
    BY <1>p, <2>2 DEF Boot, Status
  <2> QED
    BY <2>1, <2>2
<1>u. /\ backlog[n] = <<>> /\ handling[n] = None /\ votedFor[n] = -1
      /\ tpc[n] = "idle" /\ workers[n] = 0 /\ \A w \in Worker : lpc[n][w] = "none"
  BY <1>o DEF Shape, Unstarted
<1>1. backlog'[n] = backlog[n]
  BY <1>b, <1>o, Changes_backlog DEF accept, requestVote, sendBatch, connectBack, connect
<1>2. handling'[n] = handling[n]
  BY <1>b, <1>o, Changes_handling DEF accept, receiveVote, receiveClient, receiveBatch, receiveAck
<1>3. votedFor'[n] = votedFor[n]
  <2>1. ASSUME NEW k \in Node, k /= n, Boot(k) PROVE votedFor'[n] = votedFor[n]
    BY <1>p, <2>1 DEF Boot, Status
  <2> QED
    BY <1>p, <1>o, <2>1, Changes_votedFor DEF voteForMe, receiveVote
<1>4. tpc'[n] = tpc[n] /\ workers'[n] = workers[n]
  BY <1>t, <1>o, Changes_tpc, Changes_workers DEF Boot, voteForMe, requestVote, createWorker
<1>5. ASSUME NEW w \in Worker PROVE lpc'[n][w] = lpc[n][w]
  BY <1>l, <1>o, Changes_lpc DEF receiveBatch, findLeader, connectBack, sendAck
<1> QED
  BY <1>u, <1>1, <1>2, <1>3, <1>4, <1>5

LEMMA TransmittingStep ==
    ASSUME Shape, [Next]_vars
    PROVE  Transmitting'
<1> USE DEF Up, End, setVotedFor, Connect
<1> SUFFICES ASSUME NEW n \in Node
             PROVE  /\ tpc'[n] /= "idle" \/ workers'[n] > 0 => n \in Candidate
                    /\ tpc'[n] \in {"start", "call"} => workers'[n] = 0
                    /\ tpc'[n] = "create" => workers'[n] < WORKER_NUM
                    /\ tpc'[n] = "call" => peer'[n] \in Follower(n)
  BY DEF Transmitting
<1>t. /\ tpc \in [Node -> {"start", "call", "create", "idle"}]
      /\ peer \in [Node -> 0 .. N] /\ workers \in [Node -> 0 .. WORKER_NUM]
  BY DEF Shape, TypeOK
<1>w. workers[n] \in 0 .. WORKER_NUM /\ WORKER_NUM \in Nat /\ WORKER_NUM > 0
  BY <1>t, StartupAssumption
<1>h. /\ tpc[n] /= "idle" \/ workers[n] > 0 => n \in Candidate
      /\ tpc[n] \in {"start", "call"} => workers[n] = 0
      /\ tpc[n] = "create" => workers[n] < WORKER_NUM
      /\ tpc[n] = "call" => peer[n] \in Follower(n)
  BY DEF Shape, Transmitting
<1>o. proc[n] = "off" => workers[n] = 0
  BY DEF Shape, Unstarted
<1>n. \A m \in Int : NextAfter(n, m) \in Follower(n) \cup {N}
  BY NextAfterIs
<1>1. CASE Boot(n)
  BY <1>t, <1>w, <1>o, <1>1 DEF Boot, Status, nodeVars
<1>2. CASE voteForMe(n)
  <2>1. ASSUME Follower(n) /= {} PROVE NextAfter(n, -1) \in Follower(n)
    <3>1. PICK k \in Follower(n) : TRUE
      BY <2>1
    <3>2. k \in Nat /\ k \in Node /\ k /= N /\ k < N
      BY NodesAreNumbers DEF Follower, Node
    <3>3. NextAfter(n, -1) <= k
      BY <3>2, NextAfterIs
    <3> QED
      BY <1>n, <3>2, <3>3, NodesAreNumbers
  <2> QED
    BY <1>t, <1>h, <1>w, <1>2, <2>1 DEF voteForMe
<1>3. CASE requestVote(n)
  <2>1. peer[n] \in Int
    BY <1>t, NodesAreNumbers
  <2> QED
    BY <1>t, <1>h, <1>w, <1>n, <1>3, <2>1 DEF requestVote
<1>4. CASE createWorker(n)
  BY <1>t, <1>h, <1>w, <1>4 DEF createWorker
<1>5. CASE ~ (Boot(n) \/ voteForMe(n) \/ requestVote(n) \/ createWorker(n))
  <2>1. tpc'[n] = tpc[n]
    BY <1>t, <1>5, Changes_tpc DEF Boot, voteForMe, requestVote, createWorker
  <2>2. peer'[n] = peer[n]
    BY <1>t, <1>5, Changes_peer DEF voteForMe, requestVote
  <2>3. workers'[n] = workers[n]
    BY <1>t, <1>5, Changes_workers DEF createWorker
  <2> QED
    BY <1>h, <2>1, <2>2, <2>3
<1> QED
  BY <1>1, <1>2, <1>3, <1>4, <1>5

\* votedFor is only ever set to a node again, except by a process that starts.
LEMMA LeadingStep ==
    ASSUME Shape, [Next]_vars
    PROVE  Leading'
<1> USE DEF Up, End, setVotedFor, Connect, Received
<1> SUFFICES ASSUME NEW n \in Node, NEW w \in Worker,
                    lpc'[n][w] \in {"connect", "write", "done"}
             PROVE  votedFor'[n] \in Node
  BY DEF Leading
<1>p. proc \in [Node -> {"off", "up", "ended"}] /\ votedFor \in [Node -> Node \cup {-1}]
  BY DEF Shape, TypeOK
<1>l. lpc \in [Node -> [Worker -> {"none", "start", "connect", "write", "done"}]]
  BY DEF Shape, TypeOK
<1>1. lpc[n][w] \in {"connect", "write", "done"} \/ findLeader(n, w)
  <2>1. ASSUME NEW k \in Node, receiveBatch(k) PROVE lpc'[n][w] \in {lpc[n][w], "start"}
    BY <1>l, <2>1 DEF receiveBatch
  <2>2. ASSUME NEW k \in Node, NEW v \in Worker, <<k, v>> /= <<n, w>>, logReceiver(k, v)
        PROVE  lpc'[n][w] = lpc[n][w]
    BY <1>l, <2>2 DEF logReceiver, findLeader, connectBack, sendAck
  <2>3. connectBack(n, w) \/ sendAck(n, w) => lpc[n][w] \in {"connect", "write"}
    BY DEF connectBack, sendAck
  <2> QED
    BY <2>1, <2>2, <2>3, Changes_lpc DEF logReceiver
<1>2. votedFor[n] \in Node
  <2>1. votedFor[n] \in Node \cup {-1}
    BY <1>p
  <2>2. CASE findLeader(n, w)
    <3>1. ~ votedFor[n] < 0
      BY <1>l, <2>2 DEF findLeader
    <3> QED
      BY <2>1, <3>1
  <2>3. CASE lpc[n][w] \in {"connect", "write", "done"}
    BY <2>3 DEF Shape, Leading
  <2> QED
    BY <1>1, <2>2, <2>3
<1>3. ASSUME NEW k \in Node, receiveVote(k) PROVE votedFor'[n] \in Node
  <2>1. handling[k].from \in Node
    BY <1>3, StartupAssumption DEF Shape, Connections, Right, receiveVote
  <2> QED
    BY <1>p, <1>2, <1>3, <2>1 DEF receiveVote
<1>4. ASSUME NEW k \in Node, Boot(k) PROVE votedFor'[n] \in Node
  <2>1. k /= n
    BY <1>2, <1>4, NodesAreNumbers DEF Boot, Shape, Unstarted
  <2> QED
    BY <1>p, <1>2, <1>4, <2>1 DEF Boot, Status
<1> QED
  BY <1>p, <1>2, <1>3, <1>4, Changes_votedFor DEF voteForMe

\* A worker gets something to send only when its client was given that worker,
\* and goes through the other nodes.
LEMMA WorkingStep ==
    ASSUME Shape, [Next]_vars
    PROVE  Working'
<1> USE DEF Up, End, Connect
<1> SUFFICES ASSUME NEW n \in Node
             PROVE  /\ work'[n] /= {} => workers'[n] > 0
                    /\ \A w \in Worker : dest'[n][w] \in Follower(n) \cup {N}
  BY DEF Working
<1>t. workers \in [Node -> 0 .. WORKER_NUM] /\ WORKER_NUM \in Nat
  BY StartupAssumption DEF Shape, TypeOK
<1>w. work \in [Node -> SUBSET Worker] /\ dest \in [Node -> [Worker -> 0 .. N]]
  BY DEF Shape, TypeOK
<1>h. \A c \in Client : NodeAt(host[c]) \in Node
  BY AddressOfNode DEF Shape, TypeOK
<1>1. workers[n] > 0 => workers'[n] > 0
  BY <1>t, Changes_workers DEF createWorker
<1>2. work'[n] /= {} => workers'[n] > 0
  <2>1. ASSUME NEW c \in Client, sendCommand(c) PROVE work'[n] /= {} => workers[n] > 0
    <3>1. served[c] \in Worker => workers[NodeAt(host[c])] > 0
      BY <2>1 DEF sendCommand, Shape, Served
    <3>2. work[n] /= {} => workers[n] > 0
      BY DEF Shape, Working
    <3> QED
      BY <1>w, <1>h, <2>1, <3>1, <3>2 DEF sendCommand
  <2>2. CASE UNCHANGED work
    BY <1>1, <2>2 DEF Shape, Working
  <2> QED
    BY <1>1, <2>1, <2>2, Changes_work
<1>3. ASSUME NEW w \in Worker PROVE dest'[n][w] \in Follower(n) \cup {N}
  <2>1. dest[n][w] \in Follower(n) \cup {N}
    BY DEF Shape, Working
  <2>2. ASSUME NEW k \in Node, NEW v \in Worker, sendBatch(k, v)
        PROVE  dest'[n][w] \in Follower(n) \cup {N}
    <3>1. NextAfter(k, dest[k][v]) \in Follower(k) \cup {N}
      <4>1. dest[k][v] \in Int
        BY <2>2, NodesAreNumbers DEF sendBatch
      <4> QED
        BY <4>1, NextAfterIs
    <3> QED
      BY <1>w, <2>1, <2>2, <3>1 DEF sendBatch
  <2>3. ASSUME NEW c \in Client, sendCommand(c) PROVE dest'[n][w] \in Follower(n) \cup {N}
    <3> DEFINE k == NodeAt(host[c])
    <3>1. k \in Node /\ NextAfter(k, -1) \in Follower(k) \cup {N}
      BY <1>h, NextAfterIs
    <3>2. \/ UNCHANGED dest
          \/ served[c] \in Worker /\ dest' = [dest EXCEPT ![k][served[c]] =
                IF served[c] \in work[k] THEN @ ELSE NextAfter(k, -1)]
      BY <2>3 DEF sendCommand
    <3> HIDE DEF k
    <3> QED
      BY <1>w, <2>1, <3>1, <3>2
  <2> QED
    BY <2>1, <2>2, <2>3, Changes_dest
<1> QED
  BY <1>2, <1>3

\* A client settles when it receives a location.
LEMMA SettledBefore ==
    ASSUME Shape, [Next]_vars, NEW c \in Client, cpc'[c] \in {"settled", "sent"},
           ~ receiveLocation(c)
    PROVE  cpc[c] \in {"settled", "sent"}
<1>g. cpc \in [Client -> {"connect", "ask", "wait", "settled", "sent", "ended"}]
  BY DEF Shape, TypeOK
<1>1. ASSUME NEW k \in Client, k /= c, client(k) \/ interrupt(k) PROVE cpc'[c] = cpc[c]
  BY <1>g, <1>1 DEF client, connect, requestLocation, receiveLocation, sendCommand,
     loseNode, interrupt, ClientAt
<1>2. connect(c) \/ requestLocation(c) \/ loseNode(c) \/ interrupt(c) =>
         cpc'[c] \in {"ask", "wait", "ended"}
  BY <1>g DEF connect, requestLocation, loseNode, interrupt, ClientAt
<1>3. sendCommand(c) => cpc[c] = "settled"
  BY DEF sendCommand
<1> QED
  BY <1>1, <1>2, <1>3, Changes_cpc DEF client

LEMMA ServedStep ==
    ASSUME Shape, [Next]_vars
    PROVE  Served'
<1> USE DEF Up, End
<1> SUFFICES ASSUME NEW c \in Client,
                    answer'[c] /= None \/ cpc'[c] \in {"settled", "sent"}, served'[c] \in Worker
             PROVE  workers'[NodeAt(host'[c])] > 0
  BY DEF Served
<1>t. workers \in [Node -> 0 .. WORKER_NUM] /\ WORKER_NUM \in Nat
  BY StartupAssumption DEF Shape, TypeOK
<1>g. /\ given \in [Client -> Nat \cup {None}] /\ served \in [Client -> Worker \cup {None}]
      /\ cpc \in [Client -> {"connect", "ask", "wait", "settled", "sent", "ended"}]
      /\ host \in [Client -> Address] /\ answer \in [Client -> Address \cup {None}]
  BY DEF Shape, TypeOK
<1>h. NodeAt(host[c]) \in Node
  BY <1>g, AddressOfNode
<1>1. \A n \in Node : workers[n] > 0 => workers'[n] > 0
  BY <1>t, Changes_workers DEF createWorker
<1>2. CASE producer(c)
  <2>1. /\ given[c] \in Nat /\ served'[c] = getWorkerInfoById(NodeAt(host[c]), given[c])
        /\ UNCHANGED <<workers, host>>
    BY <1>g, <1>2 DEF producer, clientVars
  <2>2. None \notin Worker
    BY StartupAssumption DEF Worker
  <2> QED
    BY <1>t, <1>h, <2>1, <2>2 DEF getWorkerInfoById
<1>3. CASE receiveLocation(c)
  <2>1. /\ answer[c] /= None /\ UNCHANGED served /\ answer'[c] = None /\ host'[c] = answer[c]
        /\ cpc'[c] = IF answer[c] = host[c] THEN "settled" ELSE "connect"
    BY <1>g, <1>3 DEF receiveLocation, ClientAt
  <2>2. host'[c] = host[c]
    BY <2>1
  <2> QED
    BY <1>1, <1>h, <2>1, <2>2 DEF Shape, Served
<1>4. CASE ~ producer(c) /\ ~ receiveLocation(c)
  <2>1. served'[c] = served[c] /\ host'[c] = host[c]
    BY <1>g, <1>4, Changes_served, Changes_host DEF producer, receiveLocation
  <2>2. answer'[c] = answer[c]
    BY <1>g, <1>4, Changes_answer DEF producer, receiveLocation
  <2>3. cpc'[c] \in {"settled", "sent"} => cpc[c] \in {"settled", "sent"}
    BY <1>4, SettledBefore
  <2> QED
    BY <1>1, <1>h, <2>1, <2>2, <2>3 DEF Shape, Served
<1> QED
  BY <1>2, <1>3, <1>4

\* Votes and batches come from a candidate, to another node.
LEMMA ConnectionsStep ==
    ASSUME Shape, [Next]_vars
    PROVE  Connections'
<1> USE DEF Received
<1>b. backlog \in [Node -> Seq(Connection)] /\ handling \in [Node -> Connection \cup {None}]
  BY DEF Shape, TypeOK
<1>r. \A m \in Node : /\ \A i \in 1 .. Len(backlog[m]) : Right(m, backlog[m][i])
                      /\ handling[m] /= None => Right(m, handling[m])
  BY DEF Shape, Connections
<1>1. ASSUME NEW m \in Node, NEW c \in Connection, Right(m, c), Connect(m, c),
             NEW k \in Node, NEW i \in 1 .. Len(backlog'[k])
      PROVE  Right(k, backlog'[k][i])
  <2> DEFINE s == backlog[k]
  <2>1. s \in Seq(Connection)
    BY <1>b
  <2>2. CASE k = m
    <3>1. backlog'[k] = Append(s, c)
      BY <1>b, <1>1, <2>2 DEF Connect
    <3>2. i \in 1 .. Len(s) \/ i = Len(s) + 1
      BY <2>1, <3>1
    <3> QED
      BY <1>1, <1>r, <2>1, <2>2, <3>1, <3>2
  <2>3. CASE k /= m
    BY <1>b, <1>r, <1>1, <2>3 DEF Connect
  <2> QED
    BY <2>2, <2>3
<1>2. ASSUME NEW n \in Node, accept(n) PROVE Connections'
  <2> DEFINE s == backlog[n]
  <2>1. s \in Seq(Connection) /\ s /= <<>> /\ \A i \in 1 .. Len(s) : Right(n, s[i])
    BY <1>b, <1>r, <1>2 DEF accept
  <2>2. handling'[n] = Head(s) /\ backlog'[n] = Tail(s)
    BY <1>b, <1>2 DEF accept
  <2>3. ASSUME NEW k \in Node, k /= n
        PROVE  handling'[k] = handling[k] /\ backlog'[k] = backlog[k]
    BY <1>b, <1>2, <2>3 DEF accept
  <2>4. Right(n, Head(s))
    BY <2>1
  <2>5. ASSUME NEW i \in 1 .. Len(Tail(s)) PROVE Right(n, Tail(s)[i])
    BY <2>1, <2>5
  <2>6. ASSUME NEW k \in Node
        PROVE  /\ \A i \in 1 .. Len(backlog'[k]) : Right(k, backlog'[k][i])
               /\ handling'[k] /= None => Right(k, handling'[k])
    <3> HIDE DEF s
    <3>1. CASE k = n
      BY <2>2, <2>4, <2>5, <3>1
    <3>2. CASE k /= n
      BY <1>r, <2>3, <3>2
    <3> QED
      BY <3>1, <3>2
  <2> QED
    BY <2>6 DEF Connections, Right
<1>3. \A k \in Node : handling'[k] /= None => Right(k, handling'[k])
  <2>1. ASSUME NEW n \in Node, accept(n)
        PROVE  \A k \in Node : handling'[k] /= None => Right(k, handling'[k])
    BY <1>2, <2>1 DEF Connections, Right
  <2> QED
    BY <1>b, <1>r, <2>1, Changes_handling DEF receiveVote, receiveClient, receiveBatch, receiveAck
<1>4. ASSUME NEW k \in Node, NEW i \in 1 .. Len(backlog'[k]) PROVE Right(k, backlog'[k][i])
  <2>1. ASSUME NEW n \in Node, accept(n) PROVE Right(k, backlog'[k][i])
    BY <1>2, <1>4, <2>1 DEF Connections, Right
  <2>2. ASSUME NEW n \in Node, requestVote(n) PROVE Right(k, backlog'[k][i])
    <3> DEFINE c == Conn(n, "REQUEST_VOTE", None)
    <3>1. peer[n] \in Follower(n) /\ n \in Candidate /\ Connect(peer[n], c)
      BY <2>2 DEF requestVote, Shape, Transmitting
    <3>2. c \in Connection /\ peer[n] \in Node /\ Right(peer[n], c)
      BY <3>1 DEF Conn, Connection, Right, Follower
    <3> QED
      BY <1>1, <1>4, <3>1, <3>2
  <2>3. ASSUME NEW n \in Node, NEW w \in Worker, sendBatch(n, w) PROVE Right(k, backlog'[k][i])
    <3> DEFINE c == Conn(n, "APPEND_ENTRIES", w)
               m == dest[n][w]
    <3>1. m \in Follower(n) /\ m \in Node /\ n \in Candidate /\ Connect(m, c)
      BY <2>3, NodesAreNumbers DEF sendBatch, Shape, Working, Transmitting
    <3>2. c \in Connection /\ Right(m, c)
      BY <3>1 DEF Conn, Connection, Right
    <3> QED
      BY <1>1, <1>4, <3>1, <3>2
  <2>4. ASSUME NEW n \in Node, NEW w \in Worker, connectBack(n, w) PROVE Right(k, backlog'[k][i])
    <3> DEFINE c == Conn(n, "RESPONSE_APPEND_ENTRIES", w)
    <3>1. votedFor[n] \in Node /\ Connect(votedFor[n], c)
      BY <2>4 DEF connectBack, Shape, Leading
    <3>2. c \in Connection /\ Right(votedFor[n], c)
      BY DEF Conn, Connection, Right
    <3> QED
      BY <1>1, <1>4, <3>1, <3>2
  <2>5. ASSUME NEW c \in Client, connect(c) PROVE Right(k, backlog'[k][i])
    <3> DEFINE l == Conn(c, "REQUEST_LOCATION", None)
               n == NodeAt(host[c])
    <3>1. n \in Node /\ (Connect(n, l) \/ UNCHANGED backlog)
      BY <2>5, AddressOfNode DEF connect, Shape, TypeOK
    <3>2. l \in Connection /\ Right(n, l)
      BY DEF Conn, Connection, Right
    <3> QED
      BY <1>1, <1>r, <1>4, <3>1, <3>2
  <2> QED
    BY <1>r, <1>4, <2>1, <2>2, <2>3, <2>4, <2>5, Changes_backlog
<1> QED
  BY <1>3, <1>4 DEF Connections, Right

LEMMA ShapeInit == Init => Shape
<1> SUFFICES ASSUME Init PROVE Shape
  OBVIOUS
<1> USE DEF Init, PerNode, PerWorker
<1>1. \A c \in Client : getHost(c) \in Address
  BY StartupAssumption DEF Address
<1>2. TypeOK
  <2>1. N \in 0 .. N /\ 0 \in 0 .. WORKER_NUM /\ WORKER_NUM \in Nat
    BY Numbers, StartupAssumption
  <2>2. <<>> \in Seq(Connection)
    OBVIOUS
  <2> QED
    BY <1>1, <2>1, <2>2 DEF TypeOK
<1>3. Connections /\ Unstarted /\ Leading
  BY DEF Connections, Unstarted, Leading
<1>4. Transmitting
  BY DEF Transmitting
<1>5. Working /\ Served
  BY StartupAssumption DEF Working, Served, Worker
<1> QED
  BY <1>2, <1>3, <1>4, <1>5 DEF Shape

LEMMA ShapeStep == Shape /\ [Next]_vars => Shape'
<1> SUFFICES ASSUME Shape, [Next]_vars PROVE Shape'
  OBVIOUS
<1> QED
  BY TypeOKStep, ConnectionsStep, UnstartedStep, TransmittingStep, LeadingStep, WorkingStep,
     ServedStep DEF Shape

\* TypeOK of the run startup, for every configuration: any number of nodes,
\* candidates, workers and clients, and any files.  In particular a client is
\* never given a worker beyond WORKER_NUM, and a log receiver that connects back
\* has a node to connect to.
THEOREM TypeCorrect == Spec => []TypeOK
<1>1. Shape => TypeOK
  BY DEF Shape
<1> QED
  BY <1>1, ShapeInit, ShapeStep, PTL DEF Spec

-----------------------------------------------------------------------------
(* The vote comes before the batch *)

\* One process runs the program that may become a candidate, all others the one
\* that the Makefile builds with CAN_BE_CANDIDACY=false.
OneCandidate == \A m, n \in Candidate : m = n

Vote(n) == Conn(n, "REQUEST_VOTE", None)

\* node m knows that n is the leader, or is being told
Told(m, n) == votedFor[m] = n \/ handling[m] = Vote(n)

\* the vote is one of the first k connections of the queue
InLine(q, n, k) == \E j \in 1 .. k : q[j] = Vote(n)

\* setupLeader of n has called m.
Called(n, m) ==
    workers[n] > 0 \/ tpc[n] = "create" \/ (tpc[n] = "call" /\ m < peer[n])

IsBatch(c, n) == c.kind = "APPEND_ENTRIES" /\ c.from = n

\* What has been called is told, and no batch overtakes the vote.
VotesFirst ==
    \A n \in Candidate : \A m \in Follower(n) :
        /\ Called(n, m) => Told(m, n) \/ InLine(backlog[m], n, Len(backlog[m]))
        /\ \A i \in 1 .. Len(backlog[m]) :
              IsBatch(backlog[m][i], n) => Told(m, n) \/ InLine(backlog[m], n, i - 1)
        /\ handling[m] /= None /\ IsBatch(handling[m], n) => votedFor[m] = n

Followed ==
    \A m \in Node, w \in Worker : lpc[m][w] /= "none" =>
        /\ leaderOf[m][w] \in Candidate /\ m \in Follower(leaderOf[m][w])
        /\ votedFor[m] = leaderOf[m][w]

\* The line of connections at a node: the first is accepted, or one is added.
LEMMA Line ==
    ASSUME Shape, [Next]_vars, NEW m \in Node
    PROVE  \/ /\ handling[m] = None /\ backlog[m] /= <<>>
              /\ handling'[m] = Head(backlog[m]) /\ backlog'[m] = Tail(backlog[m])
           \/ /\ backlog'[m] = backlog[m]
              /\ handling'[m] = handling[m] \/ handling'[m] = None
           \/ /\ handling'[m] = handling[m]
              /\ \E c \in Connection :
                    /\ backlog'[m] = Append(backlog[m], c)
                    /\ c.kind = "APPEND_ENTRIES" =>
                          \E n \in Node, w \in Worker :
                              sendBatch(n, w) /\ dest[n][w] = m /\ c.from = n
<1> USE DEF Connect, Received
<1>b. backlog \in [Node -> Seq(Connection)] /\ handling \in [Node -> Connection \cup {None}]
  BY DEF Shape, TypeOK
<1> DEFINE Added ==
      /\ handling'[m] = handling[m]
      /\ \E c \in Connection :
            /\ backlog'[m] = Append(backlog[m], c)
            /\ c.kind = "APPEND_ENTRIES" =>
                  \E n \in Node, w \in Worker :
                      sendBatch(n, w) /\ dest[n][w] = m /\ c.from = n
<1> HIDE DEF Added
<1>1. ASSUME NEW n \in Node, requestVote(n)
      PROVE  (backlog'[m] = backlog[m] /\ handling'[m] = handling[m]) \/ Added
  <2>1. Vote(n) \in Connection /\ Vote(n).kind = "REQUEST_VOTE"
    BY DEF Vote, Conn, Connection
  <2>2. backlog' = [backlog EXCEPT ![peer[n]] = Append(@, Vote(n))] /\ UNCHANGED handling
    BY <1>1 DEF requestVote, Vote
  <2> QED
    BY <1>b, <2>1, <2>2 DEF Added
<1>2. ASSUME NEW n \in Node, NEW w \in Worker, sendBatch(n, w)
      PROVE  (backlog'[m] = backlog[m] /\ handling'[m] = handling[m]) \/ Added
  <2> DEFINE c == Conn(n, "APPEND_ENTRIES", w)
  <2>1. c \in Connection /\ c.from = n
    BY DEF Conn, Connection
  <2>2. backlog' = [backlog EXCEPT ![dest[n][w]] = Append(@, c)] /\ UNCHANGED handling
    BY <1>2 DEF sendBatch
  <2> HIDE DEF c
  <2>3. CASE dest[n][w] = m
    BY <1>b, <1>2, <2>1, <2>2, <2>3 DEF Added
  <2>4. CASE dest[n][w] /= m
    BY <1>b, <2>2, <2>4
  <2> QED
    BY <2>3, <2>4
<1>3. ASSUME NEW n \in Node, NEW w \in Worker, connectBack(n, w)
      PROVE  (backlog'[m] = backlog[m] /\ handling'[m] = handling[m]) \/ Added
  <2> DEFINE c == Conn(n, "RESPONSE_APPEND_ENTRIES", w)
  <2>1. c \in Connection /\ c.kind = "RESPONSE_APPEND_ENTRIES"
    BY DEF Conn, Connection
  <2>2. backlog' = [backlog EXCEPT ![votedFor[n]] = Append(@, c)] /\ UNCHANGED handling
    BY <1>3 DEF connectBack
  <2> HIDE DEF c
  <2> QED
    BY <1>b, <2>1, <2>2 DEF Added
<1>4. ASSUME NEW l \in Client, connect(l)
      PROVE  (backlog'[m] = backlog[m] /\ handling'[m] = handling[m]) \/ Added
  <2> DEFINE c == Conn(l, "REQUEST_LOCATION", None)
  <2>1. c \in Connection /\ c.kind = "REQUEST_LOCATION"
    BY DEF Conn, Connection
  <2>2. \/ backlog' = [backlog EXCEPT ![NodeAt(host[l])] = Append(@, c)]
        \/ UNCHANGED backlog
    BY <1>4 DEF connect
  <2>3. UNCHANGED handling
    BY <1>4 DEF connect
  <2> HIDE DEF c
  <2> QED
    BY <1>b, <2>1, <2>2, <2>3 DEF Added
<1>5. ASSUME NEW n \in Node, accept(n)
      PROVE  \/ /\ handling[m] = None /\ backlog[m] /= <<>>
                /\ handling'[m] = Head(backlog[m]) /\ backlog'[m] = Tail(backlog[m])
             \/ backlog'[m] = backlog[m] /\ handling'[m] = handling[m]
  BY <1>b, <1>5 DEF accept
<1>6. ASSUME NEW n \in Node,
             receiveVote(n) \/ receiveClient(n) \/ receiveBatch(n) \/ receiveAck(n)
      PROVE  backlog'[m] = backlog[m] /\ handling'[m] \in {handling[m], None}
  BY <1>b, <1>6 DEF receiveVote, receiveClient, receiveBatch, receiveAck
<1> QED
  BY <1>1, <1>2, <1>3, <1>4, <1>5, <1>6, Changes_backlog, Changes_handling DEF Added

\* votedFor of the others, once it names the candidate, stays.
LEMMA VoteKept ==
    ASSUME OneCandidate, Shape, [Next]_vars, NEW n \in Candidate, NEW m \in Follower(n),
           votedFor[m] = n
    PROVE  votedFor'[m] = n
<1>p. votedFor \in [Node -> Node \cup {-1}] /\ n \in Node /\ m \in Node /\ m /= n
  BY StartupAssumption DEF Shape, TypeOK, Follower
<1>1. ~ Boot(m)
  BY <1>p, NodesAreNumbers DEF Boot, Shape, Unstarted
<1>2. ~ voteForMe(m)
  BY <1>p DEF voteForMe, Shape, Transmitting, OneCandidate
<1>3. receiveVote(m) => votedFor'[m] = n
  BY <1>p DEF receiveVote, Received, Shape, Connections, Right, OneCandidate, setVotedFor
<1>4. ASSUME NEW k \in Node, k /= m, Boot(k) \/ voteForMe(k) \/ receiveVote(k)
      PROVE  votedFor'[m] = votedFor[m]
  BY <1>p, <1>4 DEF Boot, Status, voteForMe, receiveVote, setVotedFor, End
<1> QED
  BY <1>1, <1>2, <1>3, <1>4, Changes_votedFor

\* Who is being told is told.
LEMMA ToldKept ==
    ASSUME OneCandidate, Shape, [Next]_vars, NEW n \in Candidate, NEW m \in Follower(n),
           Told(m, n)
    PROVE  Told(m, n)' /\ (handling'[m] = None => votedFor'[m] = n)
<1>p. m \in Node /\ handling \in [Node -> Connection \cup {None}]
  BY DEF Shape, TypeOK, Follower
<1>1. CASE votedFor[m] = n
  BY <1>1, VoteKept DEF Told
<1>2. CASE handling[m] = Vote(n)
  <2>1. Vote(n).kind = "REQUEST_VOTE" /\ Vote(n).from = n /\ Vote(n) /= None
    <3>1. Vote(n) \in Connection
      BY StartupAssumption DEF Vote, Conn, Connection
    <3> QED
      BY <3>1, StartupAssumption DEF Vote, Conn
  <2>2. CASE receiveVote(m)
    <3>1. votedFor'[m] = n
      BY <1>p, <1>2, <2>1, <2>2 DEF receiveVote, setVotedFor, Shape, TypeOK
    <3> QED
      BY <3>1 DEF Told
  <2>3. CASE ~ receiveVote(m)
    <3>1. ASSUME NEW k \in Node, k /= m,
                 accept(k) \/ receiveVote(k) \/ receiveClient(k) \/ receiveBatch(k) \/ receiveAck(k)
          PROVE  handling'[m] = handling[m]
      BY <1>p, <3>1 DEF accept, receiveVote, receiveClient, receiveBatch, receiveAck, Received
    <3>2. ~ (accept(m) \/ receiveClient(m) \/ receiveBatch(m) \/ receiveAck(m))
      BY <1>2, <2>1 DEF accept, receiveClient, receiveBatch, receiveAck, Received
    <3>3. handling'[m] = handling[m]
      BY <2>3, <3>1, <3>2, Changes_handling
    <3> QED
      BY <1>2, <2>1, <3>3 DEF Told
  <2> QED
    BY <2>2, <2>3
<1> QED
  BY <1>1, <1>2 DEF Told

\* A vote in line stays before what comes after it.
LEMMA InLineKept ==
    ASSUME OneCandidate, Shape, [Next]_vars, NEW n \in Candidate, NEW m \in Follower(n),
           NEW k \in 0 .. Len(backlog[m]), Told(m, n) \/ InLine(backlog[m], n, k)
    PROVE  \/ Told(m, n)'
           \/ Len(backlog'[m]) >= Len(backlog[m]) /\ InLine(backlog'[m], n, k)
           \/ Len(backlog'[m]) < Len(backlog[m]) /\ InLine(backlog'[m], n, k - 1)
<1>1. CASE Told(m, n)
  BY <1>1, ToldKept
<1>2. CASE InLine(backlog[m], n, k)
  <2> DEFINE s == backlog[m]
             t == backlog'[m]
  <2>1. s \in Seq(Connection) /\ m \in Node
    BY DEF Shape, TypeOK, Follower
  <2>2. PICK j \in 1 .. k : s[j] = Vote(n)
    BY <1>2 DEF InLine
  <2>3. CASE handling'[m] = Head(s) /\ t = Tail(s) /\ s /= <<>>
    <3>1. CASE j = 1
      BY <2>1, <2>2, <2>3, <3>1 DEF Told
    <3>2. CASE j /= 1
      <4>1. j - 1 \in 1 .. k - 1 /\ t[j - 1] = Vote(n) /\ Len(t) < Len(s)
        BY <2>1, <2>2, <2>3, <3>2
      <4> QED
        BY <4>1 DEF InLine
    <3> QED
      BY <3>1, <3>2
  <2>4. CASE t = s
    <3>1. j \in 1 .. k /\ t[j] = Vote(n) /\ Len(t) >= Len(s)
      BY <2>1, <2>2, <2>4
    <3> QED
      BY <3>1 DEF InLine
  <2>5. CASE \E c \in Connection : t = Append(s, c)
    <3>1. t[j] = Vote(n) /\ Len(t) >= Len(s)
      BY <2>1, <2>2, <2>5
    <3> QED
      BY <2>2, <3>1 DEF InLine
  <2> QED
    BY <2>1, <2>3, <2>4, <2>5, Line
<1> QED
  BY <1>1, <1>2

\* setupLeader goes through the others in order, and calls each.
LEMMA NewlyCalled ==
    ASSUME Shape, [Next]_vars, NEW n \in Candidate, NEW m \in Follower(n), Called(n, m)'
    PROVE  \/ Called(n, m)
           \/ backlog'[m] = Append(backlog[m], Vote(n))
<1>t. /\ tpc \in [Node -> {"start", "call", "create", "idle"}] /\ n \in Node /\ m \in Node
      /\ peer \in [Node -> 0 .. N] /\ workers \in [Node -> 0 .. WORKER_NUM]
      /\ backlog \in [Node -> Seq(Connection)]
  BY StartupAssumption DEF Shape, TypeOK, Follower
<1>n. m \in Nat /\ m > -1 /\ N \in Nat /\ m < N /\ peer[n] \in Nat /\ workers[n] \in Nat
  BY <1>t, NodesAreNumbers DEF Node
<1>m. ASSUME NEW x \in Int
      PROVE  NextAfter(n, x) \in Nat /\ (x < m => NextAfter(n, x) <= m)
  <2>1. NextAfter(n, x) \in Follower(n) \cup {N}
    BY <1>t, NextAfterIs
  <2>2. m > x => NextAfter(n, x) <= m
    BY <1>t, NextAfterIs
  <2> QED
    BY <1>n, <2>1, <2>2, NodesAreNumbers DEF Follower
<1>1. CASE voteForMe(n)
  <2>1. NextAfter(n, -1) <= m /\ NextAfter(n, -1) \in Nat
    BY <1>n, <1>m
  <2>3. tpc'[n] = "call" /\ peer'[n] = NextAfter(n, -1) /\ workers'[n] = workers[n]
    BY <1>t, <1>1 DEF voteForMe
  <2> QED
    BY <1>n, <2>1, <2>3 DEF Called
<1>2. CASE requestVote(n)
  <2>1. peer[n] < m => NextAfter(n, peer[n]) <= m
    BY <1>n, <1>m
  <2>2. NextAfter(n, peer[n]) \in Nat
    BY <1>n, <1>m
  <2>3. /\ tpc'[n] = IF NextAfter(n, peer[n]) = N THEN "create" ELSE "call"
        /\ tpc[n] = "call" /\ peer'[n] = NextAfter(n, peer[n]) /\ workers'[n] = workers[n]
    BY <1>t, <1>2 DEF requestVote
  <2>4. peer[n] < m => workers[n] > 0
    BY <1>n, <2>1, <2>2, <2>3 DEF Called
  <2> QED
    BY <1>t, <1>n, <1>2, <2>3, <2>4 DEF Called, requestVote, Connect, Vote
<1>3. CASE ~ voteForMe(n) /\ ~ requestVote(n)
  <2>1. peer'[n] = peer[n]
    BY <1>t, <1>3, Changes_peer DEF voteForMe, requestVote
  <2>2. CASE createWorker(n)
    BY <2>2 DEF createWorker, Called
  <2>3. CASE Boot(n)
    BY <1>t, <2>3 DEF Boot, Called, nodeVars
  <2>4. CASE ~ createWorker(n) /\ ~ Boot(n)
    <3>1. tpc'[n] = tpc[n]
      BY <1>t, <1>3, <2>4, Changes_tpc DEF Boot, voteForMe, requestVote, createWorker
    <3>2. workers'[n] = workers[n]
      BY <1>t, <2>4, Changes_workers DEF createWorker
    <3> QED
      BY <2>1, <3>1, <3>2 DEF Called
  <2> QED
    BY <2>2, <2>3, <2>4
<1> QED
  BY <1>1, <1>2, <1>3


LEMMA VotesFirstStep ==
    ASSUME OneCandidate, Shape, VotesFirst, [Next]_vars
    PROVE  VotesFirst'
<1> SUFFICES ASSUME NEW n \in Candidate, NEW m \in Follower(n)
             PROVE  /\ Called(n, m)' =>
                          Told(m, n)' \/ InLine(backlog'[m], n, Len(backlog'[m]))
                    /\ \A i \in 1 .. Len(backlog'[m]) :
                          IsBatch(backlog'[m][i], n) =>
                              Told(m, n)' \/ InLine(backlog'[m], n, i - 1)
                    /\ handling'[m] /= None /\ IsBatch(handling'[m], n) => votedFor'[m] = n
  BY DEF VotesFirst, IsBatch, InLine, Vote, Conn
<1> DEFINE s == backlog[m]
           t == backlog'[m]
<1>s. s \in Seq(Connection) /\ Len(s) \in Nat /\ m \in Node /\ n \in Node
  BY StartupAssumption DEF Shape, TypeOK, Follower
<1>h. /\ Called(n, m) => Told(m, n) \/ InLine(s, n, Len(s))
      /\ \A i \in 1 .. Len(s) : IsBatch(s[i], n) => Told(m, n) \/ InLine(s, n, i - 1)
      /\ handling[m] /= None /\ IsBatch(handling[m], n) => votedFor[m] = n
  BY DEF VotesFirst
<1>k. ASSUME NEW k \in 0 .. Len(s), Told(m, n) \/ InLine(s, n, k)
      PROVE  \/ Told(m, n)'
             \/ Len(t) >= Len(s) /\ InLine(t, n, k)
             \/ Len(t) < Len(s) /\ InLine(t, n, k - 1)
  BY <1>k, InLineKept
<1>l. \/ /\ handling[m] = None /\ s /= <<>> /\ handling'[m] = Head(s) /\ t = Tail(s)
      \/ t = s /\ (handling'[m] = handling[m] \/ handling'[m] = None)
      \/ /\ handling'[m] = handling[m]
         /\ \E c \in Connection :
               /\ t = Append(s, c)
               /\ c.kind = "APPEND_ENTRIES" =>
                     \E k \in Node, w \in Worker : sendBatch(k, w) /\ dest[k][w] = m /\ c.from = k
  BY <1>s, Line
<1>t. Len(t) \in Nat /\ (Len(t) < Len(s) => Len(t) = Len(s) - 1)
  <2>1. CASE s /= <<>> /\ t = Tail(s)
    BY <1>s, <2>1
  <2>2. CASE t = s
    BY <1>s, <2>2
  <2>3. CASE \E c \in Connection : t = Append(s, c)
    BY <1>s, <2>3
  <2> QED
    BY <1>l, <2>1, <2>2, <2>3
\* what has been called remains told or in line
<1>1. ASSUME Called(n, m) PROVE Told(m, n)' \/ (Len(t) >= Len(s) /\ InLine(t, n, Len(s)))
                                \/ (Len(t) < Len(s) /\ InLine(t, n, Len(s) - 1))
  <2>1. Len(s) \in 0 .. Len(s)
    BY <1>s
  <2> HIDE DEF s, t
  <2> QED
    BY <1>1, <1>h, <1>k, <2>1
<1>2. ASSUME Called(n, m)' PROVE Told(m, n)' \/ InLine(t, n, Len(t))
  <2>1. CASE Called(n, m)
    BY <1>s, <1>t, <1>1, <2>1 DEF InLine
  <2>2. CASE t = Append(s, Vote(n))
    <3>1. Len(t) \in 1 .. Len(t) /\ t[Len(t)] = Vote(n)
      BY <1>s, <2>2
    <3> QED
      BY <3>1 DEF InLine
  <2> QED
    BY <1>2, <2>1, <2>2, NewlyCalled
\* a batch is behind the vote, wherever it is in the line
<1>3. ASSUME NEW i \in 1 .. Len(t), IsBatch(t[i], n) PROVE Told(m, n)' \/ InLine(t, n, i - 1)
  <2>1. CASE s /= <<>> /\ t = Tail(s)
    <3>1. i + 1 \in 1 .. Len(s) /\ t[i] = s[i + 1] /\ Len(t) < Len(s)
      BY <1>s, <2>1
    <3>2. PICK k \in 0 .. Len(s) : k = i
      BY <1>s, <3>1
    <3>3. Told(m, n) \/ InLine(s, n, k)
      BY <1>3, <1>h, <3>1, <3>2
    <3> QED
      BY <1>k, <1>s, <1>t, <3>1, <3>2, <3>3
  <2>2. ASSUME i \in 1 .. Len(s), Len(t) >= Len(s), t[i] = s[i]
        PROVE  Told(m, n)' \/ InLine(t, n, i - 1)
    <3>1. PICK k \in 0 .. Len(s) : k = i - 1
      BY <1>s, <2>2
    <3>2. Told(m, n) \/ InLine(s, n, k)
      BY <1>3, <1>h, <2>2, <3>1
    <3> QED
      BY <1>k, <1>s, <1>t, <2>2, <3>1, <3>2
  <2>3. CASE t = s
    BY <1>s, <2>2, <2>3
  <2>4. ASSUME NEW c \in Connection, t = Append(s, c),
               c.kind = "APPEND_ENTRIES" =>
                  \E k \in Node, w \in Worker : sendBatch(k, w) /\ dest[k][w] = m /\ c.from = k
        PROVE  Told(m, n)' \/ InLine(t, n, i - 1)
    <3>1. CASE i \in 1 .. Len(s)
      BY <1>s, <2>2, <2>4, <3>1
    <3>2. CASE i = Len(s) + 1
      <4>1. t[i] = c /\ Len(t) >= Len(s) /\ i - 1 = Len(s)
        BY <1>s, <2>4, <3>2
      <4>2. \E w \in Worker : w \in work[n]
        BY <1>3, <2>4, <4>1 DEF IsBatch, sendBatch
      <4>3. Called(n, m)
        BY <1>s, <4>2 DEF Called, Shape, Working
      <4> QED
        BY <1>s, <1>t, <1>1, <4>1, <4>3
    <3> QED
      BY <1>s, <2>4, <3>1, <3>2
  <2> QED
    BY <1>l, <2>1, <2>3, <2>4
<1>4. ASSUME handling'[m] /= None, IsBatch(handling'[m], n) PROVE votedFor'[m] = n
  <2>1. votedFor[m] = n
    <3>1. CASE handling'[m] = handling[m]
      BY <1>h, <1>4, <3>1
    <3>2. CASE handling[m] = None /\ s /= <<>> /\ handling'[m] = Head(s)
      <4>1. 1 \in 1 .. Len(s) /\ s[1] = handling'[m] /\ 1 - 1 = 0
        BY <1>s, <3>2
      <4>2. Told(m, n) \/ InLine(s, n, 0)
        BY <1>4, <1>h, <4>1
      <4>3. Vote(n) /= None
        BY <1>s, StartupAssumption DEF Vote, Conn, Connection
      <4> QED
        BY <3>2, <4>2, <4>3 DEF Told, InLine
    <3> QED
      BY <1>4, <1>l, <3>1, <3>2
  <2> QED
    BY <2>1, VoteKept
<1> QED
  BY <1>2, <1>3, <1>4

LEMMA FollowedStep ==
    ASSUME OneCandidate, Shape, VotesFirst, Followed, [Next]_vars
    PROVE  Followed'
<1> SUFFICES ASSUME NEW m \in Node, NEW w \in Worker, lpc'[m][w] /= "none"
             PROVE  /\ leaderOf'[m][w] \in Candidate /\ m \in Follower(leaderOf'[m][w])
                    /\ votedFor'[m] = leaderOf'[m][w]
  BY DEF Followed, Follower
<1>l. /\ lpc \in [Node -> [Worker -> {"none", "start", "connect", "write", "done"}]]
      /\ leaderOf \in [Node -> [Worker -> Node \cup {None}]]
  BY DEF Shape, TypeOK
<1>1. ASSUME NEW n \in Candidate, m \in Follower(n), votedFor[m] = n, leaderOf'[m][w] = n
      PROVE  /\ leaderOf'[m][w] \in Candidate /\ m \in Follower(leaderOf'[m][w])
             /\ votedFor'[m] = leaderOf'[m][w]
  BY <1>1, VoteKept
<1>2. CASE receiveBatch(m) /\ handling[m].worker = w
  <2> DEFINE n == handling[m].from
  <2>1. /\ handling[m] /= None /\ handling[m].kind = "APPEND_ENTRIES"
        /\ n \in Candidate /\ m \in Follower(n)
    BY <1>2 DEF receiveBatch, Received, Shape, Connections, Right
  <2>2. votedFor[m] = n
    BY <2>1 DEF VotesFirst, IsBatch
  <2>3. leaderOf'[m][w] = n
    BY <1>l, <1>2 DEF receiveBatch
  <2> QED
    BY <1>1, <2>1, <2>2, <2>3
<1>3. CASE ~ (receiveBatch(m) /\ handling[m].worker = w)
  <2>1. leaderOf'[m][w] = leaderOf[m][w]
    BY <1>l, <1>3, Changes_leaderOf DEF receiveBatch
  <2>2. lpc[m][w] /= "none"
    <3>1. ASSUME NEW k \in Node, receiveBatch(k) PROVE lpc'[m][w] = lpc[m][w]
      BY <1>l, <1>3, <3>1 DEF receiveBatch
    <3>2. ASSUME NEW k \in Node, NEW v \in Worker, logReceiver(k, v)
          PROVE  lpc'[m][w] = lpc[m][w] \/ lpc[m][w] /= "none"
      BY <1>l, <3>2 DEF logReceiver, findLeader, connectBack, sendAck
    <3> QED
      BY <3>1, <3>2, Changes_lpc DEF logReceiver
  <2> QED
    BY <1>1, <2>1, <2>2 DEF Followed
<1> QED
  BY <1>2, <1>3

\* With one candidate, a follower that receives a batch has been told its leader
\* and acknowledges to the node that sent the batch: for any number of nodes,
\* workers and clients, any files, and any order in which connections are made,
\* accepted and heard.
THEOREM NoBatchBeforeVote ==
    ASSUME OneCandidate
    PROVE  Spec => []BatchAfterVote
<1> DEFINE IInv == Shape /\ VotesFirst /\ Followed
<1>1. Init => IInv
  <2> SUFFICES ASSUME Init PROVE IInv
    OBVIOUS
  <2>1. \A m \in Node : ~ (\E n \in Node : Called(n, m))
    BY DEF Init, PerNode, Called
  <2>2. VotesFirst
    <3>1. \A m \in Node : backlog[m] = <<>> /\ handling[m] = None /\ 1 .. Len(backlog[m]) = {}
      BY DEF Init, PerNode
    <3>2. \A n \in Candidate : n \in Node /\ Follower(n) \subseteq Node
      BY StartupAssumption DEF Follower
    <3> QED
      BY <2>1, <3>1, <3>2 DEF VotesFirst
  <2>3. Followed
    BY DEF Followed, Init, PerWorker
  <2> QED
    BY <2>2, <2>3, ShapeInit
<1>2. IInv /\ [Next]_vars => IInv'
  BY ShapeStep, VotesFirstStep, FollowedStep
<1>3. IInv => BatchAfterVote
  BY DEF Followed, BatchAfterVote
<1> QED
  BY <1>1, <1>2, <1>3, PTL DEF Spec

-----------------------------------------------------------------------------
(* Clients stay with the leader *)

\* The program reads the file votedFor and never writes it; nobody has written
\* into the file of a node that is no candidate that it is its own leader.
OwnFiles == \A n \in Node \ Candidate : n \notin VotedForFile[n]

OwnVote == \A n \in Node : votedFor[n] = n => n \in Candidate

\* A client that is answered with the address it has asked, or has stayed there,
\* is with the leader.
RightPlace ==
    \A c \in Client :
        answer[c] = host[c] \/ cpc[c] \in {"settled", "sent"} =>
            votedFor[NodeAt(host[c])] = NodeAt(host[c])

LEMMA OwnVoteStep ==
    ASSUME OwnFiles, Shape, OwnVote, [Next]_vars
    PROVE  OwnVote'
<1> SUFFICES ASSUME NEW n \in Node, votedFor'[n] = n PROVE n \in Candidate
  BY DEF OwnVote
<1>p. votedFor \in [Node -> Node \cup {-1}] /\ (votedFor[n] = n => n \in Candidate)
  BY DEF Shape, TypeOK, OwnVote
<1>1. CASE Boot(n)
  BY <1>p, <1>1 DEF Boot, Status, setVotedFor, OwnFiles
<1>2. CASE voteForMe(n)
  BY <1>2 DEF voteForMe, Shape, Transmitting
<1>3. CASE receiveVote(n)
  <2>1. votedFor'[n] = handling[n].from
    BY <1>p, <1>3 DEF receiveVote, setVotedFor
  <2>2. n \in Follower(handling[n].from)
    BY <1>3 DEF receiveVote, Received, Shape, Connections, Right
  <2> QED
    BY <2>1, <2>2 DEF Follower
<1>4. ASSUME NEW k \in Node, k /= n, Boot(k) \/ voteForMe(k) \/ receiveVote(k)
      PROVE  votedFor'[n] = votedFor[n]
  BY <1>p, <1>4 DEF Boot, Status, voteForMe, receiveVote, setVotedFor, End
<1> QED
  BY <1>p, <1>1, <1>2, <1>3, <1>4, Changes_votedFor

\* the only candidate never follows another
LEMMA OwnVoteKept ==
    ASSUME OneCandidate, Shape, [Next]_vars, NEW n \in Candidate, votedFor[n] = n
    PROVE  votedFor'[n] = n
<1>p. votedFor \in [Node -> Node \cup {-1}] /\ n \in Node
  BY StartupAssumption DEF Shape, TypeOK
<1>1. ~ Boot(n)
  BY <1>p, NodesAreNumbers DEF Boot, Shape, Unstarted
<1>2. voteForMe(n) => votedFor'[n] = n
  BY <1>p DEF voteForMe, setVotedFor
<1>3. ~ receiveVote(n)
  <2>1. receiveVote(n) => handling[n].from \in Candidate /\ n \in Follower(handling[n].from)
    BY <1>p DEF receiveVote, Received, Shape, Connections, Right
  <2> QED
    BY <2>1 DEF Follower, OneCandidate
<1>4. ASSUME NEW k \in Node, k /= n, Boot(k) \/ voteForMe(k) \/ receiveVote(k)
      PROVE  votedFor'[n] = votedFor[n]
  BY <1>p, <1>4 DEF Boot, Status, voteForMe, receiveVote, setVotedFor, End
<1> QED
  BY <1>1, <1>2, <1>3, <1>4, Changes_votedFor

LEMMA RightPlaceStep ==
    ASSUME OneCandidate, Shape, OwnVote, RightPlace, [Next]_vars
    PROVE  RightPlace'
<1> SUFFICES ASSUME NEW c \in Client, answer'[c] = host'[c] \/ cpc'[c] \in {"settled", "sent"}
             PROVE  votedFor'[NodeAt(host'[c])] = NodeAt(host'[c])
  BY DEF RightPlace
<1>g. /\ cpc \in [Client -> {"connect", "ask", "wait", "settled", "sent", "ended"}]
      /\ host \in [Client -> Address] /\ answer \in [Client -> Address \cup {None}]
      /\ votedFor \in [Node -> Node \cup {-1}]
  BY DEF Shape, TypeOK
<1> DEFINE k == NodeAt(host[c])
<1>k. k \in Node /\ host[c] = rrlByFields(k)
  BY <1>g, AddressOfNode
<1>h. answer[c] = host[c] \/ cpc[c] \in {"settled", "sent"} => votedFor[k] = k
  BY DEF RightPlace
<1>v. votedFor[k] = k => votedFor'[k] = k
  BY <1>k, OwnVoteKept DEF OwnVote
<1>1. CASE receiveLocation(c)
  <2>1. /\ answer[c] /= None /\ answer'[c] = None /\ host'[c] = answer[c]
        /\ cpc'[c] = IF answer[c] = host[c] THEN "settled" ELSE "connect"
    BY <1>g, <1>1 DEF receiveLocation, ClientAt
  <2>2. answer'[c] /= host'[c]
    BY <1>g, <2>1, StartupAssumption
  <2>3. answer[c] = host[c]
    BY <2>1, <2>2
  <2> QED
    BY <1>h, <1>v, <2>1, <2>3
<1>2. CASE producer(c)
  <2>1. host' = host /\ cpc' = cpc
    BY <1>2 DEF producer, clientVars
  <2>2. CASE answer' = answer
    BY <1>h, <1>v, <2>1, <2>2
  <2>3. CASE answer' = [answer EXCEPT ![c] = rrlByFields(votedFor[k])] /\ ~ votedFor[k] < 0
    <3>1. votedFor[k] \in Node
      <4>1. votedFor[k] \in Node \cup {-1}
        BY <1>g, <1>k
      <4> QED
        BY <2>3, <4>1
    <3>2. answer'[c] = host'[c] => votedFor[k] = k
      BY <1>g, <1>k, <2>1, <2>3, <3>1, NodeAtAddress
    <3> QED
      BY <1>h, <1>v, <2>1, <3>2
  <2> QED
    BY <1>2, <2>2, <2>3 DEF producer
<1>3. CASE ~ receiveLocation(c) /\ ~ producer(c)
  <2>1. host'[c] = host[c] /\ answer'[c] = answer[c]
    BY <1>g, <1>3, Changes_host, Changes_answer DEF producer, receiveLocation
  <2>2. cpc'[c] \in {"settled", "sent"} => cpc[c] \in {"settled", "sent"}
    BY <1>3, SettledBefore
  <2> QED
    BY <1>h, <1>v, <2>1, <2>2
<1> QED
  BY <1>1, <1>2, <1>3

\* With one candidate, wherever a client asks and whenever, also of nodes that
\* know an earlier leader from their files, it stays only with a node that has
\* declared itself the leader.
THEOREM SettledWithLeader ==
    ASSUME OneCandidate, OwnFiles
    PROVE  Spec => []SettledAtLeader
<1> DEFINE IInv == Shape /\ OwnVote /\ RightPlace
<1>1. Init => IInv
  <2> SUFFICES ASSUME Init PROVE IInv
    OBVIOUS
  <2>1. OwnVote
    BY NodesAreNumbers DEF Init, PerNode, OwnVote
  <2>2. RightPlace
    <3>1. \A c \in Client : host[c] \in Address /\ answer[c] = None /\ cpc[c] = "connect"
      BY ShapeInit DEF Shape, TypeOK, Init
    <3> QED
      BY <3>1, StartupAssumption DEF RightPlace
  <2> QED
    BY <2>1, <2>2, ShapeInit
<1>2. IInv /\ [Next]_vars => IInv'
  BY ShapeStep, OwnVoteStep, RightPlaceStep
<1>3. IInv => SettledAtLeader
  <2> SUFFICES ASSUME IInv, NEW c \in Client, cpc[c] \in {"settled", "sent"}
               PROVE  NodeAt(host[c]) \in Candidate /\ votedFor[NodeAt(host[c])] = NodeAt(host[c])
    BY DEF SettledAtLeader
  <2>1. NodeAt(host[c]) \in Node
    BY AddressOfNode DEF Shape, TypeOK
  <2> QED
    BY <2>1 DEF RightPlace, OwnVote
<1> QED
  BY <1>1, <1>2, <1>3, PTL DEF Spec

-----------------------------------------------------------------------------
(* The workers are shared evenly *)

\* A candidate votes for itself before it has workers.
VotedForSelf ==
    \A n \in Candidate : workers[n] > 0 \/ tpc[n] \in {"call", "create"} => votedFor[n] = n

\* the request of client c has been sent over connection x and not yet taken
Asked(m, x, c) == <<m, x>> \in spoken /\ x.kind = "REQUEST_LOCATION" /\ x.from = c

\* A client asks one node at a time, and once: its request, the number given to
\* its producer and the answer are never there together.
AskedOnce ==
    \A c \in Client :
        /\ \A m \in Node, x \in Connection :
              Asked(m, x, c) =>
                  /\ m = NodeAt(host[c]) /\ x.worker = None
                  /\ cpc[c] \in {"wait", "ended"} /\ given[c] = None /\ answer[c] = None
        /\ given[c] /= None => cpc[c] \in {"wait", "ended"} /\ answer[c] = None
        /\ answer[c] /= None => cpc[c] \in {"wait", "ended"}

\* no client was accepted before the workers existed
AllLate(n) == \A c \in Client : <<n, c>> \notin early

\* A client of the leader that has not been taken yet has no worker, one that
\* has been taken is given one, and told to stay.
ClientOf(n, c) ==
    /\ given[c] /= None => given[c] \in Worker /\ workers[n] = WORKER_NUM
    /\ answer[c] /= None => answer[c] = host[c]
    /\ cpc[c] \in {"connect", "ask"} => served[c] = None
    /\ \A x \in Connection : Asked(n, x, c) => served[c] = None

\* Nobody else can give it a worker.
ClientElsewhere(c) == served[c] = None

Placed ==
    \A n \in Candidate, c \in Client :
        AllLate(n) =>
            IF NodeAt(host[c]) = n THEN ClientOf(n, c) ELSE ClientElsewhere(c)

Load(n, w) == {c \in Client : WorkerGiven(n, c) = w}

\* The workers below the next one have had one client more than the others.
Dealt(n) ==
    /\ workerId[n] \in Worker
    /\ \E q \in Nat : \A w \in Worker :
          Cardinality(Load(n, w)) = IF w < workerId[n] THEN q + 1 ELSE q

Even == \A n \in Candidate : AllLate(n) => Dealt(n)

LEMMA VotedForSelfStep ==
    ASSUME OneCandidate, Shape, VotedForSelf, [Next]_vars
    PROVE  VotedForSelf'
<1> SUFFICES ASSUME NEW n \in Candidate, workers'[n] > 0 \/ tpc'[n] \in {"call", "create"}
             PROVE  votedFor'[n] = n
  BY DEF VotedForSelf
<1>t. /\ tpc \in [Node -> {"start", "call", "create", "idle"}]
      /\ workers \in [Node -> 0 .. WORKER_NUM] /\ votedFor \in [Node -> Node \cup {-1}]
      /\ n \in Node
  BY StartupAssumption DEF Shape, TypeOK
<1>1. CASE voteForMe(n)
  BY <1>t, <1>1 DEF voteForMe, setVotedFor
<1>2. CASE ~ voteForMe(n)
  <2>1. workers[n] > 0 \/ tpc[n] \in {"call", "create"}
    <3>1. CASE Boot(n)
      BY <1>t, <3>1 DEF Boot, nodeVars
    <3>2. CASE ~ Boot(n)
      BY <1>t, <1>2, <3>2, Changes_tpc, Changes_workers
         DEF Boot, voteForMe, requestVote, createWorker
    <3> QED
      BY <3>1, <3>2
  <2> QED
    BY <2>1, OwnVoteKept DEF VotedForSelf
<1> QED
  BY <1>1, <1>2

\* Where the requests of the clients come from and go to.
LEMMA AskedStep ==
    ASSUME Shape, [Next]_vars, NEW c \in Client, NEW m \in Node, NEW x \in Connection,
           Asked(m, x, c)'
    PROVE  \/ Asked(m, x, c) /\ ~ (receiveClient(m) /\ handling[m] = x)
           \/ /\ requestLocation(c) /\ m = NodeAt(host[c])
              /\ x = Conn(c, "REQUEST_LOCATION", None)
<1>1. \A n \in Node : n \notin Client
  BY StartupAssumption
<1>2. ASSUME NEW n \in Node, requestVote(n) PROVE Asked(m, x, c)
  BY <1>2 DEF Asked, requestVote, Conn
<1>3. ASSUME NEW n \in Node, NEW w \in Worker, sendBatch(n, w) \/ sendAck(n, w)
      PROVE  Asked(m, x, c)
  BY <1>3 DEF Asked, sendBatch, sendAck, Conn
<1>4. ASSUME NEW d \in Client, requestLocation(d)
      PROVE  Asked(m, x, c) \/ (requestLocation(c) /\ m = NodeAt(host[c])
                                /\ x = Conn(c, "REQUEST_LOCATION", None))
  BY <1>4 DEF Asked, requestLocation, Conn
<1>5. ASSUME NEW n \in Node, receiveVote(n) \/ receiveClient(n) \/ receiveBatch(n) \/ receiveAck(n)
      PROVE  Asked(m, x, c) /\ <<m, x>> /= <<n, handling[n]>>
  BY <1>5 DEF Asked, receiveVote, receiveClient, receiveBatch, receiveAck, Received
<1>6. Asked(m, x, c) \/ (requestLocation(c) /\ m = NodeAt(host[c])
                         /\ x = Conn(c, "REQUEST_LOCATION", None))
  BY <1>2, <1>3, <1>4, <1>5, Changes_spoken DEF Asked
<1> QED
  BY <1>5, <1>6

\* What the receiver of node n does for a client.
LEMMA Taken ==
    ASSUME Shape, AskedOnce, NEW n \in Node, receiveClient(n)
    PROVE  LET c == handling[n].from IN
           /\ c \in Client /\ handling[n] \in Connection /\ Asked(n, handling[n], c)
           /\ NodeAt(host[c]) = n /\ handling[n].worker = None
           /\ cpc[c] \in {"wait", "ended"} /\ given[c] = None /\ answer[c] = None
           /\ given' = [given EXCEPT ![c] = workerId[n]]
           /\ workerId' = [workerId EXCEPT ![n] = roundRobin(n)]
           /\ answer' = answer /\ served' = served /\ cpc' = cpc /\ host' = host
           /\ workers' = workers
           /\ workers[n] < WORKER_NUM => <<n, c>> \in early'
<1>1. /\ handling[n] /= None /\ handling[n].kind = "REQUEST_LOCATION"
      /\ <<n, handling[n]>> \in spoken
  BY DEF receiveClient, Received
<1>2. handling[n] \in Connection /\ handling[n].from \in Client
  BY <1>1 DEF Shape, Connections, Right
<1>3. Asked(n, handling[n], handling[n].from)
  BY <1>1 DEF Asked
<1>4. /\ NodeAt(host[handling[n].from]) = n /\ handling[n].worker = None
      /\ cpc[handling[n].from] \in {"wait", "ended"}
      /\ given[handling[n].from] = None /\ answer[handling[n].from] = None
  BY <1>2, <1>3 DEF AskedOnce
<1> QED
  BY <1>2, <1>3, <1>4 DEF receiveClient, clientVars, nodeVars

\* What the producer of a client does.
LEMMA Produced ==
    ASSUME Shape, NEW c \in Client, producer(c)
    PROVE  LET n == NodeAt(host[c]) IN
           /\ n \in Node /\ given[c] /= None
           /\ given' = [given EXCEPT ![c] = None]
           /\ served' = [served EXCEPT ![c] = getWorkerInfoById(n, given[c])]
           /\ cpc' = cpc /\ host' = host /\ early' = early /\ spoken' = spoken
           /\ workerId' = workerId /\ workers' = workers
           /\ \/ answer' = answer
              \/ /\ votedFor[n] \in Node
                 /\ answer' = [answer EXCEPT ![c] = rrlByFields(votedFor[n])]
<1>1. NodeAt(host[c]) \in Node
  BY AddressOfNode DEF Shape, TypeOK
<1>2. votedFor[NodeAt(host[c])] \in Node \cup {-1}
  BY <1>1 DEF Shape, TypeOK
<1>3. ~ votedFor[NodeAt(host[c])] < 0 => votedFor[NodeAt(host[c])] \in Node
  BY <1>2
<1> QED
  BY <1>1, <1>3 DEF producer, clientVars, connVars

LEMMA AskedOnceStep ==
    ASSUME Shape, AskedOnce, [Next]_vars
    PROVE  AskedOnce'
<1> SUFFICES ASSUME NEW c \in Client
             PROVE  /\ \A m \in Node, x \in Connection :
                          Asked(m, x, c)' =>
                              /\ m = NodeAt(host'[c]) /\ x.worker = None
                              /\ cpc'[c] \in {"wait", "ended"}
                              /\ given'[c] = None /\ answer'[c] = None
                    /\ given'[c] /= None => cpc'[c] \in {"wait", "ended"} /\ answer'[c] = None
                    /\ answer'[c] /= None => cpc'[c] \in {"wait", "ended"}
  BY DEF AskedOnce
<1>g. /\ cpc \in [Client -> {"connect", "ask", "wait", "settled", "sent", "ended"}]
      /\ host \in [Client -> Address] /\ answer \in [Client -> Address \cup {None}]
      /\ given \in [Client -> Nat \cup {None}]
  BY DEF Shape, TypeOK
<1>h. /\ \A m \in Node, x \in Connection :
            Asked(m, x, c) =>
                /\ m = NodeAt(host[c]) /\ x.worker = None
                /\ cpc[c] \in {"wait", "ended"} /\ given[c] = None /\ answer[c] = None
      /\ given[c] /= None => cpc[c] \in {"wait", "ended"} /\ answer[c] = None
      /\ answer[c] /= None => cpc[c] \in {"wait", "ended"}
  BY DEF AskedOnce
<1>1. CASE \E n \in Node : receiveClient(n) /\ handling[n].from = c
  <2> PICK n \in Node : receiveClient(n) /\ handling[n].from = c
    BY <1>1
  <2>1. /\ handling[n] \in Connection /\ handling[n].worker = None
        /\ handling[n].kind = "REQUEST_LOCATION" /\ NodeAt(host[c]) = n
        /\ cpc'[c] \in {"wait", "ended"} /\ answer'[c] = None
    BY Taken DEF Asked
  <2>2. ASSUME NEW m \in Node, NEW x \in Connection, Asked(m, x, c)' PROVE FALSE
    <3>1. Asked(m, x, c) /\ ~ (receiveClient(m) /\ handling[m] = x)
      <4>1. ~ requestLocation(c)
        BY <2>1, Taken, <1>h DEF requestLocation, Asked
      <4> QED
        BY <2>2, <4>1, AskedStep
    <3>2. m = n /\ x.worker = None
      BY <1>h, <2>1, <3>1
    <3>3. x = handling[n]
      BY <2>1, <3>1, <3>2 DEF Asked, Connection
    <3> QED
      BY <3>1, <3>2, <3>3
  <2> QED
    BY <2>1, <2>2
<1>2. CASE requestLocation(c)
  <2>1. /\ cpc[c] = "ask" /\ cpc'[c] = "wait" /\ host' = host /\ given' = given /\ answer' = answer
    BY <1>g, <1>2 DEF requestLocation, ClientAt, sessionVars
  <2>2. given[c] = None /\ answer[c] = None
    BY <1>h, <2>1
  <2>3. ASSUME NEW m \in Node, NEW x \in Connection, Asked(m, x, c)'
        PROVE  m = NodeAt(host[c]) /\ x.worker = None
    BY <1>h, <2>3, AskedStep DEF Conn
  <2> QED
    BY <2>1, <2>2, <2>3
<1>3. CASE producer(c)
  <2>1. /\ given[c] /= None /\ given'[c] = None /\ cpc' = cpc /\ host' = host
        /\ \A m \in Node, x \in Connection : Asked(m, x, c)' <=> Asked(m, x, c)
    BY <1>3, <1>g, Produced DEF Asked
  <2> QED
    BY <1>h, <2>1
<1>4. CASE receiveLocation(c)
  <2>1. /\ answer[c] /= None /\ answer'[c] = None /\ given' = given
        /\ \A m \in Node, x \in Connection : Asked(m, x, c)' <=> Asked(m, x, c)
    BY <1>4, <1>g DEF receiveLocation, Asked, connVars
  <2> QED
    BY <1>h, <2>1
<1>5. CASE /\ ~ requestLocation(c) /\ ~ producer(c) /\ ~ receiveLocation(c)
           /\ ~ (\E n \in Node : receiveClient(n) /\ handling[n].from = c)
  <2>1. host'[c] = host[c] /\ answer'[c] = answer[c]
    BY <1>g, <1>5, Changes_host, Changes_answer DEF producer, receiveLocation
  <2>2. given'[c] = given[c]
    BY <1>g, <1>5, Changes_given DEF producer, receiveClient
  <2>3. cpc[c] \in {"wait", "ended"} =>
            cpc'[c] \in {"wait", "ended"}
    <3>1. ASSUME sendCommand(c) PROVE cpc[c] = "settled"
      BY <3>1 DEF sendCommand
    <3>2. ASSUME connect(c) PROVE cpc[c] = "connect"
      BY <3>2 DEF connect
    <3> QED
      BY <1>g, <1>5, <3>1, <3>2, Changes_cpc
         DEF connect, requestLocation, receiveLocation, sendCommand, loseNode, interrupt, ClientAt
  <2>4. \A m \in Node, x \in Connection : Asked(m, x, c)' => Asked(m, x, c)
    BY <1>5, AskedStep
  <2> QED
    BY <1>h, <2>1, <2>2, <2>3, <2>4
<1> QED
  BY <1>1, <1>2, <1>3, <1>4, <1>5

LEMMA LateBefore ==
    ASSUME [Next]_vars, NEW n \in Node, AllLate(n)'
    PROVE  AllLate(n)
BY Changes_early DEF AllLate, receiveClient

LEMMA WorkersStay ==
    ASSUME Shape, [Next]_vars, NEW n \in Node, workers[n] = WORKER_NUM
    PROVE  workers'[n] = WORKER_NUM
<1>1. workers \in [Node -> 0 .. WORKER_NUM] /\ WORKER_NUM \in Nat
  BY StartupAssumption DEF Shape, TypeOK
<1>2. ~ createWorker(n)
  BY <1>1 DEF createWorker, Shape, Transmitting
<1> QED
  BY <1>1, <1>2, Changes_workers DEF createWorker

LEMMA PlacedStep ==
    ASSUME OneCandidate, Shape, VotedForSelf, AskedOnce, Placed, Even, [Next]_vars
    PROVE  Placed'
<1> SUFFICES ASSUME NEW n \in Candidate, NEW c \in Client, AllLate(n)'
             PROVE  IF NodeAt(host'[c]) = n THEN ClientOf(n, c)' ELSE ClientElsewhere(c)'
  BY DEF Placed
<1>g. /\ cpc \in [Client -> {"connect", "ask", "wait", "settled", "sent", "ended"}]
      /\ host \in [Client -> Address] /\ answer \in [Client -> Address \cup {None}]
      /\ given \in [Client -> Nat \cup {None}] /\ served \in [Client -> Worker \cup {None}]
      /\ workers \in [Node -> 0 .. WORKER_NUM] /\ workerId \in [Node -> Nat]
      /\ WORKER_NUM \in Nat /\ WORKER_NUM > 0 /\ n \in Node
  BY StartupAssumption DEF Shape, TypeOK
<1>l. AllLate(n)
  BY <1>g, LateBefore
<1>h. IF NodeAt(host[c]) = n THEN ClientOf(n, c) ELSE ClientElsewhere(c)
  BY <1>l DEF Placed
<1>w. workers[n] = WORKER_NUM => workers'[n] = WORKER_NUM
  BY <1>g, WorkersStay
<1>k. NodeAt(host[c]) \in Node /\ host[c] = rrlByFields(NodeAt(host[c]))
  BY <1>g, AddressOfNode
<1>1. CASE \E m \in Node : receiveClient(m) /\ handling[m].from = c
  <2> PICK m \in Node : receiveClient(m) /\ handling[m].from = c
    BY <1>1
  <2>1. /\ handling[m] \in Connection /\ Asked(m, handling[m], c)
        /\ NodeAt(host[c]) = m /\ cpc[c] \in {"wait", "ended"} /\ answer[c] = None
        /\ given' = [given EXCEPT ![c] = workerId[m]]
        /\ answer' = answer /\ served' = served /\ cpc' = cpc /\ host' = host
        /\ workers' = workers
        /\ workers[m] < WORKER_NUM => <<m, c>> \in early'
    BY Taken
  <2>2. CASE m /= n
    BY <1>h, <2>1, <2>2 DEF ClientElsewhere
  <2>3. CASE m = n
    <3>1. workers[n] = WORKER_NUM
      <4>1. ~ workers[n] < WORKER_NUM
        BY <2>1, <2>3 DEF AllLate
      <4>2. workers[n] \in 0 .. WORKER_NUM
        BY <1>g
      <4> QED
        BY <1>g, <4>1, <4>2
    <3>2. workerId[n] \in Worker
      BY <1>l DEF Even, Dealt
    <3>3. served[c] = None
      BY <1>h, <2>1, <2>3 DEF ClientOf
    <3>4. given'[c] \in Worker /\ served'[c] = None /\ answer'[c] = None /\ workers'[n] = WORKER_NUM
      BY <1>g, <2>1, <2>3, <3>1, <3>2, <3>3
    <3> QED
      BY <2>1, <2>3, <3>4 DEF ClientOf
  <2> QED
    BY <2>2, <2>3
<1>2. CASE producer(c)
  <2> DEFINE m == NodeAt(host[c])
  <2>1. /\ m \in Node /\ given[c] /= None /\ given'[c] = None
        /\ served'[c] = getWorkerInfoById(m, given[c])
        /\ cpc' = cpc /\ host' = host /\ spoken' = spoken /\ workers' = workers
        /\ \/ answer' = answer
           \/ answer'[c] = rrlByFields(votedFor[m])
    BY <1>2, <1>g, Produced
  <2>2. CASE m /= n
    <3>1. workers[m] = 0
      <4>1. m \notin Candidate
        BY <2>2 DEF OneCandidate
      <4>2. ~ workers[m] > 0 /\ workers[m] \in 0 .. WORKER_NUM
        BY <1>g, <2>1, <4>1 DEF Shape, Transmitting
      <4> QED
        BY <4>2
    <3>2. given[c] \in Nat
      BY <1>g, <2>1
    <3>3. served'[c] = None
      BY <2>1, <3>1, <3>2 DEF getWorkerInfoById
    <3> QED
      BY <2>1, <2>2, <3>3 DEF ClientElsewhere
  <2>3. CASE m = n
    <3>1. workers[n] = WORKER_NUM /\ (answer[c] /= None => answer[c] = host[c])
      BY <1>h, <2>1, <2>3 DEF ClientOf
    <3>2. votedFor[n] = n
      BY <1>g, <3>1 DEF VotedForSelf
    <3>3. answer'[c] /= None => answer'[c] = host[c]
      BY <1>k, <2>1, <2>3, <3>1, <3>2
    <3>4. /\ cpc[c] \in {"wait", "ended"}
          /\ \A x \in Connection : ~ Asked(n, x, c)
      BY <1>g, <2>1 DEF AskedOnce
    <3>5. \A x \in Connection : ~ Asked(n, x, c)'
      BY <2>1, <3>4 DEF Asked
    <3> QED
      BY <2>1, <2>3, <3>3, <3>4, <3>5 DEF ClientOf
  <2> QED
    BY <2>2, <2>3
<1>3. CASE receiveLocation(c)
  <2>1. /\ answer[c] /= None /\ answer'[c] = None /\ host'[c] = answer[c]
        /\ cpc'[c] = IF answer[c] = host[c] THEN "settled" ELSE "connect"
        /\ given' = given /\ served' = served /\ spoken' = spoken
    BY <1>3, <1>g DEF receiveLocation, ClientAt, connVars
  <2>2. /\ given[c] = None
        /\ \A m \in Node, x \in Connection : ~ Asked(m, x, c)
    BY <2>1 DEF AskedOnce
  <2>3. \A x \in Connection : ~ Asked(n, x, c)'
    BY <1>g, <2>1, <2>2 DEF Asked
  <2>4. CASE NodeAt(host[c]) = n
    BY <1>h, <2>1, <2>2, <2>3, <2>4 DEF ClientOf
  <2>5. CASE NodeAt(host[c]) /= n
    BY <1>h, <2>1, <2>2, <2>3, <2>5 DEF ClientOf, ClientElsewhere
  <2> QED
    BY <2>4, <2>5
<1>4. CASE /\ ~ producer(c) /\ ~ receiveLocation(c)
           /\ ~ (\E m \in Node : receiveClient(m) /\ handling[m].from = c)
  <2>1. host'[c] = host[c] /\ answer'[c] = answer[c] /\ served'[c] = served[c]
    BY <1>g, <1>4, Changes_host, Changes_answer, Changes_served DEF producer, receiveLocation
  <2>2. given'[c] = given[c]
    BY <1>g, <1>4, Changes_given DEF producer, receiveClient
  <2>3. cpc'[c] \in {"connect", "ask"} => cpc[c] \in {"connect", "ask"}
    BY <1>g, <1>4, Changes_cpc
       DEF connect, requestLocation, receiveLocation, sendCommand, loseNode, interrupt, ClientAt
  <2>4. ASSUME NEW x \in Connection, Asked(n, x, c)', NodeAt(host[c]) = n PROVE served[c] = None
    <3>1. Asked(n, x, c) \/ requestLocation(c)
      BY <1>g, <2>4, AskedStep
    <3>2. requestLocation(c) => cpc[c] = "ask"
      BY DEF requestLocation
    <3> QED
      BY <1>h, <2>4, <3>1, <3>2 DEF ClientOf
  <2> QED
    BY <1>h, <1>w, <2>1, <2>2, <2>3, <2>4 DEF ClientOf, ClientElsewhere
<1> QED
  BY <1>1, <1>2, <1>3, <1>4

\* A client's worker changes only when the receiver of the leader gives it one.
LEMMA WorkerGivenStep ==
    ASSUME OneCandidate, Shape, AskedOnce, Placed, [Next]_vars,
           NEW n \in Candidate, NEW c \in Client, AllLate(n),
           ~ (receiveClient(n) /\ handling[n].from = c)
    PROVE  WorkerGiven(n, c)' = WorkerGiven(n, c)
<1>g. /\ host \in [Client -> Address] /\ answer \in [Client -> Address \cup {None}]
      /\ given \in [Client -> Nat \cup {None}] /\ served \in [Client -> Worker \cup {None}]
      /\ WORKER_NUM \in Nat /\ n \in Node /\ None \notin Nat
  BY StartupAssumption DEF Shape, TypeOK
<1>h. IF NodeAt(host[c]) = n THEN ClientOf(n, c) ELSE ClientElsewhere(c)
  BY DEF Placed
<1>1. CASE \E m \in Node : receiveClient(m) /\ handling[m].from = c
  <2> PICK m \in Node : receiveClient(m) /\ handling[m].from = c
    BY <1>1
  <2>1. NodeAt(host[c]) = m /\ host' = host /\ m /= n
    BY Taken
  <2> QED
    BY <2>1 DEF WorkerGiven
<1>2. CASE producer(c)
  <2> DEFINE m == NodeAt(host[c])
  <2>1. /\ m \in Node /\ given[c] /= None /\ given'[c] = None /\ host' = host
        /\ served'[c] = getWorkerInfoById(m, given[c])
    BY <1>2, <1>g, Produced
  <2>2. CASE m /= n
    BY <2>1, <2>2 DEF WorkerGiven
  <2>3. CASE m = n
    <3>1. given[c] \in Worker /\ workers[n] = WORKER_NUM
      BY <1>h, <2>1, <2>3 DEF ClientOf
    <3>2. getWorkerInfoById(n, given[c]) = given[c]
      BY <1>g, <3>1 DEF getWorkerInfoById, Worker
    <3> QED
      BY <2>1, <2>3, <3>2 DEF WorkerGiven
  <2> QED
    BY <2>2, <2>3
<1>3. CASE receiveLocation(c)
  <2>1. /\ answer[c] /= None /\ host'[c] = answer[c] /\ given' = given /\ served' = served
    BY <1>3, <1>g DEF receiveLocation
  <2>2. given[c] = None
    BY <2>1 DEF AskedOnce
  <2>3. CASE NodeAt(host[c]) = n
    BY <1>h, <2>1, <2>3 DEF ClientOf, WorkerGiven
  <2>4. CASE NodeAt(host[c]) /= n
    BY <1>h, <2>1, <2>2, <2>4 DEF ClientElsewhere, WorkerGiven
  <2> QED
    BY <2>3, <2>4
<1>4. CASE /\ ~ producer(c) /\ ~ receiveLocation(c)
           /\ ~ (\E m \in Node : receiveClient(m) /\ handling[m].from = c)
  <2>1. host'[c] = host[c] /\ served'[c] = served[c]
    BY <1>g, <1>4, Changes_host, Changes_served DEF producer, receiveLocation
  <2>2. given'[c] = given[c]
    BY <1>g, <1>4, Changes_given DEF producer, receiveClient
  <2> QED
    BY <2>1, <2>2 DEF WorkerGiven
<1> QED
  BY <1>1, <1>2, <1>3, <1>4

\* One client more for worker k.
LEMMA LoadAdded ==
    ASSUME NEW n, NEW k, NEW w, NEW c \in Client,
           \A d \in Client \ {c} : WorkerGiven(n, d)' = WorkerGiven(n, d),
           WorkerGiven(n, c) = None, WorkerGiven(n, c)' = k, k /= None, w /= None
    PROVE  /\ Cardinality(Load(n, w)) \in Nat
           /\ Cardinality(Load(n, w)') =
                 IF w = k THEN Cardinality(Load(n, w)) + 1 ELSE Cardinality(Load(n, w))
<1>1. IsFiniteSet(Load(n, w)) /\ c \notin Load(n, w)
  BY StartupAssumption, FS_Subset DEF Load
<1>2. w = k => Load(n, w)' = Load(n, w) \cup {c}
  BY DEF Load
<1>3. w /= k => Load(n, w)' = Load(n, w)
  BY DEF Load
<1> QED
  BY <1>1, <1>2, <1>3, FS_AddElement, FS_CardinalityType

LEMMA EvenStep ==
    ASSUME OneCandidate, Shape, AskedOnce, Placed, Even, [Next]_vars
    PROVE  Even'
<1> SUFFICES ASSUME NEW n \in Candidate, AllLate(n)' PROVE Dealt(n)'
  BY DEF Even
<1>g. /\ workers \in [Node -> 0 .. WORKER_NUM] /\ workerId \in [Node -> Nat]
      /\ given \in [Client -> Nat \cup {None}]
      /\ WORKER_NUM \in Nat /\ WORKER_NUM > 0 /\ n \in Node /\ None \notin Nat
  BY StartupAssumption DEF Shape, TypeOK
<1>l. AllLate(n)
  BY <1>g, LateBefore
<1>h. workerId[n] \in Worker
  BY <1>l DEF Even, Dealt
<1>q. PICK q \in Nat : \A w \in Worker :
          Cardinality(Load(n, w)) = IF w < workerId[n] THEN q + 1 ELSE q
  BY <1>l DEF Even, Dealt
<1>1. CASE receiveClient(n)
  <2> PICK c : c = handling[n].from
    OBVIOUS
  <2> PICK k : k = workerId[n]
    OBVIOUS
  <2>1. /\ c \in Client /\ handling[n] \in Connection /\ Asked(n, handling[n], c)
        /\ NodeAt(host[c]) = n /\ given[c] = None
        /\ given' = [given EXCEPT ![c] = k]
        /\ workerId' = [workerId EXCEPT ![n] = roundRobin(n)]
        /\ served' = served /\ host' = host /\ workers' = workers
        /\ workers[n] < WORKER_NUM => <<n, c>> \in early'
    BY <1>1, <1>g, Taken
  <2>2. workers[n] = WORKER_NUM
    <3>1. ~ workers[n] < WORKER_NUM
      BY <2>1 DEF AllLate
    <3>2. workers[n] \in 0 .. WORKER_NUM
      BY <1>g
    <3> QED
      BY <1>g, <3>1, <3>2
  <2>3. workerId'[n] = IF k = WORKER_NUM - 1 THEN 0 ELSE k + 1
    BY <1>g, <2>1, <2>2 DEF roundRobin
  <2>4. WorkerGiven(n, c) = None /\ WorkerGiven(n, c)' = k
    <3>1. served[c] = None
      BY <1>l, <2>1 DEF Placed, ClientOf
    <3> QED
      BY <1>g, <2>1, <3>1 DEF WorkerGiven
  <2>5. \A d \in Client \ {c} : WorkerGiven(n, d)' = WorkerGiven(n, d)
    BY <1>l, WorkerGivenStep
  <2>6. \A w \in Worker : w \in Nat /\ w /= None /\ w < WORKER_NUM
    BY <1>g DEF Worker
  <2>7. ASSUME NEW w \in Worker
        PROVE  Cardinality(Load(n, w)') =
                  IF w = k THEN Cardinality(Load(n, w)) + 1 ELSE Cardinality(Load(n, w))
    BY <1>g, <1>h, <2>1, <2>4, <2>5, <2>6, LoadAdded
  <2>8. ASSUME NEW w \in Worker
        PROVE  Cardinality(Load(n, w)') = IF w < k + 1 THEN q + 1 ELSE q
    <3>1. Cardinality(Load(n, w)) = IF w < k THEN q + 1 ELSE q
      BY <1>q
    <3>2. w \in Nat /\ k \in Nat
      BY <1>h, <2>6
    <3> QED
      BY <2>7, <3>1, <3>2
  <2>9. k \in Nat /\ k < WORKER_NUM
    BY <1>h, <2>6
  <2>10. CASE k = WORKER_NUM - 1
    <3>1. workerId'[n] = 0 /\ 0 \in Worker
      BY <1>g, <2>3, <2>10 DEF Worker
    <3>2. \A w \in Worker : Cardinality(Load(n, w)') = IF w < 0 THEN q + 2 ELSE q + 1
      BY <1>g, <2>6, <2>8, <2>9, <2>10
    <3>3. q + 1 \in Nat /\ q + 2 = (q + 1) + 1
      OBVIOUS
    <3> QED
      BY <3>1, <3>2, <3>3 DEF Dealt
  <2>11. CASE k /= WORKER_NUM - 1
    <3>1. workerId'[n] = k + 1
      BY <2>3, <2>11
    <3>2. k + 1 \in Worker
      BY <1>g, <2>9, <2>11 DEF Worker
    <3> QED
      BY <2>8, <3>1, <3>2 DEF Dealt
  <2> QED
    BY <2>10, <2>11
<1>2. CASE ~ receiveClient(n)
  <2>1. workerId'[n] = workerId[n]
    BY <1>g, <1>2, Changes_workerId DEF receiveClient
  <2>2. \A d \in Client : WorkerGiven(n, d)' = WorkerGiven(n, d)
    BY <1>l, <1>2, WorkerGivenStep
  <2>3. \A w \in Worker : Load(n, w)' = Load(n, w)
    BY <2>2 DEF Load
  <2> QED
    BY <1>h, <1>q, <2>1, <2>3 DEF Dealt
<1> QED
  BY <1>1, <1>2

\* With one candidate, and no client before its workers exist, every client is
\* given a worker that exists, and no worker has two clients more than another:
\* for any number of workers and clients, wherever and whenever these ask.
THEOREM WorkersSharedEvenly ==
    ASSUME OneCandidate
    PROVE  Spec => []SharedEvenly
<1> DEFINE IInv == Shape /\ VotedForSelf /\ AskedOnce /\ Placed /\ Even
<1>1. Init => IInv
  <2> SUFFICES ASSUME Init PROVE IInv
    OBVIOUS
  <2>0. /\ \A n \in Node : workers[n] = 0 /\ tpc[n] = "idle" /\ workerId[n] = 0
        /\ \A c \in Client : cpc[c] = "connect" /\ given[c] = None /\ served[c] = None
                             /\ answer[c] = None
        /\ spoken = {} /\ Candidate \subseteq Node
    BY StartupAssumption DEF Init, PerNode
  <2>1. VotedForSelf
    BY <2>0 DEF VotedForSelf
  <2>2. AskedOnce
    BY <2>0 DEF AskedOnce, Asked
  <2>3. Placed
    BY <2>0 DEF Placed, ClientOf, ClientElsewhere, Asked
  <2>4. Even
    <3> SUFFICES ASSUME NEW n \in Candidate PROVE Dealt(n)
      BY DEF Even
    <3>1. workerId[n] = 0 /\ 0 \in Worker
      BY <2>0, StartupAssumption DEF Worker
    <3>2. ASSUME NEW w \in Worker PROVE Cardinality(Load(n, w)) = 0 /\ ~ w < 0
      <4>1. w \in Nat /\ w /= None
        BY StartupAssumption DEF Worker
      <4>2. \A c \in Client : WorkerGiven(n, c) = None
        BY <2>0 DEF WorkerGiven
      <4>3. Load(n, w) = {}
        BY <4>1, <4>2 DEF Load
      <4> QED
        BY <4>1, <4>3, FS_EmptySet
    <3> QED
      BY <3>1, <3>2 DEF Dealt
  <2> QED
    BY <2>1, <2>2, <2>3, <2>4, ShapeInit
<1>2. IInv /\ [Next]_vars => IInv'
  BY ShapeStep, VotedForSelfStep, AskedOnceStep, PlacedStep, EvenStep
<1>3. IInv => SharedEvenly
  <2> SUFFICES ASSUME IInv, NEW n \in Candidate, AllLate(n)
               PROVE  /\ \A c \in Client : WorkerGiven(n, c) \in Worker \cup {None}
                      /\ \A v, w \in Worker :
                            Cardinality(Load(n, v)) <= Cardinality(Load(n, w)) + 1
    BY DEF SharedEvenly, AllLate, Load
  <2>1. ASSUME NEW c \in Client PROVE WorkerGiven(n, c) \in Worker \cup {None}
    <3>1. served[c] \in Worker \cup {None}
      BY DEF Shape, TypeOK
    <3> QED
      BY <3>1 DEF Placed, ClientOf, WorkerGiven
  <2>2. PICK q \in Nat : \A w \in Worker :
            Cardinality(Load(n, w)) = IF w < workerId[n] THEN q + 1 ELSE q
    BY DEF Even, Dealt
  <2>3. ASSUME NEW v \in Worker, NEW w \in Worker
        PROVE  Cardinality(Load(n, v)) <= Cardinality(Load(n, w)) + 1
    <3>1. Cardinality(Load(n, v)) \in {q, q + 1} /\ Cardinality(Load(n, w)) \in {q, q + 1}
      BY <2>2
    <3> QED
      BY <3>1
  <2> QED
    BY <2>1, <2>3
<1> QED
  BY <1>1, <1>2, <1>3, PTL DEF Spec
=============================================================================
