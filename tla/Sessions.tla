------------------------------ MODULE Sessions ------------------------------
(***************************************************************************)
(* The sessions of the clients on the leader (src/server/raft.cc,          *)
(* clientnode.cc, src/client/client.cc).  For every connection the leader  *)
(* keeps a record with a number, the size of the list of records, and a    *)
(* socket.  Requests carry the number; a notifier that has committed one   *)
(* looks for the first record with that number and sends to its socket.    *)
(* At the end of a session the record is freed but stays in the list; only *)
(* a failed send takes it out.  The memory and the socket number are used  *)
(* again for later clients.  A client reads its input once, sends one      *)
(* batch of it after the other, and waits for all answers to each.         *)
(***************************************************************************)
EXTENDS Integers, Sequences, FiniteSets, FiniteSetsExt, SequencesExt

CONSTANTS
    Client,
    Lines,          \* Lines[c]: the lines of the client's input file
    TX_NUM,         \* TX_NUM[c]: the third argument of the client
    MAX_CLI_REQ,
    Notifier,       \* notifier threads
    Killable,       \* the clients that may be interrupted
    None

ASSUME SessionsAssumption ==
    /\ Lines \in [Client -> Nat] /\ TX_NUM \in [Client -> Nat \ {0}]
    /\ MAX_CLI_REQ \in Nat \ {0}
    /\ Killable \subseteq Client
    /\ IsFiniteSet(Client) /\ IsFiniteSet(Notifier)
    /\ None \notin Client

Sock == 1 .. Cardinality(Client)
Addr == 1 .. Cardinality(Client)     \* memory for the records
Garbage == -1       \* what freed memory may read as

VARIABLES
    cpc,            \* client: "out", "send", "wait", "exit", "bye", "left", "killed"
    itr,            \* the batch it sends next
    commandId, commitCount,
    used,           \* history: the batches it has sent
    inbox,          \* messages on their way to it
    toLeader,       \* messages on their way to its producer
    conn,           \* its connection as the leader has it: "none", "open",
                    \* "fin" (closed by the client), "rst" (sends fail) or
                    \* "closed"
    clientNodes,    \* Raft::clientNodes, addresses of records
    heap,           \* the record at each address
    owner,          \* the client whose connection has the socket number
    ppc,            \* producer: "none", "recv", "bye", "close", "free", "done"
    record,         \* its pointer to the record
    pending,        \* of the client's last command: the number its requests
                    \* carry and how many are not yet committed
    target,         \* what each notifier is sending
    ended,          \* the leader has ended
    hurt            \* history: a client was interrupted with answers to come

clientVars   == <<cpc, itr, commandId, commitCount, used>>
wireVars     == <<inbox, toLeader, conn>>
recordVars   == <<clientNodes, heap, owner>>
producerVars == <<ppc, record>>
vars == <<clientVars, wireVars, recordVars, producerVars, pending, target, ended, hurt>>

PerClient(v) == [c \in Client |-> v]

Init ==
    /\ cpc = PerClient("out") /\ itr = PerClient(0)
    /\ commandId = PerClient(0) /\ commitCount = PerClient(0) /\ used = PerClient({})
    /\ inbox = PerClient(<<>>) /\ toLeader = PerClient(<<>>) /\ conn = PerClient("none")
    /\ clientNodes = <<>>
    /\ heap = [a \in Addr |-> [id |-> Garbage, sock |-> 0, used |-> FALSE]]
    /\ owner = [s \in Sock |-> None]
    /\ ppc = PerClient("none") /\ record = PerClient(None)
    /\ pending = PerClient([id |-> 0, command |-> 0, left |-> 0]) /\ target = [n \in Notifier |-> None]
    /\ ended = FALSE /\ hurt = FALSE

-----------------------------------------------------------------------------
(* The client *)

\* getCC: lines that do not fill a batch are dropped
Batches(c) == Lines[c] \div MAX_CLI_REQ

\* mutant: only the wrap-around moves on
NextBatchSame(c) == IF itr[c] = Batches(c) - 1 THEN 1 ELSE itr[c]

\* the end of the loop body: the last batch is followed by the second
NextBatch(c) == IF itr[c] = Batches(c) - 1 THEN 1 ELSE itr[c] + 1

\* mutant: the number of clients connected
NextIdConnected == Cardinality({c \in Client : ppc[c] = "recv"})

\* the number of a new record
NextId == Len(clientNodes)

\* a new record
ClientNode(id, s) == [id |-> id, sock |-> s, used |-> TRUE]

\* The client has found the leader (module Startup); the receiver makes its
\* record, in memory that was freed or the next that was never used, and
\* starts its producer.  The kernel gives the smallest free number to the
\* socket.
connect(c) ==
    LET s == Min({t \in Sock : owner[t] = None}) IN
    /\ cpc[c] = "out"
    /\ \E a \in Addr :
          /\ ~ heap[a].used
          /\ heap[a].sock = 0 => \A b \in 1 .. a - 1 : heap[b].sock /= 0
          /\ heap' = [heap EXCEPT ![a] = ClientNode(NextId, s)]
          /\ clientNodes' = Append(clientNodes, a)
          /\ record' = [record EXCEPT ![c] = a]
    /\ owner' = [owner EXCEPT ![s] = c]
    /\ conn' = [conn EXCEPT ![c] = "open"]
    /\ ppc' = [ppc EXCEPT ![c] = "recv"]
    /\ cpc' = [cpc EXCEPT ![c] = IF Batches(c) = 0 THEN "exit" ELSE "send"]
    /\ UNCHANGED <<itr, commandId, commitCount, used, inbox, toLeader, pending,
                   target, ended, hurt>>

\* the client's sendRPC
send(c, kind) == toLeader' = [toLeader EXCEPT ![c] = Append(@, kind)]

\* mutant: the answers are counted on
sendCommandOn(c) ==
    /\ cpc[c] = "send"
    /\ send(c, "CLIENT_COMMAND")
    /\ used' = [used EXCEPT ![c] = @ \cup {itr[c]}]
    /\ cpc' = [cpc EXCEPT ![c] = "wait"]
    /\ UNCHANGED <<itr, commandId, commitCount, inbox, conn, recordVars, producerVars,
                   pending, target, ended, hurt>>

sendCommand(c) ==
    /\ cpc[c] = "send"
    /\ send(c, "CLIENT_COMMAND")
    /\ used' = [used EXCEPT ![c] = @ \cup {itr[c]}]
    /\ commitCount' = [commitCount EXCEPT ![c] = 0]
    /\ cpc' = [cpc EXCEPT ![c] = "wait"]
    /\ UNCHANGED <<itr, commandId, inbox, conn, recordVars, producerVars, pending,
                   target, ended, hurt>>

\* mutant: one less
AllCommittedLess(count) == count >= MAX_CLI_REQ - 1

AllCommitted(count) == count = MAX_CLI_REQ

\* A message for another command is not counted.  With the last one the
\* client goes on to the next batch, or out of the loop: after TX_NUM commands
\* or, with a single batch, at the end of its input.
receiveCommit(c) ==
    LET count == commitCount[c] + (IF Head(inbox[c]).command = commandId[c] THEN 1 ELSE 0)
        last == commandId[c] + 1 = TX_NUM[c] \/ NextBatch(c) = Batches(c)
    IN
    /\ cpc[c] = "wait" /\ inbox[c] /= <<>>
    /\ inbox' = [inbox EXCEPT ![c] = Tail(@)]
    /\ commitCount' = [commitCount EXCEPT ![c] = count]
    /\ IF AllCommitted(count)
       THEN /\ commandId' = [commandId EXCEPT ![c] = @ + 1]
            /\ itr' = [itr EXCEPT ![c] = NextBatch(c)]
            /\ cpc' = [cpc EXCEPT ![c] = IF last THEN "exit" ELSE "send"]
       ELSE UNCHANGED <<commandId, itr, cpc>>
    /\ UNCHANGED <<used, toLeader, conn, recordVars, producerVars, pending, target, ended, hurt>>

sendExit(c) ==
    /\ cpc[c] = "exit"
    /\ send(c, "CLIENT_EXIT")
    /\ cpc' = [cpc EXCEPT ![c] = "bye"]
    /\ UNCHANGED <<itr, commandId, commitCount, used, inbox, conn, recordVars, producerVars,
                   pending, target, ended, hurt>>

\* The client's end of the connection is closed.  Unread messages turn the
\* close into a reset.
Hangup(c) ==
    conn' = [conn EXCEPT ![c] =
        IF @ \in {"closed", "rst"} THEN @ ELSE IF inbox'[c] = <<>> THEN "fin" ELSE "rst"]

\* any sixteen bytes are taken for the farewell
receiveBye(c) ==
    /\ cpc[c] = "bye" /\ inbox[c] /= <<>>
    /\ inbox' = [inbox EXCEPT ![c] = Tail(@)]
    /\ Hangup(c)
    /\ cpc' = [cpc EXCEPT ![c] = "left"]
    /\ UNCHANGED <<itr, commandId, commitCount, used, toLeader, recordVars, producerVars,
                   pending, target, ended, hurt>>

\* A client is interrupted.
kill(c) ==
    /\ c \in Killable /\ cpc[c] \in {"send", "wait", "exit", "bye"}
    /\ cpc' = [cpc EXCEPT ![c] = "killed"]
    /\ hurt' = (hurt \/ cpc[c] \in {"wait", "bye"})
    /\ UNCHANGED inbox
    /\ Hangup(c)
    /\ UNCHANGED <<itr, commandId, commitCount, used, toLeader, recordVars, producerVars,
                   pending, target, ended>>

-----------------------------------------------------------------------------
(* Sending to a socket *)

\* the record is taken out of the list where it is first found
Without(a) ==
    LET i == SelectInSeq(clientNodes, LAMBDA b : b = a)
    IN  IF i = 0 THEN clientNodes ELSE RemoveAt(clientNodes, i)

\* the message that a request is committed, with its client as a ghost
cmByFields(c, command) == [client |-> c, command |-> command]

\* sendRPC with the record at a.  The first send to a connection that the
\* client has closed succeeds, the next ones fail.  After a failure the name in
\* the record is printed, which for a freed record is a wild pointer.
sendRPC(a, message) ==
    LET c == owner[heap[a].sock]
        fails == IF c = None THEN TRUE ELSE conn[c] = "rst"
    IN
    IF fails
    THEN /\ clientNodes' = Without(a)
         /\ ended' = ~ heap[a].used
         /\ UNCHANGED <<inbox, conn>>
    ELSE /\ inbox' = [inbox EXCEPT ![c] = IF conn[c] = "open" THEN Append(@, message) ELSE @]
         /\ conn' = [conn EXCEPT ![c] = IF @ = "fin" THEN "rst" ELSE @]
         /\ UNCHANGED <<clientNodes, ended>>

-----------------------------------------------------------------------------
(* The producer thread of a client, on the leader *)

\* mutant: the last request is left out
queueCommandShort(c) ==
    /\ ppc[c] = "recv" /\ toLeader[c] /= <<>>
    /\ Head(toLeader[c]) = "CLIENT_COMMAND"
    /\ pending' = [pending EXCEPT ![c] = [id |-> heap[record[c]].id,
          command |-> commandId[c], left |-> MAX_CLI_REQ - 1]]
    /\ toLeader' = [toLeader EXCEPT ![c] = Tail(@)]
    /\ UNCHANGED <<clientVars, inbox, conn, recordVars, producerVars, target, ended, hurt>>

\* The requests of a command are queued with the number in the record.  (A
\* client has one command under way, the one it waits for.)
queueCommand(c) ==
    /\ ppc[c] = "recv" /\ toLeader[c] /= <<>>
    /\ Head(toLeader[c]) = "CLIENT_COMMAND"
    /\ pending' = [pending EXCEPT ![c] = [id |-> heap[record[c]].id,
          command |-> commandId[c], left |-> MAX_CLI_REQ]]
    /\ toLeader' = [toLeader EXCEPT ![c] = Tail(@)]
    /\ UNCHANGED <<clientVars, inbox, conn, recordVars, producerVars, target, ended, hurt>>

\* CLIENT_EXIT, or the client has closed the connection
endSession(c) ==
    /\ ppc[c] = "recv"
    /\ \/ toLeader[c] /= <<>> /\ Head(toLeader[c]) = "CLIENT_EXIT"
       \/ toLeader[c] = <<>> /\ conn[c] = "fin"
    /\ ppc' = [ppc EXCEPT ![c] = "bye"]
    /\ toLeader' = [toLeader EXCEPT ![c] = <<>>]
    /\ UNCHANGED <<clientVars, inbox, conn, recordVars, record, pending, target, ended, hurt>>

\* recv fails: the whole leader exits
receiveReset(c) ==
    /\ ppc[c] = "recv" /\ toLeader[c] = <<>> /\ conn[c] = "rst"
    /\ ended' = TRUE
    /\ UNCHANGED <<clientVars, wireVars, recordVars, producerVars, pending, target, hurt>>

\* closeClient
sayBye(c) ==
    /\ ppc[c] = "bye"
    /\ sendRPC(record[c], cmByFields(c, None))
    /\ ppc' = [ppc EXCEPT ![c] = "close"]
    /\ UNCHANGED <<clientVars, toLeader, heap, owner, record, pending, target, hurt>>

closeRecvSock(c) ==
    /\ ppc[c] = "close"
    /\ owner' = [owner EXCEPT ![heap[record[c]].sock] = None]
    /\ conn' = [conn EXCEPT ![c] = "closed"]
    /\ ppc' = [ppc EXCEPT ![c] = "free"]
    /\ UNCHANGED <<clientVars, inbox, toLeader, clientNodes, heap, record, pending,
                   target, ended, hurt>>

\* The number is the first word of the record, which the allocator overwrites.
free(c) ==
    /\ ppc[c] = "free"
    /\ \E id \in {0, Garbage} :
          heap' = [heap EXCEPT ![record[c]].id = id, ![record[c]].used = FALSE]
    /\ ppc' = [ppc EXCEPT ![c] = "done"]
    /\ UNCHANGED <<clientVars, wireVars, clientNodes, owner, record, pending, target, ended, hurt>>

-----------------------------------------------------------------------------
(* The notifier threads.  Which request is committed next is for the other  *)
(* modules to say: here it is any.                                          *)

\* the first record with the number
RecordOf(id) ==
    LET i == SelectInSeq(clientNodes, LAMBDA a : heap[a].id = id)
    IN  IF i = 0 THEN None ELSE clientNodes[i]

\* A request is committed and its client looked up, freed records included; if
\* there is none, nobody is told.
findClient(n) ==
    /\ target[n] = None
    /\ \E c \in Client :
          LET a == RecordOf(pending[c].id) IN
          /\ pending[c].left > 0
          /\ pending' = [pending EXCEPT ![c].left = @ - 1]
          /\ target' = [target EXCEPT ![n] =
                IF a = None THEN None
                ELSE [addr |-> a, message |-> cmByFields(c, pending[c].command)]]
    /\ UNCHANGED <<clientVars, wireVars, recordVars, producerVars, ended, hurt>>

notifyClient(n) ==
    /\ target[n] /= None
    /\ sendRPC(target[n].addr, target[n].message)
    /\ target' = [target EXCEPT ![n] = None]
    /\ UNCHANGED <<clientVars, toLeader, heap, owner, producerVars, pending, hurt>>

-----------------------------------------------------------------------------
client(c) ==
    connect(c) \/ sendCommand(c) \/ receiveCommit(c) \/ sendExit(c) \/ receiveBye(c)

producer(c) ==
    \/ queueCommand(c) \/ endSession(c) \/ receiveReset(c)
    \/ sayBye(c) \/ closeRecvSock(c) \/ free(c)

notifier(n) == findClient(n) \/ notifyClient(n)

\* When the leader has ended, nothing more is of interest.
Next ==
    /\ ~ ended
    /\ \/ \E c \in Client : client(c) \/ kill(c) \/ producer(c)
       \/ \E n \in Notifier : notifier(n)

Spec == Init /\ [][Next]_vars

\* All threads and all clients are scheduled, and nobody has to be interrupted.
\* Which request is committed is up to the rest of the leader, but none is left
\* out for ever: pending shrinks with each.
Fairness ==
    /\ \A c \in Client : WF_vars(~ ended /\ client(c)) /\ WF_vars(~ ended /\ producer(c))
    /\ \A n \in Notifier : WF_vars(~ ended /\ notifier(n))

FairSpec == Spec /\ Fairness

-----------------------------------------------------------------------------
(* Properties *)

Message == [client : Client, command : Nat \cup {None}]

\* What the leader uses of a record.  (The other members serve reads, which no
\* message asks for.)
Record == [id : Nat \cup {Garbage}, sock : Sock \cup {0}, used : BOOLEAN]

TypeOK ==
    /\ cpc \in [Client -> {"out", "send", "wait", "exit", "bye", "left", "killed"}]
    /\ itr \in [Client -> Nat] /\ \A c \in Client : itr[c] <= Batches(c)
    /\ commandId \in [Client -> Nat] /\ commitCount \in [Client -> 0 .. MAX_CLI_REQ]
    /\ used \in [Client -> SUBSET Nat]
    /\ inbox \in [Client -> Seq(Message)]
    /\ toLeader \in [Client -> Seq({"CLIENT_COMMAND", "CLIENT_EXIT"})]
    /\ conn \in [Client -> {"none", "open", "fin", "rst", "closed"}]
    /\ clientNodes \in Seq(Addr)
    /\ heap \in [Addr -> Record]
    /\ owner \in [Sock -> Client \cup {None}]
    /\ ppc \in [Client -> {"none", "recv", "bye", "close", "free", "done"}]
    /\ record \in [Client -> Addr \cup {None}]
    /\ pending \in [Client -> [id : Nat, command : Nat, left : 0 .. MAX_CLI_REQ]]
    /\ target \in [Notifier -> [addr : Addr, message : Message] \cup {None}]
    /\ ended \in BOOLEAN /\ hurt \in BOOLEAN

\* Numbers, memory and sockets are used again, and the list keeps pointers to
\* freed records: all the same, as long as no client goes away with answers to
\* come, every message is sent to the client whose request was committed.
MessagesReachOwner ==
    ~ hurt => \A c \in Client : \A i \in DOMAIN inbox[c] : inbox[c][i].client = c

\* Clients come, go and are interrupted between commands; only one that goes
\* away with answers to come takes the leader with it.
LeaderSurvives == ended => hurt

\* A client with TX_NUM large enough has sent all batches of its input when it
\* leaves, although it goes round and never begins at the first again.
InputCovered ==
    \A c \in Client : cpc[c] = "left" /\ TX_NUM[c] >= Batches(c) =>
        used[c] = 0 .. Batches(c) - 1

\* Unless a client goes away with answers to come, the others get all answers,
\* and the leader says goodbye to every one of them.
EverybodyLeaves ==
    <>(hurt \/ \A c \in Client : cpc[c] \in {"left", "killed"} /\ ppc[c] = "done")
=============================================================================
