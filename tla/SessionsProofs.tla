--------------------------- MODULE SessionsProofs ---------------------------
(***************************************************************************)
(* Proofs about Sessions: its four invariants, for every number of clients *)
(* and notifiers and every input.  The argument:                           *)
(*   - a producer that has not freed its record has one that is in use,    *)
(*     that no other producer has, and a socket number of its own          *)
(*     (RecordsInv);                                                       *)
(*   - the number of a record is its position in the list as long as no    *)
(*     send has failed, and a freed record reads 0 or garbage, so that the *)
(*     search for a number ends at the record of the client that sent it   *)
(*     (Listed, RecordOfClient);                                           *)
(*   - the answers a client has counted, those in its inbox, those a       *)
(*     notifier holds and those not yet committed are together no more     *)
(*     than the client waits for (Waiting).  A client that was not         *)
(*     interrupted with answers to come therefore leaves when nobody sends *)
(*     to it any more, so no send fails and no record leaves the list      *)
(*     (SafeInv).                                                          *)
(* That a client covers its input is a separate invariant (CoveredInv).    *)
(***************************************************************************)
EXTENDS Sessions, FiniteSetTheorems, TLAPS

-----------------------------------------------------------------------------
(* The inductive invariant *)

\* the producer of c has its record
Live(c) == ppc[c] \in {"recv", "bye", "close", "free"}

\* the connection of c has its socket
Connected(c) == ppc[c] \in {"recv", "bye", "close"}

ClientsInv ==
    \A c \in Client :
        /\ cpc[c] = "out" <=> ppc[c] = "none"
        /\ cpc[c] = "wait" => commitCount[c] < MAX_CLI_REQ

\* the record of c is in use and no other's, and so is its socket number
RecordAt(c) ==
    /\ Live(c) =>
          /\ record[c] \in Addr /\ heap[record[c]].used
          /\ heap[record[c]].id \in Nat /\ heap[record[c]].sock \in Sock
    /\ Connected(c) => owner[heap[record[c]].sock] = c
    /\ \A d \in Client : Live(c) /\ Live(d) /\ record[c] = record[d] => c = d

OwnerAt(s) ==
    owner[s] /= None => Connected(owner[s]) /\ heap[record[owner[s]]].sock = s

HeapAt(a) ==
    /\ heap[a].used => \E c \in Client : Live(c) /\ record[c] = a
    /\ ~ heap[a].used => heap[a].id \in {0, Garbage}

RecordsInv ==
    /\ \A c \in Client : RecordAt(c)
    /\ \A s \in Sock : OwnerAt(s)
    /\ \A a \in Addr : HeapAt(a)
    /\ \A i \in DOMAIN clientNodes : heap[clientNodes[i]].sock /= 0
    /\ \A n \in Notifier : target[n] /= None => heap[target[n].addr].sock /= 0

Sending(n, c) == target[n] /= None /\ target[n].message.client = c

Targets(c) == {n \in Notifier : Sending(n, c)}

\* nothing of the last command of c is left
Settled(c) == pending[c].left = 0 /\ \A n \in Notifier : ~ Sending(n, c)

\* between two commands: nothing is on its way
Between(c) ==
    /\ ppc[c] = "recv" /\ conn[c] = "open"
    /\ Len(inbox[c]) = 0 /\ Len(toLeader[c]) = 0 /\ Settled(c)

\* waits for the answers to its command, which is on its way to the producer or
\* has left no more answers than the client still counts
Waiting(c) ==
    /\ ppc[c] = "recv" /\ conn[c] = "open"
    /\ \/ /\ Len(toLeader[c]) = 1 /\ Head(toLeader[c]) = "CLIENT_COMMAND"
          /\ Len(inbox[c]) = 0 /\ Settled(c) /\ commitCount[c] = 0
       \/ /\ Len(toLeader[c]) = 0
          /\ commitCount[c] + Len(inbox[c]) + pending[c].left + Cardinality(Targets(c))
                <= MAX_CLI_REQ

\* waits for the farewell
Leaving(c) ==
    /\ ppc[c] /= "none" /\ Settled(c) /\ Len(inbox[c]) <= 1
    /\ ppc[c] = "recv" => Len(toLeader[c]) = 1 /\ Head(toLeader[c]) = "CLIENT_EXIT"
    /\ ppc[c] /= "recv" => Len(toLeader[c]) = 0
    /\ ppc[c] \in {"recv", "bye"} => Len(inbox[c]) = 0
    /\ conn[c] = IF Connected(c) THEN "open" ELSE "closed"

\* has had it
Left(c) ==
    /\ ppc[c] \in {"close", "free", "done"} /\ Settled(c)
    /\ Len(inbox[c]) = 0 /\ Len(toLeader[c]) = 0
    /\ conn[c] = IF Connected(c) THEN "fin" ELSE "closed"

\* was interrupted between two commands
Killed(c) ==
    /\ ppc[c] /= "none" /\ Settled(c)
    /\ Len(inbox[c]) = 0 /\ Len(toLeader[c]) = 0
    /\ ppc[c] \in {"recv", "bye"} => conn[c] = "fin"
    /\ ppc[c] = "close" => conn[c] \in {"fin", "rst"}
    /\ ~ Connected(c) => conn[c] = "closed"

Phase(c) ==
    /\ cpc[c] = "out" =>
          Len(inbox[c]) = 0 /\ Len(toLeader[c]) = 0 /\ Settled(c) /\ conn[c] = "none"
    /\ cpc[c] \in {"send", "exit"} => Between(c)
    /\ cpc[c] = "wait" => Waiting(c)
    /\ cpc[c] = "bye" => Leaving(c)
    /\ cpc[c] = "left" => Left(c)
    /\ cpc[c] = "killed" => Killed(c)

\* the record of c is where its number says
Listed(c) ==
    LET i == heap[record[c]].id + 1
    IN  Live(c) => i \in DOMAIN clientNodes /\ clientNodes[i] = record[c]

ClientAt(c) ==
    /\ Phase(c) /\ Listed(c)
    /\ pending[c].left > 0 => pending[c].id = heap[record[c]].id
    /\ \A i \in DOMAIN inbox[c] : inbox[c][i].client = c

TargetAt(n) == target[n] /= None => target[n].addr = record[target[n].message.client]

Safe ==
    /\ ~ ended
    /\ \A c \in Client : ClientAt(c)
    /\ \A n \in Notifier : TargetAt(n)

SafeInv == ~ hurt => Safe

CoveredAt(c) ==
    LET B == Batches(c) IN
    /\ cpc[c] = "out" => used[c] = {} /\ commandId[c] = 0 /\ itr[c] = 0
    /\ cpc[c] \in {"send", "wait"} => commandId[c] < TX_NUM[c] /\ itr[c] < B
    /\ cpc[c] \in {"send", "wait"} /\ commandId[c] < B => itr[c] = commandId[c]
    /\ cpc[c] = "send" /\ commandId[c] < B => used[c] = 0 .. commandId[c] - 1
    /\ cpc[c] = "wait" /\ commandId[c] < B => used[c] = 0 .. commandId[c]
    /\ cpc[c] \in {"send", "wait"} /\ commandId[c] >= B => used[c] = 0 .. B - 1
    /\ cpc[c] \in {"exit", "bye", "left"} /\ TX_NUM[c] >= B => used[c] = 0 .. B - 1

CoveredInv == \A c \in Client : CoveredAt(c)

IInv == TypeOK /\ ClientsInv /\ RecordsInv /\ SafeInv /\ CoveredInv

-----------------------------------------------------------------------------
(* Numbers and sequences *)

\* A set of naturals that is not empty has a smallest element.
LEMMA MinIs ==
    ASSUME NEW I, I \subseteq Nat, I /= {}
    PROVE  Min(I) \in I /\ \A k \in I : Min(I) <= k
<1>1. PICK m \in I : TRUE
  OBVIOUS
<1> DEFINE S == 1 .. m
           T == {1 .. k : k \in {j \in I : j <= m}}
<1>2. IsWellFoundedOn(StrictSubsetOrdering(S), FiniteSubsetsOf(S))
  BY FS_StrictSubsetOrderingWellFounded
<1>3. T \subseteq FiniteSubsetsOf(S) /\ T /= {}
  <2>1. \A k \in Nat : IsFiniteSet(1 .. k)
    BY FS_Interval
  <2>2. \A k \in I : k \in Nat
    OBVIOUS
  <2>3. \A k \in I : k <= m => 1 .. k \in SUBSET S
    BY <2>2
  <2>4. m <= m
    BY <2>2
  <2> QED
    BY <2>1, <2>2, <2>3, <2>4 DEF FiniteSubsetsOf
<1>4. PICK x \in T : \A y \in T : <<y, x>> \notin StrictSubsetOrdering(S)
  <2> HIDE DEF T, S
  <2> QED
    BY <1>2, <1>3, WFMin
<1>5. PICK k \in I : k <= m /\ x = 1 .. k
  OBVIOUS
<1>6. \A j \in I : k <= j
  <2> SUFFICES ASSUME NEW j \in I, j < k PROVE FALSE
    OBVIOUS
  <2>1. j <= m /\ 1 .. j \in T
    BY <1>5
  <2>2. 1 .. j \subseteq 1 .. k /\ 1 .. k \subseteq S /\ k \in 1 .. k /\ k \notin 1 .. j
    BY <1>5
  <2>3. <<1 .. j, 1 .. k>> \in StrictSubsetOrdering(S)
    BY <2>2 DEF StrictSubsetOrdering
  <2> QED
    BY <1>4, <1>5, <2>1, <2>3
<1> QED
  BY <1>6 DEF Min

LEMMA BatchesType == \A c \in Client : Batches(c) \in Nat
BY SessionsAssumption DEF Batches

\* What RecordOf finds is in the list and has the number; and it finds something
\* if there is something.
LEMMA RecordOfIs ==
    ASSUME TypeOK, NEW id, NEW i \in DOMAIN clientNodes, heap[clientNodes[i]].id = id
    PROVE  \E k \in DOMAIN clientNodes :
               k <= i /\ RecordOf(id) = clientNodes[k] /\ heap[clientNodes[k]].id = id
<1> DEFINE I == {j \in 1 .. Len(clientNodes) : heap[clientNodes[j]].id = id}
<1>1. DOMAIN clientNodes = 1 .. Len(clientNodes) /\ Len(clientNodes) \in Nat
  BY DEF TypeOK
<1>2. I \subseteq Nat /\ i \in I
  BY <1>1
<1>3. Min(I) \in I /\ Min(I) <= i
  <2> HIDE DEF I
  <2> QED
    BY <1>2, MinIs
<1>4. SelectInSeq(clientNodes, LAMBDA a : heap[a].id = id) = Min(I)
  BY <1>2 DEF SelectInSeq
<1>5. SelectInSeq(clientNodes, LAMBDA a : heap[a].id = id) /= 0
  BY <1>3, <1>4
<1>6. RecordOf(id) = clientNodes[Min(I)]
  BY <1>4, <1>5 DEF RecordOf
<1>7. Min(I) \in DOMAIN clientNodes /\ heap[clientNodes[Min(I)]].id = id
  BY <1>1, <1>3
<1> HIDE DEF I
<1> QED
  BY <1>3, <1>6, <1>7

LEMMA RecordOfType ==
    ASSUME TypeOK, NEW id, RecordOf(id) /= None
    PROVE  \E k \in DOMAIN clientNodes : RecordOf(id) = clientNodes[k]
<1>1. CASE \E i \in DOMAIN clientNodes : heap[clientNodes[i]].id = id
  BY <1>1, RecordOfIs
<1>2. CASE ~ \E i \in DOMAIN clientNodes : heap[clientNodes[i]].id = id
  <2> DEFINE I == {i \in 1 .. Len(clientNodes) : heap[clientNodes[i]].id = id}
  <2>1. I = {}
    BY <1>2 DEF TypeOK
  <2>2. SelectInSeq(clientNodes, LAMBDA a : heap[a].id = id) = 0
    BY <2>1 DEF SelectInSeq
  <2> QED
    BY <2>2 DEF RecordOf
<1> QED
  BY <1>1, <1>2

LEMMA WithoutIs ==
    ASSUME TypeOK, NEW a
    PROVE  /\ Without(a) \in Seq(Addr)
           /\ \A k \in DOMAIN Without(a) : \E j \in DOMAIN clientNodes :
                 Without(a)[k] = clientNodes[j]
<1> DEFINE I == {j \in 1 .. Len(clientNodes) : clientNodes[j] = a}
           i == SelectInSeq(clientNodes, LAMBDA b : b = a)
           left == SubSeq(clientNodes, 1, i - 1)
           right == SubSeq(clientNodes, i + 1, Len(clientNodes))
<1>1. clientNodes \in Seq(Addr) /\ Len(clientNodes) \in Nat
  BY DEF TypeOK
<1>2. i = 0 \/ i \in 1 .. Len(clientNodes)
  <2>1. I /= {} => Min(I) \in I
    <3>1. I \subseteq Nat
      BY <1>1
    <3> HIDE DEF I
    <3> QED
      BY <3>1, MinIs
  <2>2. i = IF I /= {} THEN Min(I) ELSE 0
    BY DEF SelectInSeq
  <2>3. Min(I) \in I => Min(I) \in 1 .. Len(clientNodes)
    OBVIOUS
  <2> HIDE DEF I, i
  <2> QED
    BY <2>1, <2>2, <2>3
<1>3. Without(a) = IF i = 0 THEN clientNodes ELSE left \o right
  BY DEF Without, RemoveAt
<1> HIDE DEF i
<1>4. CASE i = 0
  BY <1>1, <1>3, <1>4
<1>5. CASE i \in 1 .. Len(clientNodes)
  <2>1. /\ left \in Seq(Addr) /\ Len(left) = i - 1
        /\ \A k \in 1 .. i - 1 : left[k] = clientNodes[k]
    BY <1>1, <1>5
  <2>2. /\ right \in Seq(Addr) /\ Len(right) = Len(clientNodes) - i
        /\ \A k \in 1 .. Len(clientNodes) - i : right[k] = clientNodes[i + k]
    BY <1>1, <1>5
  <2> DEFINE n == Len(clientNodes)
             both == left \o right
  <2> HIDE DEF left, right
  <2>3. /\ both \in Seq(Addr) /\ Len(both) = n - 1
        /\ \A k \in 1 .. n - 1 :
              both[k] = IF k <= i - 1 THEN left[k] ELSE right[k - (i - 1)]
    <3>1. left \in Seq(Addr) /\ right \in Seq(Addr)
      BY <2>1, <2>2
    <3>2. /\ both \in Seq(Addr) /\ Len(both) = Len(left) + Len(right)
          /\ \A k \in 1 .. Len(left) + Len(right) :
                both[k] = IF k <= Len(left) THEN left[k] ELSE right[k - Len(left)]
      BY <3>1
    <3> HIDE DEF both
    <3>3. Len(left) = i - 1 /\ Len(left) + Len(right) = n - 1
      BY <1>1, <1>5, <2>1, <2>2
    <3> QED
      BY <3>2, <3>3
  <2>4. Without(a) = both /\ DOMAIN both = 1 .. n - 1 /\ DOMAIN clientNodes = 1 .. n
    BY <1>1, <1>3, <1>5, <2>3
  <2> HIDE DEF both
  <2>5. ASSUME NEW k \in 1 .. n - 1
        PROVE  \E j \in 1 .. n : both[k] = clientNodes[j]
    <3>1. CASE k <= i - 1
      BY <1>1, <1>5, <2>1, <2>3, <3>1
    <3>2. CASE ~ (k <= i - 1)
      <4>1. k - (i - 1) \in 1 .. n - i /\ k + 1 \in 1 .. n
        BY <1>1, <1>5, <3>2
      <4>2. right[k - (i - 1)] = clientNodes[i + (k - (i - 1))]
        BY <2>2, <4>1
      <4>3. i + (k - (i - 1)) = k + 1
        BY <1>1, <1>5
      <4> QED
        BY <2>3, <3>2, <4>1, <4>2, <4>3
    <3> QED
      BY <3>1, <3>2
  <2> QED
    BY <2>3, <2>4, <2>5
<1> QED
  BY <1>2, <1>4, <1>5

\* There are as many socket numbers as clients: one that is not connected finds
\* a free one.
LEMMA FreeSocket ==
    ASSUME TypeOK, RecordsInv, NEW c \in Client, ~ Connected(c)
    PROVE  /\ Min({t \in Sock : owner[t] = None}) \in Sock
           /\ owner[Min({t \in Sock : owner[t] = None})] = None
<1> DEFINE F == {t \in Sock : owner[t] = None}
           D == Client \ {c}
<1>1. F /= {}
  <2> SUFFICES ASSUME F = {} PROVE FALSE
    OBVIOUS
  <2>1. \A s \in Sock : owner[s] \in Client /\ owner[s] /= None
    BY DEF TypeOK
  <2>2. \A s \in Sock : Connected(owner[s]) /\ heap[record[owner[s]]].sock = s
    BY <2>1 DEF RecordsInv, OwnerAt
  <2>3. \A s \in Sock : owner[s] \in D
    BY <2>1, <2>2
  <2>4. \A s, t \in Sock : owner[s] = owner[t] => s = t
    BY <2>2
  <2>5. owner \in [Sock -> D]
    BY <2>3 DEF TypeOK
  <2>6. owner \in Injection(Sock, D)
    BY <2>4, <2>5 DEF Injection, IsInjective
  <2>7. IsFiniteSet(D) /\ Cardinality(D) = Cardinality(Client) - 1 /\ Cardinality(Client) \in Nat
    BY SessionsAssumption, FS_RemoveElement, FS_CardinalityType
  <2>8. Cardinality(Sock) <= Cardinality(D)
    BY <2>6, <2>7, FS_Injection
  <2>9. Cardinality(Sock) = Cardinality(Client)
    BY <2>7, FS_Interval DEF Sock
  <2> QED
    BY <2>7, <2>8, <2>9
<1>2. F \subseteq Nat
  BY DEF Sock
<1>3. Min(F) \in F
  BY <1>1, <1>2, MinIs
<1> QED
  BY <1>3

-----------------------------------------------------------------------------
(* Types *)

\* What the leader's sendRPC does: it fails and shortens the list, or the owner
\* of the socket may get the message.
LEMMA SendRPCIs ==
    ASSUME TypeOK, NEW a \in Addr, heap[a].sock \in Sock, NEW m \in Message, sendRPC(a, m)
    PROVE  LET c == owner[heap[a].sock] IN
           \/ /\ c = None \/ conn[c] = "rst"
              /\ clientNodes' = Without(a) /\ ended' = ~ heap[a].used
              /\ inbox' = inbox /\ conn' = conn
           \/ /\ c \in Client /\ conn[c] /= "rst"
              /\ inbox' = [inbox EXCEPT ![c] = IF conn[c] = "open" THEN Append(@, m) ELSE @]
              /\ conn' = [conn EXCEPT ![c] = IF @ = "fin" THEN "rst" ELSE @]
              /\ clientNodes' = clientNodes /\ ended' = ended
BY SessionsAssumption DEF TypeOK, sendRPC

LEMMA SendRPCType ==
    ASSUME TypeOK, NEW a \in Addr, heap[a].sock \in Sock, NEW m \in Message, sendRPC(a, m)
    PROVE  /\ clientNodes' \in Seq(Addr) /\ ended' \in BOOLEAN
           /\ inbox' \in [Client -> Seq(Message)]
           /\ conn' \in [Client -> {"none", "open", "fin", "rst", "closed"}]
<1> DEFINE c == owner[heap[a].sock]
<1>1. CASE /\ c = None \/ conn[c] = "rst"
           /\ clientNodes' = Without(a) /\ ended' = ~ heap[a].used
           /\ inbox' = inbox /\ conn' = conn
  <2>1. Without(a) \in Seq(Addr)
    BY WithoutIs
  <2>2. heap[a].used \in BOOLEAN
    BY DEF TypeOK, Record
  <2> QED
    BY <1>1, <2>1, <2>2 DEF TypeOK
<1>2. CASE /\ c \in Client /\ conn[c] /= "rst"
           /\ inbox' = [inbox EXCEPT ![c] = IF conn[c] = "open" THEN Append(@, m) ELSE @]
           /\ conn' = [conn EXCEPT ![c] = IF @ = "fin" THEN "rst" ELSE @]
           /\ clientNodes' = clientNodes /\ ended' = ended
  <2>1. clientNodes' \in Seq(Addr) /\ ended' \in BOOLEAN
    BY <1>2 DEF TypeOK
  <2>2. Append(inbox[c], m) \in Seq(Message) /\ inbox[c] \in Seq(Message)
    BY <1>2 DEF TypeOK
  <2>3. inbox' \in [Client -> Seq(Message)]
    BY <1>2, <2>2 DEF TypeOK
  <2>4. conn' \in [Client -> {"none", "open", "fin", "rst", "closed"}]
    BY <1>2 DEF TypeOK
  <2> QED
    BY <2>1, <2>3, <2>4
<1> QED
  BY <1>1, <1>2, SendRPCIs

LEMMA InitType == Init => TypeOK
<1> SUFFICES ASSUME Init PROVE TypeOK
  OBVIOUS
<1>1. \A c \in Client : Batches(c) \in Nat
  BY BatchesType
<1>2. MAX_CLI_REQ \in Nat \ {0}
  BY SessionsAssumption
<1>3. inbox \in [Client -> Seq(Message)] /\ clientNodes \in Seq(Addr)
  BY DEF Init, PerClient
<1>4. toLeader \in [Client -> Seq({"CLIENT_COMMAND", "CLIENT_EXIT"})]
  BY DEF Init, PerClient
<1>5. heap \in [Addr -> Record] /\ owner \in [Sock -> Client \cup {None}]
      /\ record \in [Client -> Addr \cup {None}]
      /\ target \in [Notifier -> [addr : Addr, message : Message] \cup {None}]
  BY DEF Init, PerClient, Record
<1>6. /\ cpc \in [Client -> {"out", "send", "wait", "exit", "bye", "left", "killed"}]
      /\ conn \in [Client -> {"none", "open", "fin", "rst", "closed"}]
      /\ ppc \in [Client -> {"none", "recv", "bye", "close", "free", "done"}]
      /\ ended \in BOOLEAN /\ hurt \in BOOLEAN
  BY DEF Init, PerClient
<1>7. /\ itr \in [Client -> Nat] /\ \A c \in Client : itr[c] <= Batches(c)
      /\ commandId \in [Client -> Nat] /\ commitCount \in [Client -> 0 .. MAX_CLI_REQ]
      /\ used \in [Client -> SUBSET Nat]
      /\ pending \in [Client -> [id : Nat, command : Nat, left : 0 .. MAX_CLI_REQ]]
  BY <1>1, <1>2 DEF Init, PerClient
<1> QED
  BY <1>3, <1>4, <1>5, <1>6, <1>7 DEF TypeOK

LEMMA connectType ==
    ASSUME TypeOK, ClientsInv, RecordsInv, NEW c \in Client, connect(c)
    PROVE  TypeOK'
<1> DEFINE s == Min({t \in Sock : owner[t] = None})
<1>1. s \in Sock /\ owner[s] = None
  BY FreeSocket DEF connect, ClientsInv, Connected
<1>2. PICK a \in Addr : /\ heap' = [heap EXCEPT ![a] = ClientNode(NextId, s)]
                        /\ clientNodes' = Append(clientNodes, a)
                        /\ record' = [record EXCEPT ![c] = a]
  BY DEF connect
<1>3. owner' = [owner EXCEPT ![s] = c]
  BY DEF connect
<1> HIDE DEF s
<1>4. clientNodes' \in Seq(Addr) /\ NextId \in Nat
  BY <1>2 DEF TypeOK, NextId
<1>5. heap' \in [Addr -> Record]
  <2>1. ClientNode(NextId, s) \in Record
    BY <1>1, <1>4 DEF ClientNode, Record
  <2> QED
    BY <1>2, <2>1 DEF TypeOK
<1>6. owner' \in [Sock -> Client \cup {None}] /\ record' \in [Client -> Addr \cup {None}]
  BY <1>1, <1>2, <1>3 DEF TypeOK
<1>7. /\ conn' \in [Client -> {"none", "open", "fin", "rst", "closed"}]
      /\ ppc' \in [Client -> {"none", "recv", "bye", "close", "free", "done"}]
      /\ cpc' \in [Client -> {"out", "send", "wait", "exit", "bye", "left", "killed"}]
  BY DEF connect, TypeOK
<1> QED
  BY <1>4, <1>5, <1>6, <1>7 DEF connect, TypeOK

LEMMA sendCommandType ==
    ASSUME TypeOK, NEW c \in Client, sendCommand(c)
    PROVE  TypeOK'
<1>1. Append(toLeader[c], "CLIENT_COMMAND") \in Seq({"CLIENT_COMMAND", "CLIENT_EXIT"})
  BY DEF TypeOK
<1>2. toLeader' \in [Client -> Seq({"CLIENT_COMMAND", "CLIENT_EXIT"})]
  BY <1>1 DEF sendCommand, send, TypeOK
<1>3. used' \in [Client -> SUBSET Nat] /\ commitCount' \in [Client -> 0 .. MAX_CLI_REQ]
  BY SessionsAssumption DEF sendCommand, TypeOK
<1>4. cpc' \in [Client -> {"out", "send", "wait", "exit", "bye", "left", "killed"}]
  BY DEF sendCommand, TypeOK
<1> QED
  BY <1>2, <1>3, <1>4 DEF sendCommand, TypeOK, recordVars, producerVars

LEMMA NextBatchType ==
    ASSUME TypeOK, CoveredInv, NEW c \in Client, cpc[c] = "wait"
    PROVE  NextBatch(c) \in Nat /\ NextBatch(c) <= Batches(c)
<1>1. itr[c] \in Nat /\ itr[c] < Batches(c) /\ Batches(c) \in Nat
  BY BatchesType DEF TypeOK, CoveredInv, CoveredAt
<1> QED
  BY <1>1 DEF NextBatch

LEMMA receiveCommitType ==
    ASSUME TypeOK, ClientsInv, CoveredInv, NEW c \in Client, receiveCommit(c)
    PROVE  TypeOK'
<1> DEFINE count == commitCount[c] + (IF Head(inbox[c]).command = commandId[c] THEN 1 ELSE 0)
<1>1. count \in 0 .. MAX_CLI_REQ
  <2>1. commitCount[c] < MAX_CLI_REQ /\ commitCount[c] \in Nat /\ MAX_CLI_REQ \in Nat
    BY SessionsAssumption DEF receiveCommit, ClientsInv, TypeOK
  <2> QED
    BY <2>1
<1>2. Tail(inbox[c]) \in Seq(Message)
  BY DEF TypeOK, receiveCommit
<1>3. inbox' \in [Client -> Seq(Message)]
  BY <1>2 DEF TypeOK, receiveCommit
<1>4. commitCount' = [commitCount EXCEPT ![c] = count]
  BY DEF receiveCommit
<1>5. commitCount' \in [Client -> 0 .. MAX_CLI_REQ]
  BY <1>1, <1>4 DEF TypeOK
<1>6. /\ commandId' \in [Client -> Nat] /\ itr' \in [Client -> Nat]
      /\ \A d \in Client : itr'[d] <= Batches(d)
      /\ cpc' \in [Client -> {"out", "send", "wait", "exit", "bye", "left", "killed"}]
  <2>1. CASE AllCommitted(count)
    <3>1. /\ commandId' = [commandId EXCEPT ![c] = @ + 1]
          /\ itr' = [itr EXCEPT ![c] = NextBatch(c)]
          /\ \E v \in {"exit", "send"} : cpc' = [cpc EXCEPT ![c] = v]
      BY <2>1 DEF receiveCommit
    <3>2. NextBatch(c) \in Nat /\ NextBatch(c) <= Batches(c)
      BY NextBatchType DEF receiveCommit
    <3> QED
      BY <3>1, <3>2 DEF TypeOK
  <2>2. CASE ~ AllCommitted(count)
    <3>1. UNCHANGED <<commandId, itr, cpc>>
      BY <2>2 DEF receiveCommit
    <3> QED
      BY <3>1 DEF TypeOK
  <2> QED
    BY <2>1, <2>2
<1> QED
  BY <1>3, <1>5, <1>6 DEF receiveCommit, TypeOK, recordVars, producerVars, Batches

LEMMA sendExitType ==
    ASSUME TypeOK, NEW c \in Client, sendExit(c)
    PROVE  TypeOK'
<1>1. Append(toLeader[c], "CLIENT_EXIT") \in Seq({"CLIENT_COMMAND", "CLIENT_EXIT"})
  BY DEF TypeOK
<1>2. toLeader' \in [Client -> Seq({"CLIENT_COMMAND", "CLIENT_EXIT"})]
  BY <1>1 DEF sendExit, send, TypeOK
<1>3. cpc' \in [Client -> {"out", "send", "wait", "exit", "bye", "left", "killed"}]
  BY DEF sendExit, TypeOK
<1> QED
  BY <1>2, <1>3 DEF sendExit, TypeOK, recordVars, producerVars

LEMMA HangupType ==
    ASSUME TypeOK, NEW c \in Client, Hangup(c)
    PROVE  conn' \in [Client -> {"none", "open", "fin", "rst", "closed"}]
<1>1. PICK v \in {"none", "open", "fin", "rst", "closed"} : conn' = [conn EXCEPT ![c] = v]
  BY DEF Hangup, TypeOK
<1> QED
  BY <1>1 DEF TypeOK

LEMMA receiveByeType ==
    ASSUME TypeOK, NEW c \in Client, receiveBye(c)
    PROVE  TypeOK'
<1>1. Tail(inbox[c]) \in Seq(Message)
  BY DEF TypeOK, receiveBye
<1>2. inbox' \in [Client -> Seq(Message)]
  BY <1>1 DEF TypeOK, receiveBye
<1>3. cpc' \in [Client -> {"out", "send", "wait", "exit", "bye", "left", "killed"}]
  BY DEF receiveBye, TypeOK
<1>4. conn' \in [Client -> {"none", "open", "fin", "rst", "closed"}]
  BY HangupType DEF receiveBye
<1> QED
  BY <1>2, <1>3, <1>4 DEF receiveBye, TypeOK, recordVars, producerVars

LEMMA killType ==
    ASSUME TypeOK, NEW c \in Client, kill(c)
    PROVE  TypeOK'
<1>1. cpc' \in [Client -> {"out", "send", "wait", "exit", "bye", "left", "killed"}]
  BY DEF kill, TypeOK
<1>2. conn' \in [Client -> {"none", "open", "fin", "rst", "closed"}]
  BY HangupType DEF kill
<1>3. hurt' \in BOOLEAN
  BY DEF kill, TypeOK
<1> QED
  BY <1>1, <1>2, <1>3 DEF kill, TypeOK, recordVars, producerVars

LEMMA TailType ==
    ASSUME TypeOK, NEW c \in Client, toLeader' = [toLeader EXCEPT ![c] = Tail(@)],
           Len(toLeader[c]) /= 0
    PROVE  toLeader' \in [Client -> Seq({"CLIENT_COMMAND", "CLIENT_EXIT"})]
<1>1. Tail(toLeader[c]) \in Seq({"CLIENT_COMMAND", "CLIENT_EXIT"})
  BY DEF TypeOK
<1> QED
  BY <1>1 DEF TypeOK

LEMMA queueCommandType ==
    ASSUME TypeOK, RecordsInv, NEW c \in Client, queueCommand(c)
    PROVE  TypeOK'
<1>1. Len(toLeader[c]) /= 0
  BY DEF queueCommand, TypeOK
<1>2. toLeader' \in [Client -> Seq({"CLIENT_COMMAND", "CLIENT_EXIT"})]
  BY <1>1, TailType DEF queueCommand
<1>3. heap[record[c]].id \in Nat
  BY DEF queueCommand, RecordsInv, RecordAt, Live
<1>4. pending' \in [Client -> [id : Nat, command : Nat, left : 0 .. MAX_CLI_REQ]]
  <2> DEFINE p == [id |-> heap[record[c]].id, command |-> commandId[c], left |-> MAX_CLI_REQ]
  <2>1. p \in [id : Nat, command : Nat, left : 0 .. MAX_CLI_REQ]
    BY <1>3, SessionsAssumption DEF TypeOK
  <2>2. pending' = [pending EXCEPT ![c] = p]
    BY DEF queueCommand
  <2> HIDE DEF p
  <2> QED
    BY <2>1, <2>2 DEF TypeOK
<1> QED
  BY <1>2, <1>4 DEF queueCommand, TypeOK, clientVars, recordVars, producerVars

LEMMA endSessionType ==
    ASSUME TypeOK, NEW c \in Client, endSession(c)
    PROVE  TypeOK'
<1>1. toLeader' \in [Client -> Seq({"CLIENT_COMMAND", "CLIENT_EXIT"})]
  BY DEF endSession, TypeOK
<1>2. ppc' \in [Client -> {"none", "recv", "bye", "close", "free", "done"}]
  BY DEF endSession, TypeOK
<1> QED
  BY <1>1, <1>2 DEF endSession, TypeOK, clientVars, recordVars

LEMMA receiveResetType ==
    ASSUME TypeOK, NEW c \in Client, receiveReset(c)
    PROVE  TypeOK'
BY DEF receiveReset, TypeOK, clientVars, wireVars, recordVars, producerVars

LEMMA sayByeType ==
    ASSUME TypeOK, RecordsInv, NEW c \in Client, sayBye(c)
    PROVE  TypeOK'
<1> DEFINE m == cmByFields(c, None)
<1>1. record[c] \in Addr /\ heap[record[c]].sock \in Sock
  BY DEF sayBye, RecordsInv, RecordAt, Live
<1>2. m \in Message
  BY DEF cmByFields, Message
<1>3. sendRPC(record[c], m)
  BY DEF sayBye
<1> HIDE DEF m
<1>4. /\ clientNodes' \in Seq(Addr) /\ ended' \in BOOLEAN
      /\ inbox' \in [Client -> Seq(Message)]
      /\ conn' \in [Client -> {"none", "open", "fin", "rst", "closed"}]
  BY <1>1, <1>2, <1>3, SendRPCType
<1>5. ppc' \in [Client -> {"none", "recv", "bye", "close", "free", "done"}]
  BY DEF sayBye, TypeOK
<1> QED
  BY <1>4, <1>5 DEF sayBye, TypeOK, clientVars

LEMMA closeRecvSockType ==
    ASSUME TypeOK, NEW c \in Client, closeRecvSock(c)
    PROVE  TypeOK'
<1>1. /\ owner' \in [Sock -> Client \cup {None}]
      /\ conn' \in [Client -> {"none", "open", "fin", "rst", "closed"}]
      /\ ppc' \in [Client -> {"none", "recv", "bye", "close", "free", "done"}]
  BY DEF closeRecvSock, TypeOK
<1> QED
  BY <1>1 DEF closeRecvSock, TypeOK, clientVars

LEMMA UpdateType ==
    ASSUME NEW I, NEW S, NEW B, NEW j \in I, NEW v \in B, NEW h \in [id : I, sock: S, used: B]
    PROVE  [h EXCEPT !.id = j, !.used = v] \in [id : I, sock: S, used: B]
OBVIOUS

\* What free does to the memory.
LEMMA freeIs ==
    ASSUME TypeOK, RecordsInv, NEW c \in Client, free(c)
    PROVE  /\ record[c] \in Addr /\ heap' \in [Addr -> Record]
           /\ heap'[record[c]].id \in {0, Garbage} /\ ~ heap'[record[c]].used
           /\ heap'[record[c]].sock = heap[record[c]].sock
           /\ \A a \in Addr \ {record[c]} : heap'[a] = heap[a]
<1> DEFINE a == record[c]
<1>1. a \in Addr
  BY DEF free, RecordsInv, RecordAt, Live
<1>2. PICK id \in {0, Garbage} :
        heap' = [heap EXCEPT ![a].id = id, ![a].used = FALSE]
  BY DEF free
<1>3. heap[a] \in Record
  BY <1>1 DEF TypeOK
<1> HIDE DEF a
<1> DEFINE r == [heap[a] EXCEPT !.id = id, !.used = FALSE]
<1>4. r \in Record /\ r.id = id /\ ~ r.used /\ r.sock = heap[a].sock
  <2>1. FALSE \in BOOLEAN /\ id \in Nat \cup {Garbage}
    OBVIOUS
  <2>2. r \in Record
    BY <1>3, <2>1, UpdateType DEF Record
  <2>3. r.id = id /\ r.sock = heap[a].sock
    BY <1>3 DEF Record
  <2>4. ~ r.used
    BY <1>3 DEF Record
  <2> QED
    BY <2>2, <2>3, <2>4
<1>5. heap' = [heap EXCEPT ![a] = r]
  BY <1>1, <1>2 DEF TypeOK
<1> HIDE DEF r
<1>6. heap' \in [Addr -> Record] /\ heap'[a] = r /\ \A b \in Addr \ {a} : heap'[b] = heap[b]
  BY <1>1, <1>4, <1>5 DEF TypeOK
<1> QED
  BY <1>1, <1>4, <1>6 DEF a

LEMMA freeType ==
    ASSUME TypeOK, RecordsInv, NEW c \in Client, free(c)
    PROVE  TypeOK'
<1>1. heap' \in [Addr -> Record]
  BY freeIs
<1>2. ppc' \in [Client -> {"none", "recv", "bye", "close", "free", "done"}]
  BY DEF free, TypeOK
<1> QED
  BY <1>1, <1>2 DEF free, TypeOK, clientVars, wireVars

\* What findClient does: one request of one client is no longer pending.
LEMMA findClientIs ==
    ASSUME TypeOK, NEW n \in Notifier, findClient(n)
    PROVE  \E c \in Client :
              /\ pending[c].left \in Nat \ {0}
              /\ pending' \in [Client -> [id : Nat, command : Nat, left : 0 .. MAX_CLI_REQ]]
              /\ pending'[c].left = pending[c].left - 1 /\ pending'[c].id = pending[c].id
              /\ \A d \in Client \ {c} : pending'[d] = pending[d]
              /\ target[n] = None
              /\ target' = [target EXCEPT ![n] =
                    IF RecordOf(pending[c].id) = None THEN None
                    ELSE [addr |-> RecordOf(pending[c].id),
                          message |-> cmByFields(c, pending[c].command)]]
<1>1. PICK c \in Client :
          /\ pending[c].left > 0
          /\ pending' = [pending EXCEPT ![c].left = @ - 1]
          /\ target' = [target EXCEPT ![n] =
                IF RecordOf(pending[c].id) = None THEN None
                ELSE [addr |-> RecordOf(pending[c].id),
                      message |-> cmByFields(c, pending[c].command)]]
  BY DEF findClient
<1>2. pending[c] \in [id : Nat, command : Nat, left : 0 .. MAX_CLI_REQ] /\ MAX_CLI_REQ \in Nat
  BY SessionsAssumption DEF TypeOK
<1> DEFINE p == [pending[c] EXCEPT !.left = @ - 1]
<1>3. /\ p \in [id : Nat, command : Nat, left : 0 .. MAX_CLI_REQ]
      /\ p.left = pending[c].left - 1 /\ p.id = pending[c].id
      /\ pending[c].left \in Nat \ {0}
  BY <1>1, <1>2
<1>4. pending' = [pending EXCEPT ![c] = p]
  BY <1>1 DEF TypeOK
<1> HIDE DEF p
<1>5. /\ pending' \in [Client -> [id : Nat, command : Nat, left : 0 .. MAX_CLI_REQ]]
      /\ pending'[c] = p /\ \A d \in Client \ {c} : pending'[d] = pending[d]
  BY <1>3, <1>4 DEF TypeOK
<1>6. target[n] = None
  BY DEF findClient
<1> QED
  BY <1>1, <1>3, <1>5, <1>6

LEMMA findClientType ==
    ASSUME TypeOK, NEW n \in Notifier, findClient(n)
    PROVE  TypeOK'
<1>1. PICK c \in Client :
          /\ pending' \in [Client -> [id : Nat, command : Nat, left : 0 .. MAX_CLI_REQ]]
          /\ target' = [target EXCEPT ![n] =
                IF RecordOf(pending[c].id) = None THEN None
                ELSE [addr |-> RecordOf(pending[c].id),
                      message |-> cmByFields(c, pending[c].command)]]
  BY findClientIs
<1>2. RecordOf(pending[c].id) \in Addr \cup {None}
  <2>1. \A k \in DOMAIN clientNodes : clientNodes[k] \in Addr
    BY DEF TypeOK
  <2> QED
    BY <2>1, RecordOfType
<1>3. cmByFields(c, pending[c].command) \in Message
  BY DEF cmByFields, Message, TypeOK
<1>4. target' \in [Notifier -> [addr : Addr, message : Message] \cup {None}]
  BY <1>1, <1>2, <1>3 DEF TypeOK
<1> QED
  BY <1>1, <1>4 DEF findClient, TypeOK, clientVars, wireVars, recordVars, producerVars

LEMMA notifyClientType ==
    ASSUME TypeOK, RecordsInv, NEW n \in Notifier, notifyClient(n)
    PROVE  TypeOK'
<1>1. target[n] \in [addr : Addr, message : Message] /\ target[n] /= None
  BY DEF notifyClient, TypeOK
<1>2. target[n].addr \in Addr /\ target[n].message \in Message
  BY <1>1
<1>3. heap[target[n].addr].sock \in Sock
  BY <1>1, <1>2 DEF RecordsInv, TypeOK, Record
<1>4. /\ clientNodes' \in Seq(Addr) /\ ended' \in BOOLEAN
      /\ inbox' \in [Client -> Seq(Message)]
      /\ conn' \in [Client -> {"none", "open", "fin", "rst", "closed"}]
  BY <1>2, <1>3, SendRPCType DEF notifyClient
<1>5. target' \in [Notifier -> [addr : Addr, message : Message] \cup {None}]
  BY DEF notifyClient, TypeOK
<1> QED
  BY <1>4, <1>5 DEF notifyClient, TypeOK, clientVars, producerVars

-----------------------------------------------------------------------------
(* The client's way through its input *)

LEMMA CoveredSame ==
    ASSUME NEW c \in Client, CoveredAt(c), cpc'[c] = cpc[c], itr'[c] = itr[c],
           commandId'[c] = commandId[c], used'[c] = used[c]
    PROVE  CoveredAt(c)'
BY DEF CoveredAt, Batches

LEMMA InitCovered == Init => CoveredInv
BY DEF Init, PerClient, CoveredInv, CoveredAt

LEMMA connectCovered ==
    ASSUME TypeOK, NEW c \in Client, connect(c), CoveredAt(c)
    PROVE  CoveredAt(c)'
<1>1. /\ cpc[c] = "out" /\ cpc'[c] = IF Batches(c) = 0 THEN "exit" ELSE "send"
      /\ itr'[c] = itr[c] /\ commandId'[c] = commandId[c] /\ used'[c] = used[c]
  BY DEF connect, TypeOK
<1>2. itr[c] = 0 /\ commandId[c] = 0 /\ used[c] = {}
  BY <1>1 DEF CoveredAt
<1>3. Batches(c) \in Nat /\ TX_NUM[c] \in Nat \ {0} /\ Batches(c)' = Batches(c)
  BY BatchesType, SessionsAssumption DEF Batches
<1>4. 0 .. (0 - 1) = {}
  OBVIOUS
<1> QED
  BY <1>1, <1>2, <1>3, <1>4 DEF CoveredAt

LEMMA sendCommandCovered ==
    ASSUME TypeOK, NEW c \in Client, sendCommand(c), CoveredAt(c)
    PROVE  CoveredAt(c)'
<1> DEFINE B == Batches(c)
           k == commandId[c]
<1>1. /\ cpc[c] = "send" /\ cpc'[c] = "wait" /\ itr'[c] = itr[c]
      /\ commandId'[c] = k /\ used'[c] = used[c] \cup {itr[c]}
  BY DEF sendCommand, TypeOK
<1>2. B \in Nat /\ Batches(c)' = B /\ k \in Nat /\ itr[c] \in Nat
  BY BatchesType DEF Batches, TypeOK
<1>3. k < TX_NUM[c] /\ itr[c] < B
  BY <1>1 DEF CoveredAt
<1>4. CASE k < B
  <2>1. itr[c] = k /\ used[c] = 0 .. k - 1
    BY <1>1, <1>4 DEF CoveredAt
  <2>2. (0 .. k - 1) \cup {k} = 0 .. k
    BY <1>2
  <2>3. used'[c] = 0 .. k
    BY <1>1, <2>1, <2>2
  <2> HIDE DEF B, k
  <2>4. ~ (k >= B)
    BY <1>2, <1>4
  <2> QED
    BY <1>1, <1>2, <1>3, <1>4, <2>1, <2>3, <2>4 DEF CoveredAt
<1>5. CASE k >= B
  <2>1. used[c] = 0 .. B - 1
    BY <1>1, <1>5 DEF CoveredAt
  <2>2. (0 .. B - 1) \cup {itr[c]} = 0 .. B - 1
    BY <1>2, <1>3
  <2>3. used'[c] = 0 .. B - 1
    BY <1>1, <2>1, <2>2
  <2> HIDE DEF B, k
  <2>4. ~ (k < B)
    BY <1>2, <1>5
  <2> QED
    BY <1>1, <1>2, <1>3, <1>5, <2>3, <2>4 DEF CoveredAt
<1> QED
  BY <1>2, <1>4, <1>5

LEMMA receiveCommitCovered ==
    ASSUME TypeOK, NEW c \in Client, receiveCommit(c), CoveredAt(c)
    PROVE  CoveredAt(c)'
<1> DEFINE count == commitCount[c] + (IF Head(inbox[c]).command = commandId[c] THEN 1 ELSE 0)
           B == Batches(c)
           k == commandId[c]
           i == itr[c]
           N == TX_NUM[c]
<1>1. /\ cpc[c] = "wait" /\ used'[c] = used[c]
  BY DEF receiveCommit
<1>2. B \in Nat /\ Batches(c)' = B /\ k \in Nat /\ i \in Nat /\ N \in Nat
  BY BatchesType, SessionsAssumption DEF Batches, TypeOK
<1>3. /\ k < N /\ i < B
      /\ k < B => i = k /\ used[c] = 0 .. k
      /\ k >= B => used[c] = 0 .. B - 1
  BY <1>1 DEF CoveredAt
<1>4. CASE AllCommitted(count)
  <2>1. /\ commandId'[c] = k + 1 /\ itr'[c] = NextBatch(c)
        /\ cpc'[c] = IF k + 1 = N \/ NextBatch(c) = B THEN "exit" ELSE "send"
    BY <1>4 DEF receiveCommit, TypeOK
  <2>2. NextBatch(c) = IF i = B - 1 THEN 1 ELSE i + 1
    BY DEF NextBatch
  <2> DEFINE u == used[c]
             next == NextBatch(c)
  <2> HIDE DEF B, k, i, N, u, next, count
  <2>3. k + 1 >= B => u = 0 .. B - 1
    <3>1. CASE k >= B
      BY <1>3, <3>1 DEF u
    <3>2. CASE ~ (k >= B)
      <4>1. k + 1 >= B => k = B - 1
        BY <1>2, <3>2
      <4>2. k < B
        BY <1>2, <3>2
      <4> QED
        BY <1>3, <4>1, <4>2 DEF u
    <3> QED
      BY <3>1, <3>2
  <2>4. CASE k + 1 = N \/ next = B
    <3>1. cpc'[c] = "exit"
      BY <2>1, <2>4 DEF next
    <3>2. N >= B => k + 1 >= B
      <4>1. CASE k + 1 = N
        BY <4>1
      <4>2. CASE next = B
        <5>1. i = B - 1
          BY <1>2, <1>3, <2>2, <4>2 DEF next
        <5>2. k < B => k + 1 = B
          BY <1>2, <1>3, <5>1
        <5> QED
          BY <1>2, <5>2
      <4> QED
        BY <2>4, <4>1, <4>2
    <3> QED
      BY <1>1, <1>2, <2>1, <2>3, <3>1, <3>2 DEF CoveredAt, u, N
  <2>5. CASE ~ (k + 1 = N \/ next = B)
    <3>1. cpc'[c] = "send" /\ itr'[c] = next /\ commandId'[c] = k + 1
      BY <2>1, <2>5 DEF next
    <3>2. k + 1 < N /\ next < B
      BY <1>2, <1>3, <2>2, <2>5 DEF next
    <3>3. k + 1 < B => next = k + 1 /\ u = 0 .. (k + 1) - 1
      <4>1. SUFFICES ASSUME k + 1 < B PROVE next = k + 1 /\ u = 0 .. (k + 1) - 1
        OBVIOUS
      <4>2. k < B /\ i /= B - 1 /\ i = k
        BY <1>2, <1>3, <4>1
      <4>3. (k + 1) - 1 = k
        BY <1>2
      <4> QED
        BY <1>3, <2>2, <4>2, <4>3 DEF next, u
    <3> QED
      BY <1>1, <1>2, <2>3, <3>1, <3>2, <3>3 DEF CoveredAt, u, N
  <2> QED
    BY <2>4, <2>5
<1>5. CASE ~ AllCommitted(count)
  <2>1. itr' = itr /\ commandId' = commandId /\ cpc' = cpc
    BY <1>5 DEF receiveCommit
  <2> QED
    BY <1>1, <2>1, CoveredSame
<1> QED
  BY <1>4, <1>5

LEMMA leaveCovered ==
    ASSUME TypeOK, NEW c \in Client, sendExit(c) \/ receiveBye(c) \/ kill(c), CoveredAt(c)
    PROVE  CoveredAt(c)'
<1>1. itr'[c] = itr[c] /\ commandId'[c] = commandId[c] /\ used'[c] = used[c]
  BY DEF sendExit, receiveBye, kill
<1>2. \/ cpc[c] = "exit" /\ cpc'[c] = "bye"
      \/ cpc[c] = "bye" /\ cpc'[c] = "left"
      \/ cpc'[c] = "killed"
  BY DEF sendExit, receiveBye, kill, TypeOK
<1> QED
  BY <1>1, <1>2 DEF CoveredAt, Batches

\* the actions of a client change nobody else's
LEMMA OtherClients ==
    ASSUME TypeOK, NEW c \in Client, client(c) \/ kill(c), NEW d \in Client \ {c}
    PROVE  /\ cpc'[d] = cpc[d] /\ itr'[d] = itr[d] /\ commandId'[d] = commandId[d]
           /\ commitCount'[d] = commitCount[d] /\ used'[d] = used[d]
<1>1. CASE connect(c)
  BY <1>1 DEF connect, TypeOK
<1>2. CASE sendCommand(c)
  BY <1>2 DEF sendCommand, TypeOK
<1>3. CASE receiveCommit(c)
  BY <1>3 DEF receiveCommit, TypeOK
<1>4. CASE sendExit(c)
  BY <1>4 DEF sendExit, TypeOK
<1>5. CASE receiveBye(c)
  BY <1>5 DEF receiveBye, TypeOK
<1>6. CASE kill(c)
  BY <1>6 DEF kill, TypeOK
<1> QED
  BY <1>1, <1>2, <1>3, <1>4, <1>5, <1>6, Zenon DEF client

\* the threads of the leader leave the clients' variables alone
LEMMA LeaderSteps ==
    ASSUME Next
    PROVE  \/ \E c \in Client : client(c) \/ kill(c)
           \/ UNCHANGED clientVars
<1>1. ASSUME NEW c \in Client, producer(c) PROVE UNCHANGED clientVars
  BY <1>1 DEF producer, queueCommand, endSession, receiveReset, sayBye, closeRecvSock, free
<1>2. ASSUME NEW n \in Notifier, notifier(n) PROVE UNCHANGED clientVars
  BY <1>2 DEF notifier, findClient, notifyClient
<1> QED
  BY <1>1, <1>2, Zenon DEF Next

LEMMA CoveredStep ==
    ASSUME TypeOK, CoveredInv, Next
    PROVE  CoveredInv'
<1>1. SUFFICES ASSUME NEW d \in Client PROVE CoveredAt(d)'
  BY DEF CoveredInv
<1>2. CoveredAt(d)
  BY DEF CoveredInv
<1>3. CASE UNCHANGED clientVars
  BY <1>2, <1>3, CoveredSame DEF clientVars
<1>4. ASSUME NEW c \in Client, client(c) \/ kill(c) PROVE CoveredAt(d)'
  <2>1. CASE d = c
    <3>1. client(d) \/ kill(d)
      BY <1>4, <2>1
    <3> QED
      BY <1>2, <3>1, connectCovered, sendCommandCovered, receiveCommitCovered, leaveCovered DEF client
  <2>2. CASE d /= c
    BY <1>2, <1>4, <2>2, OtherClients, CoveredSame
  <2> QED
    BY <2>1, <2>2
<1> QED
  BY <1>3, <1>4, LeaderSteps

\* The commands of a client, and the clients that have a producer.
LEMMA ClientsStep ==
    ASSUME TypeOK, ClientsInv, Next
    PROVE  ClientsInv'
<1>1. SUFFICES ASSUME NEW d \in Client
               PROVE  /\ cpc'[d] = "out" <=> ppc'[d] = "none"
                      /\ cpc'[d] = "wait" => commitCount'[d] < MAX_CLI_REQ
  BY DEF ClientsInv
<1>2. /\ cpc[d] = "out" <=> ppc[d] = "none"
      /\ cpc[d] = "wait" => commitCount[d] < MAX_CLI_REQ
  BY DEF ClientsInv
<1>3. MAX_CLI_REQ \in Nat \ {0}
  BY SessionsAssumption
<1>4. ASSUME NEW c \in Client, connect(c) PROVE ClientsInv'
  BY <1>4 DEF ClientsInv, connect, TypeOK
<1>5. ASSUME NEW c \in Client, sendCommand(c) PROVE ClientsInv'
  BY <1>3, <1>5 DEF ClientsInv, sendCommand, TypeOK, producerVars
<1>6. ASSUME NEW c \in Client, receiveCommit(c) PROVE ClientsInv'
  <2> DEFINE count == commitCount[c] + (IF Head(inbox[c]).command = commandId[c] THEN 1 ELSE 0)
  <2>1. /\ commitCount' = [commitCount EXCEPT ![c] = count] /\ ppc' = ppc /\ cpc[c] = "wait"
        /\ IF AllCommitted(count) THEN \E v \in {"exit", "send"} : cpc' = [cpc EXCEPT ![c] = v]
                                  ELSE cpc' = cpc
    BY <1>6 DEF receiveCommit, producerVars
  <2>2. commitCount[c] \in Nat /\ commitCount[c] < MAX_CLI_REQ
    BY <2>1 DEF ClientsInv, TypeOK
  <2>3. count \in Nat /\ count <= MAX_CLI_REQ
    BY <1>3, <2>2
  <2> HIDE DEF count
  <2>4. ~ AllCommitted(count) => count < MAX_CLI_REQ
    BY <1>3, <2>3 DEF AllCommitted
  <2> QED
    BY <2>1, <2>4 DEF ClientsInv, TypeOK
<1>7. ASSUME NEW c \in Client, sendExit(c) \/ receiveBye(c) \/ kill(c) PROVE ClientsInv'
  BY <1>7 DEF ClientsInv, sendExit, receiveBye, kill, TypeOK, producerVars
<1>8. ASSUME NEW c \in Client, producer(c) PROVE ClientsInv'
  BY <1>8 DEF ClientsInv, TypeOK, producer, queueCommand, endSession, receiveReset, sayBye,
              closeRecvSock, free, clientVars, producerVars
<1>9. ASSUME NEW n \in Notifier, notifier(n) PROVE ClientsInv'
  BY <1>9 DEF ClientsInv, notifier, findClient, notifyClient, clientVars, producerVars
<1>10. ClientsInv'
  BY <1>4, <1>5, <1>6, <1>7, <1>8, <1>9, Zenon DEF Next, client
<1> QED
  BY <1>10 DEF ClientsInv

-----------------------------------------------------------------------------
(* Records, memory and sockets *)

LEMMA InitRecords == Init => RecordsInv
<1> SUFFICES ASSUME Init PROVE RecordsInv
  OBVIOUS
<1>1. \A c \in Client : ~ Live(c) /\ ~ Connected(c)
  BY DEF Init, PerClient, Live, Connected
<1>2. \A s \in Sock : owner[s] = None
  BY DEF Init
<1>3. \A a \in Addr : ~ heap[a].used /\ heap[a].id = Garbage
  BY DEF Init
<1>4. DOMAIN clientNodes = {} /\ \A n \in Notifier : target[n] = None
  BY DEF Init
<1> QED
  BY <1>1, <1>2, <1>3, <1>4 DEF RecordsInv, RecordAt, OwnerAt, HeapAt

\* The records stay as they are as long as nobody takes or gives back memory or
\* a socket.
LEMMA RecordsKept ==
    ASSUME TypeOK, RecordsInv, heap' = heap, owner' = owner, record' = record,
           \A d \in Client : (Live(d)' <=> Live(d)) /\ (Connected(d)' <=> Connected(d)),
           \A k \in DOMAIN clientNodes' : \E j \in DOMAIN clientNodes :
               clientNodes'[k] = clientNodes[j],
           \A n \in Notifier : target'[n] /= None => heap[target'[n].addr].sock /= 0
    PROVE  RecordsInv'
<1>1. \A c \in Client : RecordAt(c)'
  BY DEF RecordsInv, RecordAt, Addr, Sock
<1>2. \A s \in Sock : OwnerAt(s)'
  <2>1. \A s \in Sock : owner[s] /= None => owner[s] \in Client
    BY DEF TypeOK
  <2> QED
    BY <2>1 DEF RecordsInv, OwnerAt, Connected
<1>3. \A a \in Addr : HeapAt(a)'
  BY DEF RecordsInv, HeapAt
<1> QED
  BY <1>1, <1>2, <1>3 DEF RecordsInv, Sock, Addr

\* What connect does to the records.
LEMMA connectIs ==
    ASSUME TypeOK, ClientsInv, RecordsInv, NEW c \in Client, connect(c)
    PROVE  \E s \in Sock, a \in Addr :
              /\ owner[s] = None /\ owner' = [owner EXCEPT ![s] = c]
              /\ ~ heap[a].used /\ heap' = [heap EXCEPT ![a] = ClientNode(Len(clientNodes), s)]
              /\ clientNodes' = Append(clientNodes, a)
              /\ record' = [record EXCEPT ![c] = a]
              /\ ppc[c] = "none" /\ ppc' = [ppc EXCEPT ![c] = "recv"] /\ target' = target
<1> DEFINE s == Min({t \in Sock : owner[t] = None})
<1>1. s \in Sock /\ owner[s] = None
  BY FreeSocket DEF connect, ClientsInv, Connected
<1>2. PICK a \in Addr : /\ ~ heap[a].used
                        /\ heap' = [heap EXCEPT ![a] = ClientNode(Len(clientNodes), s)]
                        /\ clientNodes' = Append(clientNodes, a)
                        /\ record' = [record EXCEPT ![c] = a]
  BY DEF connect, NextId
<1>3. owner' = [owner EXCEPT ![s] = c] /\ ppc' = [ppc EXCEPT ![c] = "recv"] /\ target' = target
  BY DEF connect
<1>4. ppc[c] = "none"
  BY DEF connect, ClientsInv
<1> HIDE DEF s
<1> QED
  BY <1>1, <1>2, <1>3, <1>4

LEMMA connectRecords ==
    ASSUME TypeOK, ClientsInv, RecordsInv, NEW c \in Client, connect(c)
    PROVE  RecordsInv'
<1>1. PICK s \in Sock, a \in Addr :
              /\ owner[s] = None /\ owner' = [owner EXCEPT ![s] = c]
              /\ ~ heap[a].used /\ heap' = [heap EXCEPT ![a] = ClientNode(Len(clientNodes), s)]
              /\ clientNodes' = Append(clientNodes, a)
              /\ record' = [record EXCEPT ![c] = a]
              /\ ppc[c] = "none" /\ ppc' = [ppc EXCEPT ![c] = "recv"] /\ target' = target
  BY connectIs
<1>2. /\ heap'[a].id \in Nat /\ heap'[a].sock = s /\ heap'[a].used /\ s /= 0
      /\ \A x \in Addr \ {a} : heap'[x] = heap[x]
  <2>1. Len(clientNodes) \in Nat
    BY DEF TypeOK
  <2> QED
    BY <1>1, <2>1 DEF TypeOK, ClientNode, Sock
<1>3. owner'[s] = c /\ \A t \in Sock \ {s} : owner'[t] = owner[t]
  BY <1>1 DEF TypeOK
<1>4. /\ record'[c] = a /\ \A d \in Client \ {c} : record'[d] = record[d]
      /\ Live(c)' /\ Connected(c)' /\ ~ Live(c) /\ ~ Connected(c)
      /\ \A d \in Client \ {c} : (Live(d)' <=> Live(d)) /\ (Connected(d)' <=> Connected(d))
  BY <1>1 DEF TypeOK, Live, Connected
<1>5. \A d \in Client \ {c} : Live(d) => record[d] \in Addr \ {a}
  BY <1>1 DEF RecordsInv, RecordAt
<1>6. \A d \in Client : Connected(d) => Live(d)
  BY DEF Live, Connected
<1>7. ASSUME NEW d \in Client \ {c} PROVE RecordAt(d)'
  <2>1. RecordAt(d)
    BY DEF RecordsInv
  <2>2. Live(d) => heap'[record'[d]] = heap[record[d]] /\ record'[d] = record[d]
    BY <1>2, <1>4, <1>5
  <2>3. Connected(d) => owner[heap[record[d]].sock] = d /\ heap[record[d]].sock \in Sock
    BY <1>6, <2>1 DEF RecordAt
  <2>4. Connected(d) => owner'[heap[record[d]].sock] = d
    BY <1>1, <1>3, <2>3, SessionsAssumption
  <2>5. \A e \in Client : Live(d)' /\ Live(e)' /\ record'[d] = record'[e] => d = e
    BY <1>4, <1>5, <2>1 DEF RecordAt
  <2> QED
    BY <1>4, <1>6, <2>1, <2>2, <2>4, <2>5 DEF RecordAt, Addr, Sock
<1>8. RecordAt(c)'
  <2>1. \A e \in Client : Live(e)' /\ record'[c] = record'[e] => c = e
    BY <1>4, <1>5
  <2> QED
    BY <1>2, <1>3, <1>4, <2>1 DEF RecordAt, Addr, Sock
<1>9. ASSUME NEW t \in Sock PROVE OwnerAt(t)'
  <2>1. CASE t = s
    BY <1>2, <1>3, <1>4, <2>1 DEF OwnerAt
  <2>2. CASE t /= s
    <3>1. owner'[t] = owner[t] /\ owner[t] \in Client \cup {None} /\ OwnerAt(t)
      BY <1>3, <2>2 DEF RecordsInv, TypeOK
    <3>2. SUFFICES ASSUME owner[t] /= None
                   PROVE  Connected(owner[t])' /\ heap'[record'[owner[t]]].sock = t
      BY <3>1 DEF OwnerAt, Connected
    <3>3. PICK d \in Client : d = owner[t]
      BY <3>1, <3>2
    <3>4. Connected(d) /\ heap[record[d]].sock = t
      BY <3>1, <3>2, <3>3 DEF OwnerAt
    <3>5. d /= c
      BY <1>4, <3>4
    <3>6. Connected(d)' /\ heap'[record'[d]].sock = t
      BY <1>2, <1>4, <1>5, <1>6, <3>4, <3>5
    <3> QED
      BY <3>1, <3>3, <3>6 DEF Connected
  <2> QED
    BY <2>1, <2>2
<1>10. ASSUME NEW x \in Addr PROVE HeapAt(x)'
  <2>1. CASE x = a
    BY <1>2, <1>4, <2>1 DEF HeapAt
  <2>2. CASE x /= a
    <3>1. HeapAt(x) /\ heap'[x] = heap[x]
      BY <1>2, <2>2 DEF RecordsInv
    <3> QED
      BY <1>4, <3>1 DEF HeapAt
  <2> QED
    BY <2>1, <2>2
<1>11. ASSUME NEW i \in DOMAIN clientNodes' PROVE heap'[clientNodes'[i]].sock /= 0
  <2> DEFINE n == Len(clientNodes)
  <2>1. /\ n \in Nat /\ DOMAIN clientNodes = 1 .. n /\ i \in 1 .. n + 1
        /\ \A k \in 1 .. n : clientNodes[k] \in Addr
        /\ clientNodes'[i] = IF i = n + 1 THEN a ELSE clientNodes[i]
    BY <1>1 DEF TypeOK
  <2>2. CASE i = n + 1
    BY <1>2, <2>1, <2>2
  <2>3. CASE i /= n + 1
    <3>1. i \in 1 .. n
      BY <2>1, <2>3
    <3>2. clientNodes'[i] = clientNodes[i] /\ heap[clientNodes[i]].sock /= 0
      BY <2>1, <2>3, <3>1 DEF RecordsInv
    <3> QED
      BY <1>2, <2>1, <3>1, <3>2
  <2> QED
    BY <2>2, <2>3
<1>12. ASSUME NEW n \in Notifier, target'[n] /= None PROVE heap'[target'[n].addr].sock /= 0
  <2>1. target'[n] = target[n] /\ target[n].addr \in Addr /\ heap[target[n].addr].sock /= 0
    BY <1>1, <1>12 DEF RecordsInv, TypeOK
  <2> QED
    BY <1>2, <2>1
<1> QED
  BY <1>7, <1>8, <1>9, <1>10, <1>11, <1>12 DEF RecordsInv, Sock, Addr

LEMMA closeRecvSockRecords ==
    ASSUME TypeOK, RecordsInv, NEW c \in Client, closeRecvSock(c)
    PROVE  RecordsInv'
<1> DEFINE s == heap[record[c]].sock
<1>1. /\ Live(c) /\ Connected(c) /\ Live(c)' /\ ~ Connected(c)'
      /\ \A d \in Client \ {c} : (Live(d)' <=> Live(d)) /\ (Connected(d)' <=> Connected(d))
  BY DEF closeRecvSock, TypeOK, Live, Connected
<1>2. s \in Sock /\ owner[s] = c
  BY <1>1 DEF RecordsInv, RecordAt
<1>3. heap' = heap /\ record' = record /\ clientNodes' = clientNodes /\ target' = target
  BY DEF closeRecvSock
<1>4. owner' = [owner EXCEPT ![s] = None]
  BY DEF closeRecvSock
<1> HIDE DEF s
<1>5. owner'[s] = None /\ \A t \in Sock \ {s} : owner'[t] = owner[t]
  BY <1>2, <1>4 DEF TypeOK
<1>6. \A d \in Client : Connected(d) => Live(d)
  BY DEF Live, Connected
<1>7. \A d \in Client : (Live(d)' <=> Live(d)) /\ (Connected(d)' => Connected(d) /\ d /= c)
  BY <1>1
<1>8. ASSUME NEW d \in Client PROVE RecordAt(d)'
  <2>1. RecordAt(d)
    BY DEF RecordsInv
  <2>2. ASSUME Connected(d)' PROVE owner'[heap[record[d]].sock] = d
    <3>1. Connected(d) /\ d /= c /\ Live(d)
      BY <1>6, <1>7, <2>2
    <3>2. owner[heap[record[d]].sock] = d /\ heap[record[d]].sock \in Sock
      BY <2>1, <3>1 DEF RecordAt
    <3> QED
      BY <1>2, <1>5, <3>1, <3>2
  <2> QED
    BY <1>3, <1>7, <2>1, <2>2 DEF RecordAt, Addr, Sock
<1>9. ASSUME NEW t \in Sock PROVE OwnerAt(t)'
  <2>1. CASE t = s
    BY <1>5, <2>1 DEF OwnerAt
  <2>2. CASE t /= s
    <3>1. owner'[t] = owner[t] /\ owner[t] \in Client \cup {None} /\ OwnerAt(t)
      BY <1>5, <2>2 DEF RecordsInv, TypeOK
    <3>2. SUFFICES ASSUME owner[t] /= None
                   PROVE  Connected(owner[t])' /\ heap'[record'[owner[t]]].sock = t
      BY <3>1 DEF OwnerAt, Connected
    <3>3. PICK d \in Client : d = owner[t]
      BY <3>1, <3>2
    <3>4. Connected(d) /\ heap[record[d]].sock = t
      BY <3>1, <3>2, <3>3 DEF OwnerAt
    <3>5. d /= c
      BY <2>2, <3>4 DEF s
    <3>6. Connected(d)' /\ heap'[record'[d]].sock = t
      BY <1>1, <1>3, <3>4, <3>5
    <3> QED
      BY <3>1, <3>3, <3>6 DEF Connected
  <2> QED
    BY <2>1, <2>2
<1>10. \A x \in Addr : HeapAt(x)'
  BY <1>3, <1>7 DEF RecordsInv, HeapAt
<1> QED
  BY <1>3, <1>8, <1>9, <1>10 DEF RecordsInv, Sock, Addr

LEMMA freeRecords ==
    ASSUME TypeOK, RecordsInv, NEW c \in Client, free(c)
    PROVE  RecordsInv'
<1> DEFINE a == record[c]
<1>1. /\ Live(c) /\ ~ Connected(c) /\ ~ Live(c)' /\ ~ Connected(c)'
      /\ \A d \in Client \ {c} : (Live(d)' <=> Live(d)) /\ (Connected(d)' <=> Connected(d))
  BY DEF free, TypeOK, Live, Connected
<1>2. /\ a \in Addr /\ heap'[a].id \in {0, Garbage} /\ ~ heap'[a].used
      /\ heap'[a].sock = heap[a].sock /\ \A x \in Addr \ {a} : heap'[x] = heap[x]
  BY freeIs
<1>3. owner' = owner /\ record' = record /\ clientNodes' = clientNodes /\ target' = target
  BY DEF free
<1>4. \A d \in Client \ {c} : Live(d) => record[d] \in Addr \ {a}
  BY <1>1 DEF RecordsInv, RecordAt
<1>5. \A d \in Client : Connected(d) => Live(d)
  BY DEF Live, Connected
<1>6. \A x \in Addr : heap'[x].sock = heap[x].sock
  BY <1>2
<1> HIDE DEF a
<1>7. ASSUME NEW d \in Client PROVE RecordAt(d)'
  <2>1. RecordAt(d)
    BY DEF RecordsInv
  <2>2. CASE d = c
    <3>1. ~ Live(d)' /\ ~ Connected(d)'
      BY <1>1, <2>2
    <3> QED
      BY <3>1 DEF RecordAt
  <2>3. CASE d /= c
    <3>1. Live(d) => heap'[record[d]] = heap[record[d]]
      BY <1>2, <1>4, <2>3
    <3>2. \A e \in Client : Live(e)' => Live(e)
      BY <1>1
    <3>3. (Live(d)' <=> Live(d)) /\ (Connected(d)' <=> Connected(d))
      BY <1>1, <2>3
    <3> QED
      BY <1>3, <1>5, <2>1, <3>1, <3>2, <3>3 DEF RecordAt, Addr, Sock
  <2> QED
    BY <2>2, <2>3
<1>8. ASSUME NEW t \in Sock PROVE OwnerAt(t)'
  <2>1. owner'[t] = owner[t] /\ owner[t] \in Client \cup {None} /\ OwnerAt(t)
    BY <1>3 DEF RecordsInv, TypeOK
  <2>2. SUFFICES ASSUME owner[t] /= None
                 PROVE  Connected(owner[t])' /\ heap'[record'[owner[t]]].sock = t
    BY <2>1 DEF OwnerAt, Connected
  <2>3. PICK d \in Client : d = owner[t]
    BY <2>1, <2>2
  <2>4. Connected(d) /\ heap[record[d]].sock = t
    BY <2>1, <2>2, <2>3 DEF OwnerAt
  <2>5. d /= c
    BY <1>1, <2>4
  <2>6. Connected(d)' /\ heap'[record'[d]].sock = t
    BY <1>1, <1>3, <1>4, <1>5, <1>6, <2>4, <2>5
  <2> QED
    BY <2>1, <2>3, <2>6 DEF Connected
<1>9. ASSUME NEW x \in Addr PROVE HeapAt(x)'
  <2>1. CASE x = a
    BY <1>2, <2>1 DEF HeapAt
  <2>2. CASE x /= a
    <3>1. HeapAt(x) /\ heap'[x] = heap[x]
      BY <1>2, <2>2 DEF RecordsInv
    <3>2. \A d \in Client : Live(d) /\ record[d] = x => Live(d)' /\ record'[d] = x
      BY <1>1, <1>3, <2>2 DEF a
    <3> QED
      BY <3>1, <3>2 DEF HeapAt
  <2> QED
    BY <2>1, <2>2
<1>10. \A i \in DOMAIN clientNodes : clientNodes[i] \in Addr
  BY DEF TypeOK
<1>11. \A n \in Notifier : target[n] /= None => target[n].addr \in Addr
  BY DEF TypeOK
<1> QED
  BY <1>3, <1>6, <1>7, <1>8, <1>9, <1>10, <1>11 DEF RecordsInv, Sock, Addr

\* The leader's sendRPC keeps the list or shortens it.
LEMMA SendRPCList ==
    ASSUME TypeOK, NEW a, NEW m, sendRPC(a, m)
    PROVE  \A k \in DOMAIN clientNodes' : \E j \in DOMAIN clientNodes :
               clientNodes'[k] = clientNodes[j]
<1>1. clientNodes' = clientNodes \/ clientNodes' = Without(a)
  BY DEF sendRPC
<1> QED
  BY <1>1, WithoutIs

LEMMA RecordsStep ==
    ASSUME TypeOK, ClientsInv, RecordsInv, Next
    PROVE  RecordsInv'
<1>1. ASSUME NEW c \in Client, sendCommand(c) \/ receiveCommit(c) \/ sendExit(c) \/ receiveBye(c)
                               \/ kill(c) \/ queueCommand(c) \/ receiveReset(c)
      PROVE  RecordsInv'
  <2>1. /\ heap' = heap /\ owner' = owner /\ record' = record /\ ppc' = ppc
        /\ clientNodes' = clientNodes /\ target' = target
    BY <1>1 DEF sendCommand, receiveCommit, sendExit, receiveBye, kill, queueCommand,
                receiveReset, recordVars, producerVars
  <2>2. \A d \in Client : (Live(d)' <=> Live(d)) /\ (Connected(d)' <=> Connected(d))
    BY <2>1 DEF Live, Connected
  <2>3. \A n \in Notifier : target'[n] /= None => heap[target'[n].addr].sock /= 0
    BY <2>1 DEF RecordsInv
  <2> QED
    BY <2>1, <2>2, <2>3, RecordsKept
<1>2. ASSUME NEW c \in Client, endSession(c) PROVE RecordsInv'
  <2>1. /\ heap' = heap /\ owner' = owner /\ record' = record
        /\ clientNodes' = clientNodes /\ target' = target
        /\ ppc[c] = "recv" /\ ppc' = [ppc EXCEPT ![c] = "bye"]
    BY <1>2 DEF endSession, recordVars
  <2>2. \A d \in Client : (Live(d)' <=> Live(d)) /\ (Connected(d)' <=> Connected(d))
    BY <2>1 DEF Live, Connected, TypeOK
  <2>3. \A n \in Notifier : target'[n] /= None => heap[target'[n].addr].sock /= 0
    BY <2>1 DEF RecordsInv
  <2> QED
    BY <2>1, <2>2, <2>3, RecordsKept
<1>3. ASSUME NEW c \in Client, sayBye(c) PROVE RecordsInv'
  <2>1. /\ heap' = heap /\ owner' = owner /\ record' = record /\ target' = target
        /\ ppc[c] = "bye" /\ ppc' = [ppc EXCEPT ![c] = "close"]
    BY <1>3 DEF sayBye
  <2>2. \A d \in Client : (Live(d)' <=> Live(d)) /\ (Connected(d)' <=> Connected(d))
    BY <2>1 DEF Live, Connected, TypeOK
  <2>3. \A n \in Notifier : target'[n] /= None => heap[target'[n].addr].sock /= 0
    BY <2>1 DEF RecordsInv
  <2>4. sendRPC(record[c], cmByFields(c, None))
    BY <1>3 DEF sayBye
  <2> QED
    BY <2>1, <2>2, <2>3, <2>4, SendRPCList, RecordsKept
<1>4. ASSUME NEW n \in Notifier, findClient(n) PROVE RecordsInv'
  <2>1. /\ heap' = heap /\ owner' = owner /\ record' = record /\ ppc' = ppc
        /\ clientNodes' = clientNodes
    BY <1>4 DEF findClient, recordVars, producerVars
  <2>2. \A d \in Client : (Live(d)' <=> Live(d)) /\ (Connected(d)' <=> Connected(d))
    BY <2>1 DEF Live, Connected
  <2>3. PICK c \in Client :
            target' = [target EXCEPT ![n] =
                    IF RecordOf(pending[c].id) = None THEN None
                    ELSE [addr |-> RecordOf(pending[c].id),
                          message |-> cmByFields(c, pending[c].command)]]
    BY <1>4, findClientIs
  <2>4. RecordOf(pending[c].id) /= None => heap[RecordOf(pending[c].id)].sock /= 0
    BY RecordOfType DEF RecordsInv
  <2>5. ASSUME NEW k \in Notifier, target'[k] /= None PROVE heap[target'[k].addr].sock /= 0
    <3>1. CASE k = n
      BY <2>3, <2>4, <2>5, <3>1 DEF TypeOK
    <3>2. CASE k /= n
      BY <2>3, <2>5, <3>2 DEF TypeOK, RecordsInv
    <3> QED
      BY <3>1, <3>2
  <2> QED
    BY <2>1, <2>2, <2>5, RecordsKept
<1>5. ASSUME NEW n \in Notifier, notifyClient(n) PROVE RecordsInv'
  <2>1. /\ heap' = heap /\ owner' = owner /\ record' = record /\ ppc' = ppc
        /\ target' = [target EXCEPT ![n] = None]
    BY <1>5 DEF notifyClient, producerVars
  <2>2. \A d \in Client : (Live(d)' <=> Live(d)) /\ (Connected(d)' <=> Connected(d))
    BY <2>1 DEF Live, Connected
  <2>3. \A k \in Notifier : target'[k] /= None => heap[target'[k].addr].sock /= 0
    BY <2>1 DEF RecordsInv, TypeOK
  <2>4. sendRPC(target[n].addr, target[n].message)
    BY <1>5 DEF notifyClient
  <2> QED
    BY <2>1, <2>2, <2>3, <2>4, SendRPCList, RecordsKept
<1> QED
  BY <1>1, <1>2, <1>3, <1>4, <1>5, connectRecords, closeRecvSockRecords, freeRecords, Zenon
  DEF Next, client, producer, notifier

LEMMA TypeStep ==
    ASSUME TypeOK, ClientsInv, RecordsInv, CoveredInv, Next
    PROVE  TypeOK'
<1>1. ASSUME NEW c \in Client, client(c) \/ kill(c) PROVE TypeOK'
  BY <1>1, connectType, sendCommandType, receiveCommitType, sendExitType, receiveByeType,
     killType, Zenon DEF client
<1>2. ASSUME NEW c \in Client, producer(c) PROVE TypeOK'
  BY <1>2, queueCommandType, endSessionType, receiveResetType, sayByeType, closeRecvSockType,
     freeType, Zenon DEF producer
<1>3. ASSUME NEW n \in Notifier, notifier(n) PROVE TypeOK'
  BY <1>3, findClientType, notifyClientType, Zenon DEF notifier
<1> QED
  BY <1>1, <1>2, <1>3, Zenon DEF Next

-----------------------------------------------------------------------------
(* As long as no client has gone away with answers to come *)

LEMMA InitSafe == Init => SafeInv
<1> SUFFICES ASSUME Init PROVE Safe
  BY DEF SafeInv
<1>1. ~ ended /\ \A n \in Notifier : target[n] = None
  BY DEF Init
<1>2. ASSUME NEW c \in Client
      PROVE  /\ cpc[c] = "out" /\ conn[c] = "none" /\ pending[c].left = 0 /\ ~ Live(c)
             /\ Len(inbox[c]) = 0 /\ Len(toLeader[c]) = 0 /\ DOMAIN inbox[c] = {}
  BY DEF Init, PerClient, Live
<1>3. ASSUME NEW c \in Client PROVE ClientAt(c)
  BY <1>1, <1>2 DEF ClientAt, Phase, Settled, Sending, Listed
<1> QED
  BY <1>1, <1>3 DEF Safe, TargetAt

LEMMA TargetsFinite ==
    ASSUME NEW c
    PROVE  /\ IsFiniteSet(Targets(c)) /\ Cardinality(Targets(c)) \in Nat
           /\ Cardinality(Targets(c)) = 0 <=> \A n \in Notifier : ~ Sending(n, c)
<1>1. IsFiniteSet(Targets(c))
  BY SessionsAssumption, FS_Subset DEF Targets
<1>2. Cardinality(Targets(c)) \in Nat
  BY <1>1, FS_CardinalityType
<1>3. Cardinality(Targets(c)) = 0 <=> Targets(c) = {}
  BY <1>1, FS_EmptySet
<1>4. Targets(c) = {} <=> \A n \in Notifier : ~ Sending(n, c)
  BY DEF Targets
<1> QED
  BY <1>1, <1>2, <1>3, <1>4

LEMMA TargetsFiniteNext ==
    ASSUME NEW c \in Client
    PROVE  /\ Cardinality(Targets(c)') \in Nat
           /\ Cardinality(Targets(c)') = 0 <=> \A n \in Notifier : ~ Sending(n, c)'
<1>1. IsFiniteSet(Targets(c)')
  BY SessionsAssumption, FS_Subset DEF Targets
<1>2. Cardinality(Targets(c)') \in Nat
  BY <1>1, FS_CardinalityType
<1>3. Cardinality(Targets(c)') = 0 <=> Targets(c)' = {}
  BY <1>1, FS_EmptySet
<1>4. Targets(c)' = {} <=> \A n \in Notifier : ~ Sending(n, c)'
  BY DEF Targets
<1> QED
  BY <1>2, <1>3, <1>4

\* What is pending is of a command that the client waits for.
LEMMA PendingWaits ==
    ASSUME TypeOK, NEW c \in Client, Phase(c), ~ Settled(c)
    PROVE  /\ cpc[c] = "wait" /\ ppc[c] = "recv" /\ conn[c] = "open" /\ Len(toLeader[c]) = 0
           /\ commitCount[c] + Len(inbox[c]) + pending[c].left + Cardinality(Targets(c))
                <= MAX_CLI_REQ
<1>1. cpc[c] = "wait"
  BY DEF TypeOK, Phase, Between, Leaving, Left, Killed
<1> QED
  BY <1>1 DEF Phase, Waiting

LEMMA PhaseKept ==
    ASSUME NEW c \in Client, Phase(c), cpc'[c] = cpc[c], commitCount'[c] = commitCount[c],
           inbox'[c] = inbox[c], toLeader'[c] = toLeader[c], conn'[c] = conn[c],
           ppc'[c] = ppc[c], pending'[c].left = pending[c].left,
           \A n \in Notifier : Sending(n, c)' <=> Sending(n, c)
    PROVE  Phase(c)'
<1>1. Settled(c)' <=> Settled(c)
  BY DEF Settled
<1>2. Targets(c)' = Targets(c)
  BY DEF Targets
<1>3. Connected(c)' <=> Connected(c)
  BY DEF Connected
<1>4. Between(c)' <=> Between(c)
  BY <1>1 DEF Between
<1>5. Waiting(c)' <=> Waiting(c)
  BY <1>1, <1>2 DEF Waiting
<1>6. (Leaving(c)' <=> Leaving(c)) /\ (Left(c)' <=> Left(c)) /\ (Killed(c)' <=> Killed(c))
  BY <1>1, <1>3 DEF Leaving, Left, Killed
<1> QED
  BY <1>1, <1>4, <1>5, <1>6 DEF Phase

\* A step that leaves a client alone: it may append to the list, and change other
\* records.
LEMMA ClientKept ==
    ASSUME TypeOK, NEW c \in Client, ClientAt(c), cpc'[c] = cpc[c], commitCount'[c] = commitCount[c],
           inbox'[c] = inbox[c], toLeader'[c] = toLeader[c], conn'[c] = conn[c],
           ppc'[c] = ppc[c], record'[c] = record[c], pending'[c] = pending[c],
           \A n \in Notifier : Sending(n, c)' <=> Sending(n, c),
           Live(c) => heap'[record[c]].id = heap[record[c]].id,
           \A i \in DOMAIN clientNodes :
               i \in DOMAIN clientNodes' /\ clientNodes'[i] = clientNodes[i]
    PROVE  ClientAt(c)'
<1>1. Phase(c)'
  BY PhaseKept DEF ClientAt
<1>2. Listed(c)'
  BY DEF ClientAt, Listed, Live
<1>3. pending'[c].left > 0 => pending'[c].id = heap'[record'[c]].id
  <2>1. SUFFICES ASSUME pending[c].left > 0 PROVE pending[c].id = heap'[record[c]].id
    OBVIOUS
  <2>2. ~ Settled(c)
    BY <2>1 DEF Settled, TypeOK
  <2>3. Live(c)
    BY <2>2, PendingWaits DEF ClientAt, Live
  <2> QED
    BY <2>1, <2>3 DEF ClientAt
<1> QED
  BY <1>1, <1>2, <1>3 DEF ClientAt

\* Everybody but client c is left alone.
LEMMA SafeKept ==
    ASSUME TypeOK, Safe, NEW c \in Client, ClientAt(c)', ended' = ended,
           \A d \in Client \ {c} :
               /\ cpc'[d] = cpc[d] /\ commitCount'[d] = commitCount[d]
               /\ inbox'[d] = inbox[d] /\ toLeader'[d] = toLeader[d] /\ conn'[d] = conn[d]
               /\ ppc'[d] = ppc[d] /\ record'[d] = record[d] /\ pending'[d] = pending[d]
               /\ \A n \in Notifier : Sending(n, d)' <=> Sending(n, d)
               /\ Live(d) => heap'[record[d]].id = heap[record[d]].id,
           \A i \in DOMAIN clientNodes :
               i \in DOMAIN clientNodes' /\ clientNodes'[i] = clientNodes[i],
           \A n \in Notifier : TargetAt(n)'
    PROVE  Safe'
<1>1. ASSUME NEW d \in Client, d /= c PROVE ClientAt(d)'
  <2>1. ClientAt(d)
    BY DEF Safe
  <2> QED
    BY <1>1, <2>1, ClientKept
<1> QED
  BY <1>1 DEF Safe

\* The same for a step that leaves records and notifiers alone.
LEMMA SafeKeptAlone ==
    ASSUME TypeOK, Safe, NEW c \in Client, ClientAt(c)', ended' = ended,
           \A d \in Client \ {c} :
               /\ cpc'[d] = cpc[d] /\ commitCount'[d] = commitCount[d]
               /\ inbox'[d] = inbox[d] /\ toLeader'[d] = toLeader[d] /\ conn'[d] = conn[d]
               /\ ppc'[d] = ppc[d] /\ pending'[d] = pending[d],
           heap' = heap, record' = record, clientNodes' = clientNodes, target' = target
    PROVE  Safe'
<1>1. \A d \in Client, n \in Notifier : Sending(n, d)' <=> Sending(n, d)
  BY DEF Sending
<1>2. \A n \in Notifier : TargetAt(n)'
  BY DEF Safe, TargetAt
<1>3. \A d \in Client \ {c} :
               /\ cpc'[d] = cpc[d] /\ commitCount'[d] = commitCount[d]
               /\ inbox'[d] = inbox[d] /\ toLeader'[d] = toLeader[d] /\ conn'[d] = conn[d]
               /\ ppc'[d] = ppc[d] /\ record'[d] = record[d] /\ pending'[d] = pending[d]
               /\ \A n \in Notifier : Sending(n, d)' <=> Sending(n, d)
               /\ Live(d) => heap'[record[d]].id = heap[record[d]].id
  BY <1>1
<1>4. \A i \in DOMAIN clientNodes :
          i \in DOMAIN clientNodes' /\ clientNodes'[i] = clientNodes[i]
  OBVIOUS
<1> QED
  BY <1>2, <1>3, <1>4, SafeKept

LEMMA AppendIs ==
    ASSUME NEW S, NEW s \in Seq(S), NEW x \in S
    PROVE  /\ Len(Append(s, x)) = Len(s) + 1 /\ Len(s) \in Nat
           /\ Len(s) = 0 => Head(Append(s, x)) = x
           /\ \A i \in DOMAIN Append(s, x) :
                 Append(s, x)[i] = x \/ (i \in DOMAIN s /\ Append(s, x)[i] = s[i])
OBVIOUS

LEMMA TailIs ==
    ASSUME NEW S, NEW s \in Seq(S), s /= <<>>
    PROVE  /\ Len(Tail(s)) = Len(s) - 1 /\ Len(s) \in Nat \ {0}
           /\ \A i \in DOMAIN Tail(s) : i + 1 \in DOMAIN s /\ Tail(s)[i] = s[i + 1]
OBVIOUS

LEMMA EmptyIs ==
    ASSUME NEW S, NEW s \in Seq(S)
    PROVE  Len(s) = 0 <=> s = <<>>
OBVIOUS

LEMMA connectSafe ==
    ASSUME TypeOK, ClientsInv, RecordsInv, Safe, NEW c \in Client, connect(c)
    PROVE  Safe'
<1>1. PICK s \in Sock, a \in Addr :
              /\ owner[s] = None /\ owner' = [owner EXCEPT ![s] = c]
              /\ ~ heap[a].used /\ heap' = [heap EXCEPT ![a] = ClientNode(Len(clientNodes), s)]
              /\ clientNodes' = Append(clientNodes, a)
              /\ record' = [record EXCEPT ![c] = a]
              /\ ppc[c] = "none" /\ ppc' = [ppc EXCEPT ![c] = "recv"] /\ target' = target
  BY connectIs
<1>2. /\ cpc[c] = "out" /\ cpc' = [cpc EXCEPT ![c] = IF Batches(c) = 0 THEN "exit" ELSE "send"]
      /\ conn' = [conn EXCEPT ![c] = "open"]
      /\ commitCount' = commitCount /\ inbox' = inbox /\ toLeader' = toLeader
      /\ pending' = pending /\ ended' = ended
  BY DEF connect
<1> DEFINE N == Len(clientNodes)
<1>3. /\ N \in Nat /\ DOMAIN clientNodes = 1 .. N /\ DOMAIN clientNodes' = 1 .. N + 1
      /\ clientNodes'[N + 1] = a
      /\ \A i \in 1 .. N : clientNodes'[i] = clientNodes[i]
  BY <1>1 DEF TypeOK
<1>4. /\ heap'[a].id = N /\ \A x \in Addr \ {a} : heap'[x] = heap[x]
      /\ record'[c] = a /\ \A d \in Client \ {c} : record'[d] = record[d]
  BY <1>1 DEF TypeOK, ClientNode
<1>5. Phase(c) /\ \A i \in DOMAIN inbox[c] : inbox[c][i].client = c
  BY DEF Safe, ClientAt
<1>6. Len(inbox[c]) = 0 /\ Len(toLeader[c]) = 0 /\ Settled(c)
  BY <1>2, <1>5 DEF Phase
<1>7. \A n \in Notifier, d \in Client : Sending(n, d)' <=> Sending(n, d)
  BY <1>1 DEF Sending
<1> HIDE DEF N
<1>8. ClientAt(c)'
  <2>1. cpc'[c] \in {"send", "exit"} /\ ppc'[c] = "recv" /\ conn'[c] = "open"
    BY <1>1, <1>2 DEF TypeOK
  <2>2. Settled(c)' /\ pending'[c].left = 0
    BY <1>2, <1>6, <1>7 DEF Settled
  <2>3. Phase(c)'
    BY <1>2, <1>6, <2>1, <2>2 DEF Phase, Between
  <2>4. Listed(c)'
    BY <1>3, <1>4 DEF Listed
  <2>5. ~ (pending'[c].left > 0)
    BY <2>2
  <2> QED
    BY <1>2, <1>5, <2>3, <2>4, <2>5 DEF ClientAt
<1>9. ASSUME NEW d \in Client \ {c}
      PROVE  /\ cpc'[d] = cpc[d] /\ commitCount'[d] = commitCount[d]
             /\ inbox'[d] = inbox[d] /\ toLeader'[d] = toLeader[d] /\ conn'[d] = conn[d]
             /\ ppc'[d] = ppc[d] /\ record'[d] = record[d] /\ pending'[d] = pending[d]
             /\ \A n \in Notifier : Sending(n, d)' <=> Sending(n, d)
             /\ Live(d) => heap'[record[d]].id = heap[record[d]].id
  <2>1. Live(d) => record[d] \in Addr \ {a}
    BY <1>1 DEF RecordsInv, RecordAt
  <2>2. cpc'[d] = cpc[d] /\ conn'[d] = conn[d] /\ ppc'[d] = ppc[d] /\ record'[d] = record[d]
    BY <1>1, <1>2, <1>4 DEF TypeOK
  <2>3. Live(d) => heap'[record[d]].id = heap[record[d]].id
    BY <1>4, <2>1
  <2> QED
    BY <1>2, <1>7, <2>2, <2>3
<1>10. ASSUME NEW n \in Notifier PROVE TargetAt(n)'
  <2>1. SUFFICES ASSUME target[n] /= None
                 PROVE  target[n].addr = record'[target[n].message.client]
    BY <1>1 DEF TargetAt
  <2>2. target[n].message.client \in Client /\ target[n].message.client /= c
    BY <1>6, <2>1 DEF Settled, Sending, TypeOK, Message
  <2>3. target[n].addr = record[target[n].message.client]
    BY <2>1 DEF Safe, TargetAt
  <2> QED
    BY <1>4, <2>2, <2>3
<1>11. \A i \in DOMAIN clientNodes :
          i \in DOMAIN clientNodes' /\ clientNodes'[i] = clientNodes[i]
  BY <1>3
<1> QED
  BY <1>2, <1>8, <1>9, <1>10, <1>11, SafeKept

LEMMA sendSafe ==
    ASSUME TypeOK, Safe, NEW c \in Client, sendCommand(c) \/ sendExit(c)
    PROVE  Safe'
<1>1. /\ conn' = conn /\ inbox' = inbox /\ heap' = heap /\ record' = record /\ ppc' = ppc
      /\ clientNodes' = clientNodes /\ target' = target /\ pending' = pending /\ ended' = ended
  BY DEF sendCommand, sendExit, recordVars, producerVars
<1>2. PICK kind \in {"CLIENT_COMMAND", "CLIENT_EXIT"} :
          /\ toLeader' = [toLeader EXCEPT ![c] = Append(@, kind)]
          /\ \/ /\ kind = "CLIENT_COMMAND" /\ cpc[c] = "send"
                /\ cpc' = [cpc EXCEPT ![c] = "wait"]
                /\ commitCount' = [commitCount EXCEPT ![c] = 0]
             \/ /\ kind = "CLIENT_EXIT" /\ cpc[c] = "exit"
                /\ cpc' = [cpc EXCEPT ![c] = "bye"] /\ commitCount' = commitCount
  BY DEF sendCommand, sendExit, send
<1>3. ClientAt(c)
  BY DEF Safe
<1>4. Between(c)
  BY <1>2, <1>3 DEF ClientAt, Phase
<1>5. Len(toLeader'[c]) = 1 /\ Head(toLeader'[c]) = kind
  <2>1. toLeader[c] \in Seq({"CLIENT_COMMAND", "CLIENT_EXIT"}) /\ Len(toLeader[c]) = 0
    BY <1>4 DEF TypeOK, Between
  <2>2. toLeader'[c] = Append(toLeader[c], kind)
    BY <1>2 DEF TypeOK
  <2> QED
    BY <2>1, <2>2, AppendIs
<1>6. Settled(c)'
  BY <1>1, <1>4 DEF Between, Settled, Sending
<1>7. Phase(c)'
  <2>1. CASE kind = "CLIENT_COMMAND"
    <3>1. cpc'[c] = "wait" /\ commitCount'[c] = 0
      BY <1>2, <2>1 DEF TypeOK
    <3> QED
      BY <1>1, <1>4, <1>5, <1>6, <2>1, <3>1 DEF Phase, Between, Waiting
  <2>2. CASE kind = "CLIENT_EXIT"
    <3>1. cpc'[c] = "bye"
      BY <1>2, <2>2 DEF TypeOK
    <3>2. ppc'[c] = "recv" /\ Connected(c)' /\ conn'[c] = "open" /\ Len(inbox'[c]) = 0
      BY <1>1, <1>4 DEF Between, Connected
    <3> QED
      BY <1>5, <1>6, <2>2, <3>1, <3>2 DEF Phase, Leaving
  <2> QED
    BY <2>1, <2>2
<1>8. ClientAt(c)'
  BY <1>1, <1>3, <1>7 DEF ClientAt, Listed, Live
<1>9. \A d \in Client \ {c} :
          cpc'[d] = cpc[d] /\ commitCount'[d] = commitCount[d] /\ toLeader'[d] = toLeader[d]
  BY <1>2 DEF TypeOK
<1> QED
  BY <1>1, <1>8, <1>9, SafeKeptAlone

LEMMA receiveCommitSafe ==
    ASSUME TypeOK, Safe, NEW c \in Client, receiveCommit(c)
    PROVE  Safe'
<1> DEFINE count == commitCount[c] + (IF Head(inbox[c]).command = commandId[c] THEN 1 ELSE 0)
<1>1. /\ conn' = conn /\ toLeader' = toLeader /\ heap' = heap /\ record' = record /\ ppc' = ppc
      /\ clientNodes' = clientNodes /\ target' = target /\ pending' = pending /\ ended' = ended
  BY DEF receiveCommit, recordVars, producerVars
<1>2. /\ cpc[c] = "wait" /\ inbox' = [inbox EXCEPT ![c] = Tail(@)]
      /\ commitCount' = [commitCount EXCEPT ![c] = count]
      /\ \/ AllCommitted(count) /\ \E v \in {"exit", "send"} : cpc' = [cpc EXCEPT ![c] = v]
         \/ ~ AllCommitted(count) /\ cpc' = cpc
  BY DEF receiveCommit
<1>3. /\ inbox'[c] = Tail(inbox[c]) /\ Len(inbox'[c]) = Len(inbox[c]) - 1
      /\ Len(inbox[c]) \in Nat \ {0}
      /\ \A i \in DOMAIN inbox'[c] : i + 1 \in DOMAIN inbox[c] /\ inbox'[c][i] = inbox[c][i + 1]
  <2>1. inbox[c] \in Seq(Message) /\ inbox[c] /= <<>>
    BY DEF receiveCommit, TypeOK
  <2>2. inbox'[c] = Tail(inbox[c])
    BY <1>2 DEF TypeOK
  <2> QED
    BY <2>1, <2>2, TailIs
<1>4. ClientAt(c)
  BY DEF Safe
<1> DEFINE l == Len(inbox[c])
           p == pending[c].left
           t == Cardinality(Targets(c))
<1>5. /\ ppc[c] = "recv" /\ conn[c] = "open" /\ Len(toLeader[c]) = 0
      /\ commitCount[c] + l + p + t <= MAX_CLI_REQ
  BY <1>2, <1>3, <1>4 DEF ClientAt, Phase, Waiting
<1>6. /\ commitCount[c] \in Nat /\ p \in Nat /\ t \in Nat /\ l \in Nat \ {0}
      /\ MAX_CLI_REQ \in Nat \ {0}
  BY <1>3, SessionsAssumption, TargetsFinite DEF TypeOK
<1>7. count \in Nat /\ count + (l - 1) + p + t <= MAX_CLI_REQ
  <2>1. count \in {commitCount[c], commitCount[c] + 1}
    BY <1>6
  <2> HIDE DEF count, l, p, t
  <2> QED
    BY <1>5, <1>6, <2>1
<1>8. /\ \A n \in Notifier : Sending(n, c)' <=> Sending(n, c)
      /\ Targets(c)' = Targets(c) /\ (Settled(c)' <=> Settled(c))
  BY <1>1 DEF Sending, Targets, Settled
<1>9. Phase(c)'
  <2>1. CASE AllCommitted(count)
    <3>1. l - 1 = 0 /\ p = 0 /\ t = 0
      <4>1. count = MAX_CLI_REQ
        BY <2>1 DEF AllCommitted
      <4> HIDE DEF count, l, p, t
      <4> QED
        BY <1>6, <1>7, <4>1
    <3>2. Settled(c)
      BY <3>1, TargetsFinite DEF Settled
    <3>3. cpc'[c] \in {"exit", "send"}
      BY <1>2, <2>1 DEF TypeOK
    <3>4. Between(c)'
      BY <1>1, <1>3, <1>5, <1>8, <3>1, <3>2 DEF Between
    <3> QED
      BY <3>3, <3>4 DEF Phase
  <2>2. CASE ~ AllCommitted(count)
    <3>1. cpc'[c] = "wait" /\ commitCount'[c] = count
      BY <1>2, <2>2 DEF TypeOK
    <3>2. commitCount'[c] + Len(inbox'[c]) + pending'[c].left + Cardinality(Targets(c)')
              <= MAX_CLI_REQ
      BY <1>1, <1>3, <1>7, <1>8, <3>1
    <3> QED
      BY <1>1, <1>5, <3>1, <3>2 DEF Phase, Waiting
  <2> QED
    BY <2>1, <2>2
<1>10. ClientAt(c)'
  <2>1. \A i \in DOMAIN inbox'[c] : inbox'[c][i].client = c
    BY <1>3, <1>4 DEF ClientAt
  <2> QED
    BY <1>1, <1>4, <1>9, <2>1 DEF ClientAt, Listed, Live
<1>11. \A d \in Client \ {c} :
          cpc'[d] = cpc[d] /\ commitCount'[d] = commitCount[d] /\ inbox'[d] = inbox[d]
  BY <1>2 DEF TypeOK
<1> QED
  BY <1>1, <1>10, <1>11, SafeKeptAlone

\* What hanging up does to a connection with nothing unread.
LEMMA HangupIs ==
    ASSUME TypeOK, NEW c \in Client, Hangup(c), inbox'[c] \in Seq(Message), Len(inbox'[c]) = 0
    PROVE  /\ conn'[c] = IF conn[c] \in {"closed", "rst"} THEN conn[c] ELSE "fin"
           /\ \A d \in Client \ {c} : conn'[d] = conn[d]
<1>1. inbox'[c] = <<>>
  BY EmptyIs
<1> QED
  BY <1>1 DEF Hangup, TypeOK

LEMMA receiveByeSafe ==
    ASSUME TypeOK, TypeOK', Safe, NEW c \in Client, receiveBye(c)
    PROVE  Safe'
<1>1. /\ toLeader' = toLeader /\ heap' = heap /\ record' = record /\ ppc' = ppc
      /\ clientNodes' = clientNodes /\ target' = target /\ pending' = pending /\ ended' = ended
      /\ commitCount' = commitCount
      /\ cpc[c] = "bye" /\ cpc' = [cpc EXCEPT ![c] = "left"]
  BY DEF receiveBye, recordVars, producerVars
<1>2. /\ inbox'[c] = Tail(inbox[c]) /\ Len(inbox'[c]) = Len(inbox[c]) - 1
      /\ Len(inbox[c]) \in Nat \ {0} /\ \A d \in Client \ {c} : inbox'[d] = inbox[d]
  <2>1. inbox[c] \in Seq(Message) /\ inbox[c] /= <<>>
    BY DEF receiveBye, TypeOK
  <2>2. inbox'[c] = Tail(inbox[c]) /\ \A d \in Client \ {c} : inbox'[d] = inbox[d]
    BY DEF receiveBye, TypeOK
  <2> QED
    BY <2>1, <2>2, TailIs
<1>3. ClientAt(c)
  BY DEF Safe
<1>4. Leaving(c)
  BY <1>1, <1>3 DEF ClientAt, Phase
<1>5. Len(inbox'[c]) = 0 /\ ppc[c] \in {"close", "free", "done"} /\ Len(toLeader[c]) = 0
  <2>1. Len(inbox[c]) <= 1
    BY <1>4 DEF Leaving
  <2>2. Len(inbox'[c]) = 0
    <3> DEFINE l == Len(inbox[c])
    <3>1. l \in Nat \ {0} /\ l <= 1 /\ Len(inbox'[c]) = l - 1
      BY <1>2, <2>1
    <3> HIDE DEF l
    <3>2. l = 1
      BY <3>1
    <3> QED
      BY <3>1, <3>2
  <2> QED
    BY <1>2, <1>4, <2>2 DEF Leaving, TypeOK
<1>6. /\ conn'[c] = IF conn[c] \in {"closed", "rst"} THEN conn[c] ELSE "fin"
      /\ \A d \in Client \ {c} : conn'[d] = conn[d]
  <2>1. inbox'[c] \in Seq(Message) /\ Hangup(c)
    BY DEF receiveBye, TypeOK
  <2> QED
    BY <1>5, <2>1, HangupIs
<1>7. Settled(c)' /\ (Connected(c)' <=> Connected(c))
  BY <1>1, <1>4 DEF Leaving, Settled, Sending, Connected
<1>8. conn'[c] = IF Connected(c) THEN "fin" ELSE "closed"
  BY <1>4, <1>6 DEF Leaving
<1>9. Left(c)'
  BY <1>1, <1>5, <1>7, <1>8 DEF Left
<1>10. cpc'[c] = "left" /\ \A d \in Client \ {c} : cpc'[d] = cpc[d]
  BY <1>1 DEF TypeOK
<1>11. ClientAt(c)'
  <2>1. Phase(c)'
    BY <1>9, <1>10 DEF Phase
  <2>2. DOMAIN inbox'[c] = {}
    <3>1. inbox'[c] \in Seq(Message)
      BY DEF TypeOK
    <3> QED
      BY <1>5, <3>1
  <2> QED
    BY <1>1, <1>3, <2>1, <2>2 DEF ClientAt, Listed, Live
<1> QED
  BY <1>1, <1>2, <1>6, <1>10, <1>11, SafeKeptAlone

LEMMA killSafe ==
    ASSUME TypeOK, Safe, NEW c \in Client, kill(c), ~ hurt'
    PROVE  Safe'
<1>1. /\ toLeader' = toLeader /\ heap' = heap /\ record' = record /\ ppc' = ppc
      /\ clientNodes' = clientNodes /\ target' = target /\ pending' = pending /\ ended' = ended
      /\ commitCount' = commitCount /\ inbox' = inbox
      /\ cpc[c] \in {"send", "exit"} /\ cpc' = [cpc EXCEPT ![c] = "killed"]
  BY DEF kill, recordVars, producerVars
<1>2. ClientAt(c)
  BY DEF Safe
<1>3. Between(c)
  BY <1>1, <1>2 DEF ClientAt, Phase
<1>4. conn'[c] = "fin" /\ \A d \in Client \ {c} : conn'[d] = conn[d]
  <2>1. inbox'[c] \in Seq(Message) /\ Hangup(c) /\ Len(inbox'[c]) = 0 /\ conn[c] = "open"
    BY <1>1, <1>3 DEF kill, TypeOK, Between
  <2> QED
    BY <2>1, HangupIs
<1>5. Settled(c)' /\ Connected(c)' /\ ppc'[c] = "recv" /\ Len(inbox'[c]) = 0 /\ Len(toLeader'[c]) = 0
  BY <1>1, <1>3 DEF Between, Settled, Sending, Connected
<1>6. cpc'[c] = "killed" /\ \A d \in Client \ {c} : cpc'[d] = cpc[d]
  BY <1>1 DEF TypeOK
<1>7. Phase(c)'
  BY <1>4, <1>5, <1>6 DEF Phase, Killed
<1>8. ClientAt(c)'
  BY <1>1, <1>2, <1>7 DEF ClientAt, Listed, Live
<1> QED
  BY <1>1, <1>4, <1>6, <1>8, SafeKeptAlone

LEMMA queueCommandSafe ==
    ASSUME TypeOK, RecordsInv, Safe, NEW c \in Client, queueCommand(c)
    PROVE  Safe'
<1>1. /\ conn' = conn /\ heap' = heap /\ record' = record /\ ppc' = ppc
      /\ clientNodes' = clientNodes /\ target' = target /\ ended' = ended
      /\ commitCount' = commitCount /\ inbox' = inbox /\ cpc' = cpc
      /\ ppc[c] = "recv" /\ Head(toLeader[c]) = "CLIENT_COMMAND"
  BY DEF queueCommand, clientVars, recordVars, producerVars
<1>2. /\ Len(toLeader'[c]) = Len(toLeader[c]) - 1 /\ Len(toLeader[c]) \in Nat \ {0}
      /\ \A d \in Client \ {c} : toLeader'[d] = toLeader[d]
  <2>1. toLeader[c] \in Seq({"CLIENT_COMMAND", "CLIENT_EXIT"}) /\ toLeader[c] /= <<>>
    BY DEF queueCommand, TypeOK
  <2>2. toLeader'[c] = Tail(toLeader[c]) /\ \A d \in Client \ {c} : toLeader'[d] = toLeader[d]
    BY DEF queueCommand, TypeOK
  <2> QED
    BY <2>1, <2>2, TailIs
<1>3. /\ pending'[c].id = heap[record[c]].id /\ pending'[c].left = MAX_CLI_REQ
      /\ \A d \in Client \ {c} : pending'[d] = pending[d]
  BY DEF queueCommand, TypeOK
<1>4. ClientAt(c)
  BY DEF Safe
<1>5. Len(toLeader[c]) /= 0
  BY <1>2
<1>6. /\ cpc[c] = "wait" /\ conn[c] = "open" /\ Len(toLeader[c]) = 1
      /\ Len(inbox[c]) = 0 /\ Settled(c) /\ commitCount[c] = 0
  <2>1. cpc[c] \in {"out", "send", "wait", "exit", "bye", "left", "killed"} /\ Phase(c)
    BY <1>4 DEF ClientAt, TypeOK
  <2>2. cpc[c] = "wait"
    BY <1>1, <1>5, <2>1 DEF Phase, Between, Leaving, Left, Killed
  <2> QED
    BY <1>5, <2>1, <2>2 DEF Phase, Waiting
<1>7. Cardinality(Targets(c)') = 0 /\ Len(toLeader'[c]) = 0
  <2>1. \A n \in Notifier : ~ Sending(n, c)'
    BY <1>1, <1>6 DEF Settled, Sending
  <2>2. Len(toLeader'[c]) = 0
    BY <1>2, <1>6
  <2> QED
    BY <2>1, <2>2, TargetsFiniteNext
<1>8. Phase(c)'
  <2>1. commitCount'[c] + Len(inbox'[c]) + pending'[c].left + Cardinality(Targets(c)')
              <= MAX_CLI_REQ
    <3>1. commitCount'[c] = 0 /\ Len(inbox'[c]) = 0
      BY <1>1, <1>6
    <3>2. MAX_CLI_REQ \in Nat
      BY SessionsAssumption
    <3> QED
      BY <1>3, <1>7, <3>1, <3>2
  <2> QED
    BY <1>1, <1>6, <1>7, <2>1 DEF Phase, Waiting
<1>9. ClientAt(c)'
  BY <1>1, <1>3, <1>4, <1>8 DEF ClientAt, Listed, Live
<1> QED
  BY <1>1, <1>2, <1>3, <1>9, SafeKeptAlone

LEMMA endSessionSafe ==
    ASSUME TypeOK, Safe, NEW c \in Client, endSession(c)
    PROVE  Safe'
<1>1. /\ conn' = conn /\ heap' = heap /\ record' = record /\ inbox' = inbox /\ cpc' = cpc
      /\ clientNodes' = clientNodes /\ target' = target /\ ended' = ended /\ pending' = pending
      /\ commitCount' = commitCount
      /\ ppc[c] = "recv" /\ ppc' = [ppc EXCEPT ![c] = "bye"]
  BY DEF endSession, clientVars, recordVars
<1>2. /\ Len(toLeader'[c]) = 0 /\ \A d \in Client \ {c} : toLeader'[d] = toLeader[d]
  <2>1. toLeader'[c] = <<>> /\ \A d \in Client \ {c} : toLeader'[d] = toLeader[d]
    BY DEF endSession, TypeOK
  <2> QED
    BY <2>1
<1>3. \/ Len(toLeader[c]) /= 0 /\ Head(toLeader[c]) = "CLIENT_EXIT"
      \/ Len(toLeader[c]) = 0 /\ conn[c] = "fin"
  <2>1. toLeader[c] \in Seq({"CLIENT_COMMAND", "CLIENT_EXIT"})
    BY DEF TypeOK
  <2>2. Len(toLeader[c]) = 0 <=> toLeader[c] = <<>>
    BY <2>1, EmptyIs
  <2> QED
    BY <2>2 DEF endSession
<1>4. ClientAt(c)
  BY DEF Safe
<1>5. \/ cpc[c] = "bye" /\ Leaving(c)
      \/ cpc[c] = "killed" /\ Killed(c)
  <2>1. cpc[c] \in {"out", "send", "wait", "exit", "bye", "left", "killed"} /\ Phase(c)
    BY <1>4 DEF ClientAt, TypeOK
  <2> QED
    BY <1>1, <1>3, <2>1 DEF Phase, Between, Waiting, Left
<1>6. ppc'[c] = "bye" /\ \A d \in Client \ {c} : ppc'[d] = ppc[d]
  BY <1>1 DEF TypeOK
<1>7. Settled(c)' /\ Connected(c)' /\ Connected(c) /\ Len(inbox'[c]) = 0
  BY <1>1, <1>5, <1>6 DEF Leaving, Killed, Settled, Sending, Connected
<1>8. Phase(c)'
  <2>1. CASE cpc[c] = "bye" /\ Leaving(c)
    BY <1>1, <1>2, <1>6, <1>7, <2>1 DEF Phase, Leaving
  <2>2. CASE cpc[c] = "killed" /\ Killed(c)
    BY <1>1, <1>2, <1>6, <1>7, <2>2 DEF Phase, Killed
  <2> QED
    BY <1>5, <2>1, <2>2
<1>9. Live(c)
  BY <1>1 DEF Live
<1>10. ClientAt(c)'
  BY <1>1, <1>4, <1>8, <1>9 DEF ClientAt, Listed
<1> QED
  BY <1>1, <1>2, <1>6, <1>10, SafeKeptAlone

LEMMA receiveResetSafe ==
    ASSUME TypeOK, Safe, NEW c \in Client
    PROVE  ~ receiveReset(c)
<1> SUFFICES ASSUME receiveReset(c) PROVE FALSE
  OBVIOUS
<1>1. ppc[c] = "recv" /\ conn[c] = "rst"
  BY DEF receiveReset
<1>2. cpc[c] \in {"out", "send", "wait", "exit", "bye", "left", "killed"} /\ Phase(c)
  BY DEF Safe, ClientAt, TypeOK
<1> QED
  BY <1>1, <1>2 DEF Phase, Between, Waiting, Leaving, Left, Killed, Connected

\* A client that a thread of the leader sends to has an open connection, or has
\* just closed it.
LEMMA sayByeSafe ==
    ASSUME TypeOK, ClientsInv, RecordsInv, Safe, NEW c \in Client, sayBye(c)
    PROVE  Safe'
<1> DEFINE m == cmByFields(c, None)
<1>1. /\ heap' = heap /\ record' = record /\ cpc' = cpc /\ toLeader' = toLeader
      /\ target' = target /\ pending' = pending /\ commitCount' = commitCount
      /\ ppc[c] = "bye" /\ ppc' = [ppc EXCEPT ![c] = "close"] /\ sendRPC(record[c], m)
  BY DEF sayBye, clientVars
<1>2. m \in Message /\ m.client = c
  BY DEF cmByFields, Message
<1> HIDE DEF m
<1>3. record[c] \in Addr /\ heap[record[c]].sock \in Sock /\ owner[heap[record[c]].sock] = c
  BY <1>1 DEF RecordsInv, RecordAt, Live, Connected
<1>4. ClientAt(c)
  BY DEF Safe
<1>5. \/ cpc[c] = "bye" /\ Leaving(c)
      \/ cpc[c] = "killed" /\ Killed(c)
  <2>1. cpc[c] \in {"out", "send", "wait", "exit", "bye", "left", "killed"} /\ Phase(c)
    BY <1>4 DEF ClientAt, TypeOK
  <2>2. cpc[c] /= "out"
    BY <1>1 DEF ClientsInv
  <2> QED
    BY <1>1, <2>1, <2>2 DEF Phase, Between, Waiting, Left
<1>6. conn[c] = IF cpc[c] = "bye" THEN "open" ELSE "fin"
  BY <1>1, <1>5 DEF Leaving, Killed, Connected
<1>7. /\ inbox' = [inbox EXCEPT ![c] = IF conn[c] = "open" THEN Append(@, m) ELSE @]
      /\ conn' = [conn EXCEPT ![c] = IF @ = "fin" THEN "rst" ELSE @]
      /\ clientNodes' = clientNodes /\ ended' = ended
  <2>1. c /= None /\ conn[c] /= "rst"
    BY <1>6, SessionsAssumption
  <2>2. sendRPC(record[c], m)
    BY <1>1
  <2> QED
    BY <1>3, <2>1, <2>2 DEF sendRPC
<1>8. ppc'[c] = "close" /\ \A d \in Client \ {c} : ppc'[d] = ppc[d]
  BY <1>1 DEF TypeOK
<1>9. /\ conn'[c] = IF cpc[c] = "bye" THEN "open" ELSE "rst"
      /\ inbox'[c] = IF cpc[c] = "bye" THEN Append(inbox[c], m) ELSE inbox[c]
      /\ \A d \in Client \ {c} : conn'[d] = conn[d] /\ inbox'[d] = inbox[d]
  BY <1>6, <1>7 DEF TypeOK
<1>10. Settled(c)' /\ Connected(c)' /\ Len(inbox[c]) = 0 /\ Len(toLeader[c]) = 0
  BY <1>1, <1>5, <1>8 DEF Leaving, Killed, Settled, Sending, Connected
<1>11. ClientAt(c)'
  <2>1. CASE cpc[c] = "bye"
    <3>1. inbox'[c] = Append(inbox[c], m) /\ inbox[c] \in Seq(Message)
      BY <1>9, <2>1 DEF TypeOK
    <3>2. /\ Len(inbox'[c]) = 1
          /\ \A i \in DOMAIN inbox'[c] :
                inbox'[c][i] = m \/ (i \in DOMAIN inbox[c] /\ inbox'[c][i] = inbox[c][i])
      BY <1>2, <1>10, <3>1, AppendIs
    <3>3. \A i \in DOMAIN inbox'[c] : inbox'[c][i].client = c
      BY <1>2, <1>4, <3>2 DEF ClientAt
    <3>4. Phase(c)'
      BY <1>1, <1>8, <1>9, <1>10, <2>1, <3>2 DEF Phase, Leaving
    <3>5. Live(c)
      BY <1>1 DEF Live
    <3> QED
      BY <1>1, <1>4, <1>7, <3>3, <3>4, <3>5 DEF ClientAt, Listed
  <2>2. CASE cpc[c] /= "bye"
    <3>1. inbox'[c] = inbox[c] /\ conn'[c] = "rst" /\ cpc'[c] = "killed"
      BY <1>1, <1>5, <1>9, <2>2
    <3>2. Phase(c)'
      BY <1>1, <1>8, <1>10, <3>1 DEF Phase, Killed
    <3>3. Live(c)
      BY <1>1 DEF Live
    <3> QED
      BY <1>1, <1>4, <1>7, <3>1, <3>2, <3>3 DEF ClientAt, Listed
  <2> QED
    BY <2>1, <2>2
<1> QED
  BY <1>1, <1>7, <1>8, <1>9, <1>11, SafeKeptAlone

LEMMA closeRecvSockSafe ==
    ASSUME TypeOK, ClientsInv, Safe, NEW c \in Client, closeRecvSock(c)
    PROVE  Safe'
<1>1. /\ heap' = heap /\ record' = record /\ cpc' = cpc /\ toLeader' = toLeader
      /\ inbox' = inbox /\ clientNodes' = clientNodes /\ ended' = ended
      /\ target' = target /\ pending' = pending /\ commitCount' = commitCount
      /\ ppc[c] = "close" /\ ppc' = [ppc EXCEPT ![c] = "free"]
      /\ conn' = [conn EXCEPT ![c] = "closed"]
  BY DEF closeRecvSock, clientVars
<1>2. ClientAt(c)
  BY DEF Safe
<1>3. /\ ppc'[c] = "free" /\ conn'[c] = "closed"
      /\ \A d \in Client \ {c} : ppc'[d] = ppc[d] /\ conn'[d] = conn[d]
  BY <1>1 DEF TypeOK
<1>4. /\ cpc[c] \in {"bye", "left", "killed"}
      /\ cpc[c] = "bye" => Leaving(c)
      /\ cpc[c] = "left" => Left(c)
      /\ cpc[c] = "killed" => Killed(c)
  <2>1. cpc[c] \in {"out", "send", "wait", "exit", "bye", "left", "killed"} /\ Phase(c)
    BY <1>2 DEF ClientAt, TypeOK
  <2>2. cpc[c] /= "out"
    BY <1>1 DEF ClientsInv
  <2> QED
    BY <1>1, <2>1, <2>2 DEF Phase, Between, Waiting
<1>5. ~ Connected(c)' /\ Live(c) /\ Live(c)'
  BY <1>1, <1>3 DEF Connected, Live
<1>6. Settled(c)'
  BY <1>1, <1>4 DEF Leaving, Left, Killed, Settled, Sending
<1>7. Phase(c)'
  <2>1. cpc[c] = "bye" => Leaving(c)'
    BY <1>1, <1>3, <1>4, <1>5, <1>6 DEF Leaving
  <2>2. cpc[c] = "left" => Left(c)'
    BY <1>1, <1>3, <1>4, <1>5, <1>6 DEF Left
  <2>3. cpc[c] = "killed" => Killed(c)'
    BY <1>1, <1>3, <1>4, <1>5, <1>6 DEF Killed
  <2> QED
    BY <1>1, <1>4, <2>1, <2>2, <2>3 DEF Phase
<1>8. ClientAt(c)'
  BY <1>1, <1>2, <1>5, <1>7 DEF ClientAt, Listed
<1> QED
  BY <1>1, <1>3, <1>8, SafeKeptAlone

LEMMA freeSafe ==
    ASSUME TypeOK, ClientsInv, RecordsInv, Safe, NEW c \in Client, free(c)
    PROVE  Safe'
<1>1. /\ record' = record /\ cpc' = cpc /\ toLeader' = toLeader /\ conn' = conn
      /\ inbox' = inbox /\ clientNodes' = clientNodes /\ ended' = ended
      /\ target' = target /\ pending' = pending /\ commitCount' = commitCount
      /\ ppc[c] = "free" /\ ppc' = [ppc EXCEPT ![c] = "done"]
  BY DEF free, clientVars, wireVars
<1>2. \A a \in Addr \ {record[c]} : heap'[a] = heap[a]
  BY freeIs
<1>3. ClientAt(c)
  BY DEF Safe
<1>4. ppc'[c] = "done" /\ \A d \in Client \ {c} : ppc'[d] = ppc[d]
  BY <1>1 DEF TypeOK
<1>5. /\ cpc[c] \in {"bye", "left", "killed"}
      /\ cpc[c] = "bye" => Leaving(c)
      /\ cpc[c] = "left" => Left(c)
      /\ cpc[c] = "killed" => Killed(c)
  <2>1. cpc[c] \in {"out", "send", "wait", "exit", "bye", "left", "killed"} /\ Phase(c)
    BY <1>3 DEF ClientAt, TypeOK
  <2>2. cpc[c] /= "out"
    BY <1>1 DEF ClientsInv
  <2> QED
    BY <1>1, <2>1, <2>2 DEF Phase, Between, Waiting
<1>6. ~ Connected(c)' /\ ~ Connected(c) /\ ~ Live(c)'
  BY <1>1, <1>4 DEF Connected, Live
<1>7. \A n \in Notifier, d \in Client : Sending(n, d)' <=> Sending(n, d)
  BY <1>1 DEF Sending
<1>8. Settled(c) /\ Settled(c)'
  BY <1>1, <1>5, <1>7 DEF Leaving, Left, Killed, Settled
<1>9. Phase(c)'
  <2>1. cpc[c] = "bye" => Leaving(c)'
    BY <1>1, <1>4, <1>5, <1>6, <1>8 DEF Leaving
  <2>2. cpc[c] = "left" => Left(c)'
    BY <1>1, <1>4, <1>5, <1>6, <1>8 DEF Left
  <2>3. cpc[c] = "killed" => Killed(c)'
    BY <1>1, <1>4, <1>5, <1>6, <1>8 DEF Killed
  <2> QED
    BY <1>1, <1>5, <2>1, <2>2, <2>3 DEF Phase
<1>10. ClientAt(c)'
  <2>1. ~ (pending'[c].left > 0)
    BY <1>8 DEF Settled
  <2> QED
    BY <1>1, <1>3, <1>6, <1>9, <2>1 DEF ClientAt, Listed
<1>11. ASSUME NEW d \in Client \ {c}, Live(d) PROVE heap'[record[d]].id = heap[record[d]].id
  <2>1. Live(c)
    BY <1>1 DEF Live
  <2>2. record[d] \in Addr /\ record[d] /= record[c]
    BY <1>11, <2>1 DEF RecordsInv, RecordAt
  <2> QED
    BY <1>2, <2>2
<1>12. \A n \in Notifier : TargetAt(n)'
  BY <1>1 DEF Safe, TargetAt
<1>13. \A d \in Client \ {c} :
               /\ cpc'[d] = cpc[d] /\ commitCount'[d] = commitCount[d]
               /\ inbox'[d] = inbox[d] /\ toLeader'[d] = toLeader[d] /\ conn'[d] = conn[d]
               /\ ppc'[d] = ppc[d] /\ record'[d] = record[d] /\ pending'[d] = pending[d]
               /\ \A n \in Notifier : Sending(n, d)' <=> Sending(n, d)
               /\ Live(d) => heap'[record[d]].id = heap[record[d]].id
  BY <1>1, <1>4, <1>7, <1>11
<1> QED
  BY <1>1, <1>10, <1>12, <1>13, SafeKept

\* The number of a client that is connected leads to its record, although freed
\* records that are still in the list may have the number 0.
LEMMA RecordOfClient ==
    ASSUME TypeOK, RecordsInv, Safe, NEW c \in Client, Live(c)
    PROVE  RecordOf(heap[record[c]].id) = record[c]
<1> DEFINE id == heap[record[c]].id
<1>1. id \in Nat /\ id + 1 \in DOMAIN clientNodes /\ clientNodes[id + 1] = record[c]
  BY DEF RecordsInv, RecordAt, Safe, ClientAt, Listed
<1>2. PICK k \in DOMAIN clientNodes :
          k <= id + 1 /\ RecordOf(id) = clientNodes[k] /\ heap[clientNodes[k]].id = id
  <2>1. heap[clientNodes[id + 1]].id = id
    BY <1>1
  <2> HIDE DEF id
  <2> QED
    BY <1>1, <2>1, RecordOfIs
<1>3. k \in Nat \ {0}
  BY DEF TypeOK
<1>4. CASE id = 0
  <2>1. k = 1
    BY <1>2, <1>3, <1>4
  <2> QED
    BY <1>1, <1>2, <1>4, <2>1
<1>5. CASE id /= 0
  <2>1. clientNodes[k] \in Addr
    BY DEF TypeOK
  <2>2. heap[clientNodes[k]].used
    <3>1. id \notin {0, Garbage}
      BY <1>1, <1>5 DEF Garbage
    <3> QED
      BY <1>2, <2>1, <3>1 DEF RecordsInv, HeapAt
  <2>3. PICK d \in Client : Live(d) /\ record[d] = clientNodes[k]
    BY <2>1, <2>2 DEF RecordsInv, HeapAt
  <2>4. heap[record[d]].id = id
    BY <1>2, <2>3
  <2>5. clientNodes[heap[record[d]].id + 1] = record[d]
    BY <2>3 DEF Safe, ClientAt, Listed
  <2>6. record[d] = record[c]
    BY <1>1, <2>4, <2>5
  <2> QED
    BY <1>2, <2>3, <2>6
<1> QED
  BY <1>4, <1>5

LEMMA findClientSafe ==
    ASSUME TypeOK, RecordsInv, Safe, NEW n \in Notifier, findClient(n)
    PROVE  Safe'
<1>1. PICK c \in Client :
              /\ pending[c].left \in Nat \ {0}
              /\ pending'[c].left = pending[c].left - 1 /\ pending'[c].id = pending[c].id
              /\ \A d \in Client \ {c} : pending'[d] = pending[d]
              /\ target[n] = None
              /\ target' = [target EXCEPT ![n] =
                    IF RecordOf(pending[c].id) = None THEN None
                    ELSE [addr |-> RecordOf(pending[c].id),
                          message |-> cmByFields(c, pending[c].command)]]
  BY findClientIs
<1>2. /\ record' = record /\ cpc' = cpc /\ toLeader' = toLeader /\ conn' = conn
      /\ inbox' = inbox /\ clientNodes' = clientNodes /\ ended' = ended /\ ppc' = ppc
      /\ heap' = heap /\ commitCount' = commitCount
  BY DEF findClient, clientVars, wireVars, recordVars, producerVars
<1>3. ClientAt(c)
  BY DEF Safe
<1>4. /\ cpc[c] = "wait" /\ ppc[c] = "recv" /\ conn[c] = "open" /\ Len(toLeader[c]) = 0
      /\ commitCount[c] + Len(inbox[c]) + pending[c].left + Cardinality(Targets(c)) <= MAX_CLI_REQ
  <2>1. ~ Settled(c)
    BY <1>1 DEF Settled
  <2> QED
    BY <1>3, <2>1, PendingWaits DEF ClientAt
<1>5. pending[c].id = heap[record[c]].id /\ RecordOf(pending[c].id) = record[c]
  <2>1. pending[c].left > 0 /\ Live(c)
    BY <1>1, <1>4 DEF Live
  <2>2. pending[c].id = heap[record[c]].id
    BY <1>3, <2>1 DEF ClientAt
  <2> QED
    BY <2>1, <2>2, RecordOfClient
<1>6. /\ \A k \in Notifier \ {n} : target'[k] = target[k]
      /\ target'[n] /= None =>
            target'[n].addr = record[c] /\ target'[n].message.client = c
  BY <1>1, <1>5 DEF TypeOK, cmByFields
<1>7. ASSUME NEW d \in Client \ {c} PROVE \A k \in Notifier : Sending(k, d)' <=> Sending(k, d)
  <2>1. ~ Sending(n, d) /\ ~ Sending(n, d)'
    BY <1>1, <1>6 DEF Sending
  <2> QED
    BY <1>6, <2>1 DEF Sending
<1>8. Cardinality(Targets(c)') <= Cardinality(Targets(c)) + 1
  <2>1. Targets(c)' \subseteq Targets(c) \cup {n}
    <3>1. \A k \in Notifier : Sending(k, c)' => Sending(k, c) \/ k = n
      BY <1>6 DEF Sending
    <3> QED
      BY <3>1 DEF Targets
  <2>2. IsFiniteSet(Targets(c) \cup {n}) /\ Cardinality(Targets(c) \cup {n}) <= Cardinality(Targets(c)) + 1
    <3> DEFINE T == Targets(c)
    <3>1. IsFiniteSet(T) /\ Cardinality(T) \in Nat
      BY TargetsFinite
    <3> HIDE DEF T
    <3>2. /\ IsFiniteSet(T \cup {n})
          /\ Cardinality(T \cup {n}) = IF n \in T THEN Cardinality(T) ELSE Cardinality(T) + 1
      BY <3>1, FS_AddElement
    <3>3. Cardinality(T \cup {n}) <= Cardinality(T) + 1
      BY <3>1, <3>2
    <3> QED
      BY <3>2, <3>3 DEF T
  <2>3. /\ Cardinality(Targets(c)') <= Cardinality(Targets(c) \cup {n})
        /\ Cardinality(Targets(c) \cup {n}) \in Nat
    BY <2>1, <2>2, FS_Subset, FS_CardinalityType
  <2> QED
    BY <2>2, <2>3, TargetsFinite, TargetsFiniteNext
<1>9. ClientAt(c)'
  <2> DEFINE l == Len(inbox[c])
             p == pending[c].left
             t == Cardinality(Targets(c))
             tt == Cardinality(Targets(c)')
  <2>1. /\ commitCount[c] \in Nat /\ p \in Nat /\ t \in Nat /\ l \in Nat /\ tt \in Nat
        /\ MAX_CLI_REQ \in Nat
    BY <1>1, SessionsAssumption, TargetsFinite, TargetsFiniteNext DEF TypeOK
  <2>2. commitCount[c] + l + (p - 1) + tt <= MAX_CLI_REQ
    <3>1. commitCount[c] + l + p + t <= MAX_CLI_REQ /\ tt <= t + 1
      BY <1>4, <1>8
    <3> HIDE DEF l, p, t, tt
    <3> QED
      BY <2>1, <3>1
  <2>3. commitCount'[c] + Len(inbox'[c]) + pending'[c].left + Cardinality(Targets(c)')
            <= MAX_CLI_REQ
    BY <1>1, <1>2, <2>2
  <2>4. Phase(c)'
    BY <1>2, <1>4, <2>3 DEF Phase, Waiting
  <2>5. pending'[c].id = heap'[record'[c]].id
    BY <1>1, <1>2, <1>5
  <2> QED
    BY <1>2, <1>3, <2>4, <2>5 DEF ClientAt, Listed, Live
<1>10. ASSUME NEW k \in Notifier PROVE TargetAt(k)'
  <2>1. CASE k = n
    BY <1>2, <1>6, <2>1 DEF TargetAt
  <2>2. CASE k /= n
    <3>1. TargetAt(k) /\ target'[k] = target[k]
      BY <1>6, <2>2 DEF Safe
    <3> QED
      BY <1>2, <3>1 DEF TargetAt
  <2> QED
    BY <2>1, <2>2
<1> QED
  BY <1>1, <1>2, <1>7, <1>9, <1>10, SafeKept

LEMMA notifyClientSafe ==
    ASSUME TypeOK, RecordsInv, Safe, NEW n \in Notifier, notifyClient(n)
    PROVE  Safe'
<1>0. target[n] /= None /\ target[n] \in [addr : Addr, message : Message]
  BY DEF notifyClient, TypeOK
<1>1. PICK a \in Addr, m \in Message, c \in Client :
          a = target[n].addr /\ m = target[n].message /\ c = m.client
  BY <1>0 DEF Message
<1>2. /\ sendRPC(a, m) /\ target' = [target EXCEPT ![n] = None]
      /\ record' = record /\ cpc' = cpc /\ toLeader' = toLeader /\ ppc' = ppc
      /\ heap' = heap /\ commitCount' = commitCount /\ pending' = pending
  BY <1>1 DEF notifyClient, clientVars, producerVars
<1>3. ClientAt(c)
  BY DEF Safe
<1>4. Sending(n, c) /\ ~ Settled(c)
  BY <1>0, <1>1 DEF Sending, Settled
<1>5. a = record[c]
  BY <1>0, <1>1 DEF Safe, TargetAt
<1>6. /\ cpc[c] = "wait" /\ ppc[c] = "recv" /\ conn[c] = "open" /\ Len(toLeader[c]) = 0
      /\ commitCount[c] + Len(inbox[c]) + pending[c].left + Cardinality(Targets(c)) <= MAX_CLI_REQ
  BY <1>3, <1>4, PendingWaits DEF ClientAt
<1>7. owner[heap[a].sock] = c
  BY <1>5, <1>6 DEF RecordsInv, RecordAt, Connected
<1>8. /\ inbox' = [inbox EXCEPT ![c] = IF conn[c] = "open" THEN Append(@, m) ELSE @]
      /\ conn' = [conn EXCEPT ![c] = IF @ = "fin" THEN "rst" ELSE @]
      /\ clientNodes' = clientNodes /\ ended' = ended
  <2>1. c /= None /\ conn[c] /= "rst"
    BY <1>6, SessionsAssumption
  <2> QED
    BY <1>2, <1>7, <2>1 DEF sendRPC
<1>9. /\ conn' = conn /\ inbox'[c] = Append(inbox[c], m)
      /\ \A d \in Client \ {c} : inbox'[d] = inbox[d]
  BY <1>6, <1>8 DEF TypeOK
<1>10. /\ Len(inbox'[c]) = Len(inbox[c]) + 1 /\ Len(inbox[c]) \in Nat
       /\ \A i \in DOMAIN inbox'[c] :
             inbox'[c][i] = m \/ (i \in DOMAIN inbox[c] /\ inbox'[c][i] = inbox[c][i])
  <2>1. inbox[c] \in Seq(Message)
    BY DEF TypeOK
  <2> QED
    BY <1>9, <2>1, AppendIs
<1>11. /\ target'[n] = None /\ \A k \in Notifier \ {n} : target'[k] = target[k]
  BY <1>2 DEF TypeOK
<1>12. ASSUME NEW d \in Client \ {c} PROVE \A k \in Notifier : Sending(k, d)' <=> Sending(k, d)
  <2>1. ~ Sending(n, d) /\ ~ Sending(n, d)'
    BY <1>1, <1>11, <1>12 DEF Sending
  <2> QED
    BY <1>11, <2>1 DEF Sending
<1>13. Cardinality(Targets(c)') = Cardinality(Targets(c)) - 1
  <2>1. Targets(c)' = Targets(c) \ {n} /\ n \in Targets(c)
    <3>1. \A k \in Notifier : Sending(k, c)' <=> Sending(k, c) /\ k /= n
      BY <1>11 DEF Sending
    <3> QED
      BY <1>4, <3>1 DEF Targets
  <2> QED
    BY <2>1, TargetsFinite, FS_RemoveElement
<1>14. ClientAt(c)'
  <2> DEFINE l == Len(inbox[c])
             p == pending[c].left
             t == Cardinality(Targets(c))
  <2>1. /\ commitCount[c] \in Nat /\ p \in Nat /\ t \in Nat /\ l \in Nat /\ MAX_CLI_REQ \in Nat
    BY <1>10, SessionsAssumption, TargetsFinite DEF TypeOK
  <2>2. commitCount[c] + (l + 1) + p + (t - 1) <= MAX_CLI_REQ
    <3>1. commitCount[c] + l + p + t <= MAX_CLI_REQ
      BY <1>6
    <3> HIDE DEF l, p, t
    <3> QED
      BY <2>1, <3>1
  <2>3. commitCount'[c] + Len(inbox'[c]) + pending'[c].left + Cardinality(Targets(c)')
            <= MAX_CLI_REQ
    BY <1>2, <1>10, <1>13, <2>2
  <2>4. Phase(c)'
    BY <1>2, <1>6, <1>9, <2>3 DEF Phase, Waiting
  <2>5. \A i \in DOMAIN inbox'[c] : inbox'[c][i].client = c
    BY <1>1, <1>3, <1>10 DEF ClientAt
  <2> QED
    BY <1>2, <1>3, <1>8, <2>4, <2>5 DEF ClientAt, Listed, Live
<1>15. ASSUME NEW k \in Notifier PROVE TargetAt(k)'
  <2>1. CASE k = n
    BY <1>11, <2>1 DEF TargetAt
  <2>2. CASE k /= n
    <3>1. TargetAt(k) /\ target'[k] = target[k]
      BY <1>11, <2>2 DEF Safe
    <3> QED
      BY <1>2, <3>1 DEF TargetAt
  <2> QED
    BY <2>1, <2>2
<1> QED
  BY <1>2, <1>8, <1>9, <1>12, <1>14, <1>15, SafeKept

LEMMA SafeStep ==
    ASSUME TypeOK, TypeOK', ClientsInv, RecordsInv, SafeInv, Next
    PROVE  SafeInv'
<1>1. SUFFICES ASSUME ~ hurt' PROVE Safe'
  BY DEF SafeInv
<1>2. hurt => hurt'
  <2>1. ASSUME NEW c \in Client, client(c) PROVE hurt' = hurt
    BY <2>1 DEF client, connect, sendCommand, receiveCommit, sendExit, receiveBye
  <2>2. ASSUME NEW c \in Client, kill(c) PROVE hurt => hurt'
    BY <2>2 DEF kill
  <2>3. ASSUME NEW c \in Client, producer(c) PROVE hurt' = hurt
    BY <2>3 DEF producer, queueCommand, endSession, receiveReset, sayBye, closeRecvSock, free
  <2>4. ASSUME NEW n \in Notifier, notifier(n) PROVE hurt' = hurt
    BY <2>4 DEF notifier, findClient, notifyClient
  <2> QED
    BY <2>1, <2>2, <2>3, <2>4, Zenon DEF Next
<1>3. Safe
  BY <1>1, <1>2 DEF SafeInv
<1>4. ASSUME NEW c \in Client, client(c) PROVE Safe'
  BY <1>3, <1>4, connectSafe, sendSafe, receiveCommitSafe, receiveByeSafe, Zenon DEF client
<1>5. ASSUME NEW c \in Client, kill(c) PROVE Safe'
  BY <1>1, <1>3, <1>5, killSafe
<1>6. ASSUME NEW c \in Client, producer(c) PROVE Safe'
  BY <1>3, <1>6, queueCommandSafe, endSessionSafe, receiveResetSafe, sayByeSafe,
     closeRecvSockSafe, freeSafe, Zenon DEF producer
<1>7. ASSUME NEW n \in Notifier, notifier(n) PROVE Safe'
  BY <1>3, <1>7, findClientSafe, notifyClientSafe, Zenon DEF notifier
<1> QED
  BY <1>4, <1>5, <1>6, <1>7, Zenon DEF Next

-----------------------------------------------------------------------------
(* The theorems *)

LEMMA InitInv == Init => IInv
BY InitType, InitRecords, InitSafe, InitCovered DEF IInv, ClientsInv, Init, PerClient

LEMMA StutterInv == IInv /\ UNCHANGED vars => IInv'
<1> SUFFICES ASSUME IInv, UNCHANGED vars PROVE IInv'
  OBVIOUS
<1> USE DEF vars, clientVars, wireVars, recordVars, producerVars
<1>1. TypeOK'
  BY DEF IInv, TypeOK, Batches
<1>2. ClientsInv'
  BY DEF IInv, ClientsInv
<1>3. \A c \in Client : (Live(c)' <=> Live(c)) /\ (Connected(c)' <=> Connected(c))
  BY DEF Live, Connected
<1>4. RecordsInv'
  BY <1>3, RecordsKept DEF IInv, RecordsInv
<1>5. CoveredInv'
  BY CoveredSame DEF IInv, CoveredInv
<1>6. SafeInv'
  <2>1. SUFFICES ASSUME Safe PROVE Safe'
    BY DEF IInv, SafeInv
  <2>2. ASSUME NEW c \in Client PROVE ClientAt(c)'
    <3>1. ClientAt(c) /\ TypeOK
      BY <2>1 DEF Safe, IInv
    <3>2. \A n \in Notifier : Sending(n, c)' <=> Sending(n, c)
      BY DEF Sending
    <3> QED
      BY <3>1, <3>2, ClientKept
  <2> QED
    BY <2>1, <2>2 DEF Safe, TargetAt
<1> QED
  BY <1>1, <1>2, <1>4, <1>5, <1>6 DEF IInv

LEMMA NextInv == IInv /\ [Next]_vars => IInv'
<1> SUFFICES ASSUME IInv, Next PROVE IInv'
  BY StutterInv
<1>1. TypeOK'
  BY TypeStep DEF IInv
<1> QED
  BY <1>1, ClientsStep, RecordsStep, SafeStep, CoveredStep DEF IInv

\* Clients, messages, records, memory and sockets fit together at all times.
THEOREM Invariance == Spec => []IInv
BY InitInv, NextInv, PTL DEF Spec

\* The types of the variables; a record that is sent to has a socket number, and
\* a client never counts more answers than it waits for.
THEOREM TypeCorrect == Spec => []TypeOK
BY Invariance, PTL DEF IInv

\* As long as no client goes away with answers to come, every message is on its
\* way to the client whose request was committed.
THEOREM ReachesOwner == Spec => []MessagesReachOwner
<1>1. IInv => MessagesReachOwner
  BY DEF IInv, SafeInv, Safe, ClientAt, MessagesReachOwner
<1> QED
  BY <1>1, Invariance, PTL

\* As long as no client goes away with answers to come, the leader does not end.
THEOREM Survives == Spec => []LeaderSurvives
<1>1. IInv => LeaderSurvives
  BY DEF IInv, SafeInv, Safe, LeaderSurvives
<1> QED
  BY <1>1, Invariance, PTL

\* A client that sends as many commands as its input has batches has sent each
\* of them when it leaves.
THEOREM CoversInput == Spec => []InputCovered
<1>1. IInv => InputCovered
  <2> SUFFICES ASSUME IInv, NEW c \in Client, cpc[c] = "left", TX_NUM[c] >= Batches(c)
               PROVE  used[c] = 0 .. Batches(c) - 1
    BY DEF InputCovered
  <2> QED
    BY DEF IInv, CoveredInv, CoveredAt
<1> QED
  BY <1>1, Invariance, PTL
=============================================================================
