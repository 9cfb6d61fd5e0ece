--------------------------- MODULE RecoveryProofs ---------------------------
(***************************************************************************)
(* Proofs about Recovery: its four invariants, for every number of         *)
(* followers, of starts of each node and of batches.                       *)
(*                                                                         *)
(* The argument follows a batch through the connection it is sent on, the  *)
(* file of the follower and the connection its acknowledgement takes.  A   *)
(* pair of a leader process and a follower has at most one connection each *)
(* way: what a follower has of a leader process, followed by what is on    *)
(* its way to it, is the first batches of the leader process, and the      *)
(* acknowledgements on their way rise and are below the number of batches  *)
(* in the file.  So every vote stands for an acknowledgement of its own    *)
(* that was taken from a connection, and the votes for a number are at     *)
(* most the connections on which it was.                                   *)
(***************************************************************************)
EXTENDS Recovery, FiniteSetTheorems, TLAPS

-----------------------------------------------------------------------------
(* The inductive invariant *)

\* the number of batches of leader process i in a file, which are the first ones
Count(file, i) ==
    CHOOSE n \in Nat : \A m \in Nat : Has(file, [by |-> i, lsn |-> m]) <=> m < n

Numbered(file) ==
    /\ Ordered(file)
    /\ \A i \in Process :
          /\ Count(file, i) \in Nat
          /\ \A m \in Nat : Has(file, [by |-> i, lsn |-> m]) <=> m < Count(file, i)

Held(p, i) == Count(log[p], i)

TypeInv ==
    /\ up \subseteq Node /\ crashes \in 0 .. MaxCrash /\ told \subseteq up \ {0}
    /\ boots \in [Node -> Nat] /\ \A p \in Node : boots[p] \in 1 .. MaxBoot[p]
    /\ log \in [Node -> Seq(Entry)]
    /\ peer \in 1 .. NF + 1 /\ lsn \in 0 .. MaxLsn[boots[0]] /\ dest \in 1 .. NF + 1
    /\ votes \in [Lsn -> Nat]
    /\ append \in [Process -> [Follower -> [to : Nat, q : Seq(Lsn)]]]
    /\ rpc \in [Process -> [Follower -> {"none", "connect", "recv", "ack"}]]
    /\ back \in [Process -> [Follower -> [to : Process \cup {0}, q : Seq(Lsn)]]]
    /\ answered \subseteq Entry

LeaderInv ==
    /\ 0 \notin up => peer = 1 /\ lsn = 0 /\ dest = NF + 1 /\ votes = [n \in Lsn |-> 0]
    /\ dest \in Follower => lsn > 0

FilesInv ==
    /\ \A p \in Node : Numbered(log[p])
    /\ \A i \in Process, f \in Follower : Held(f, i) <= Held(0, i)
    /\ \A i \in Process : i > boots[0] => Held(0, i) = 0
    /\ 0 \in up => Held(0, boots[0]) = lsn

\* the batches that the worker has sent follower f
Sent(f) == IF f < dest THEN lsn ELSE lsn - 1

\* q holds the batches from number c on
From(q, c) == \A k \in DOMAIN q : q[k] = c + k - 1

AppendAt(i, f) ==
    LET a == append[i][f] IN
    /\ a.to <= boots[f]
    /\ i > boots[0] => a.to = 0
    /\ a.to = 0 =>
          /\ Held(f, i) = 0 /\ rpc[i][f] = "none" /\ back[i][f].to = 0
          /\ 0 \in up /\ i = boots[0] => Sent(f) = 0
    /\ Alive(f, a.to) =>
          /\ From(a.q, Held(f, i))
          /\ Held(f, i) + Len(a.q) <= Held(0, i)
          /\ 0 \in up /\ i = boots[0] => Held(f, i) + Len(a.q) = Sent(f)
    /\ rpc[i][f] /= "none" => Alive(f, a.to)

AppendInv == \A i \in Process, f \in Follower : AppendAt(i, f)

\* the batches that a logReceiver has acknowledged, were it not interrupted
Acked(i, f) == IF rpc[i][f] = "ack" THEN Held(f, i) - 1 ELSE Held(f, i)

\* q rises, and is below b
Rising(q, b) ==
    /\ \A j, k \in DOMAIN q : j < k => q[j] < q[k]
    /\ \A k \in DOMAIN q : q[k] < b

BackAt(i, f) ==
    LET b == back[i][f] IN
    /\ b.to <= boots[0]
    /\ b.to = 0 => Held(f, i) = 0
    /\ rpc[i][f] = "connect" => b.to = 0
    /\ rpc[i][f] = "none" /\ Alive(f, append[i][f].to) => b.to = 0
    /\ rpc[i][f] \in {"recv", "ack"} => b.to /= 0
    /\ rpc[i][f] = "ack" => Held(f, i) > 0
    /\ Rising(b.q, Acked(i, f))

BackInv == \A i \in Process, f \in Follower : BackAt(i, f)

\* The running leader has taken an acknowledgement of a batch of number n from
\* this connection.
Voted(i, f, n) ==
    /\ back[i][f].to = boots[0] /\ n < Acked(i, f)
    /\ \A k \in DOMAIN back[i][f].q : back[i][f].q[k] /= n

Voters(n) == {c \in Process \X Follower : Voted(c[1], c[2], n)}

VotesInv == 0 \in up => \A n \in Lsn : votes[n] <= Cardinality(Voters(n))

IInv ==
    /\ TypeInv /\ LeaderInv /\ FilesInv /\ AppendInv /\ BackInv
    /\ VotesInv /\ AnsweredSurvives

-----------------------------------------------------------------------------
(* Files *)

LEMMA CountIs ==
    ASSUME NEW file, NEW i, NEW n \in Nat,
           \A m \in Nat : Has(file, [by |-> i, lsn |-> m]) <=> m < n
    PROVE  Count(file, i) = n
<1> DEFINE P(k) == \A m \in Nat : Has(file, [by |-> i, lsn |-> m]) <=> m < k
<1>1. \A k \in Nat : P(k) => k = n
  <2> SUFFICES ASSUME NEW k \in Nat, P(k) PROVE k = n
    OBVIOUS
  <2>1. (k < n <=> k < k) /\ (n < n <=> n < k)
    OBVIOUS
  <2> QED
    BY <2>1
<1>2. P(n)
  OBVIOUS
<1>3. Count(file, i) = CHOOSE k \in Nat : P(k)
  BY DEF Count
<1> HIDE DEF P
<1> QED
  BY <1>1, <1>2, <1>3

LEMMA EmptyFile == Numbered(<<>>) /\ \A i \in Process : Count(<<>>, i) = 0
<1>1. \A i \in Process : Count(<<>>, i) = 0
  BY CountIs DEF Has
<1> QED
  BY <1>1 DEF Numbered, Ordered, Has

LEMMA HasAppend ==
    ASSUME NEW file \in Seq(Entry), NEW e \in Entry, NEW d
    PROVE  Has(Append(file, e), d) <=> Has(file, d) \/ d = e
<1>1. DOMAIN Append(file, e) = DOMAIN file \cup {Len(file) + 1}
  OBVIOUS
<1>2. \A k \in DOMAIN file : Append(file, e)[k] = file[k]
  OBVIOUS
<1>3. Append(file, e)[Len(file) + 1] = e
  OBVIOUS
<1> QED
  BY <1>1, <1>2, <1>3 DEF Has

LEMMA EntryType == ASSUME NEW e \in Entry PROVE e.by \in Process /\ e.lsn \in Lsn
BY DEF Entry

LEMMA LsnType == Lsn \subseteq Nat /\ Process \subseteq Nat \ {0}
<1>1. \A i \in Process : MaxLsn[i] \in Nat
  BY RecoveryAssumption
<1>2. MaxBoot[0] \in Nat
  BY RecoveryAssumption
<1> QED
  BY <1>1, <1>2 DEF Lsn, Process

LEMMA BelowCount ==
    ASSUME NEW file \in Seq(Entry), Numbered(file), NEW k \in DOMAIN file
    PROVE  /\ file[k].by \in Process /\ file[k].lsn \in Nat
           /\ file[k].lsn < Count(file, file[k].by)
<1>1. file[k] \in Entry
  OBVIOUS
<1>2. file[k].by \in Process /\ file[k].lsn \in Nat
  BY <1>1, EntryType, LsnType
<1>3. Has(file, file[k]) /\ file[k] = [by |-> file[k].by, lsn |-> file[k].lsn]
  BY <1>1 DEF Has, Entry
<1> QED
  BY <1>2, <1>3 DEF Numbered

\* The next batch of a leader process is appended.
LEMMA AppendNumbered ==
    ASSUME NEW file \in Seq(Entry), Numbered(file), NEW i \in Process,
           Count(file, i) \in Lsn
    PROVE  LET new == Append(file, [by |-> i, lsn |-> Count(file, i)]) IN
           /\ new \in Seq(Entry) /\ Numbered(new)
           /\ Count(new, i) = Count(file, i) + 1
           /\ \A j \in Process \ {i} : Count(new, j) = Count(file, j)
<1> DEFINE e == [by |-> i, lsn |-> Count(file, i)]
           new == Append(file, e)
<1>1. e \in Entry
  BY DEF Entry
<1>2. \A d : Has(new, d) <=> Has(file, d) \/ d = e
  BY <1>1, HasAppend
<1>3. new \in Seq(Entry)
  BY <1>1
<1>4. \A j \in Process : Count(file, j) \in Nat
  BY DEF Numbered
<1>5. \A m \in Nat : Has(new, [by |-> i, lsn |-> m]) <=> m < Count(file, i) + 1
  <2> SUFFICES ASSUME NEW m \in Nat
               PROVE  Has(new, [by |-> i, lsn |-> m]) <=> m < Count(file, i) + 1
    OBVIOUS
  <2>1. Has(file, [by |-> i, lsn |-> m]) <=> m < Count(file, i)
    BY DEF Numbered
  <2>2. [by |-> i, lsn |-> m] = e <=> m = Count(file, i)
    OBVIOUS
  <2> QED
    BY <1>2, <1>4, <2>1, <2>2
<1>6. Count(new, i) = Count(file, i) + 1
  BY <1>4, <1>5, CountIs
<1>7. ASSUME NEW j \in Process \ {i}
      PROVE  /\ \A m \in Nat : Has(new, [by |-> j, lsn |-> m]) <=> m < Count(file, j)
             /\ Count(new, j) = Count(file, j)
  <2>1. \A m \in Nat : Has(new, [by |-> j, lsn |-> m]) <=> m < Count(file, j)
    <3> SUFFICES ASSUME NEW m \in Nat
                 PROVE  Has(new, [by |-> j, lsn |-> m]) <=> m < Count(file, j)
      OBVIOUS
    <3>1. [by |-> j, lsn |-> m] /= e
      OBVIOUS
    <3> QED
      BY <1>2, <3>1 DEF Numbered
  <2> QED
    BY <1>4, <2>1, CountIs
<1>8. Ordered(new)
  <2> SUFFICES ASSUME NEW j \in DOMAIN new, NEW k \in DOMAIN new, j < k,
                      new[j].by = new[k].by
               PROVE  new[j].lsn < new[k].lsn
    BY DEF Ordered
  <2>0. DOMAIN new = 1 .. Len(file) + 1 /\ DOMAIN file = 1 .. Len(file) /\ Len(file) \in Nat
    BY <1>1
  <2>1. j \in DOMAIN file /\ new[j] = file[j]
    BY <2>0
  <2>2. CASE k = Len(file) + 1
    <3>1. new[k] = e
      BY <2>2
    <3> QED
      BY <2>1, <3>1, BelowCount
  <2>3. CASE k \in DOMAIN file
    <3>1. new[k] = file[k]
      BY <2>3
    <3> QED
      BY <2>1, <2>3, <3>1 DEF Numbered, Ordered
  <2> QED
    BY <2>0, <2>2, <2>3
<1>9. Numbered(new)
  BY <1>4, <1>5, <1>6, <1>7, <1>8 DEF Numbered
<1> QED
  BY <1>3, <1>6, <1>7, <1>9

\* The latest entry of a leader process is its last batch in the file.
LEMMA LastOfCount ==
    ASSUME NEW file \in Seq(Entry), Numbered(file), NEW i \in Process, Count(file, i) > 0
    PROVE  file[Max({k \in DOMAIN file : file[k].by = i})].lsn = Count(file, i) - 1
<1> DEFINE S == {k \in DOMAIN file : file[k].by = i}
           c == Count(file, i)
<1>1. c \in Nat /\ c - 1 \in Nat /\ c - 1 < c
  BY DEF Numbered
<1>2. PICK l \in DOMAIN file : file[l] = [by |-> i, lsn |-> c - 1]
  BY <1>1 DEF Numbered, Has
<1>3. l \in S /\ file[l].lsn = c - 1
  BY <1>2
<1>4. ASSUME NEW k \in S PROVE k <= l
  <2>1. file[k].lsn \in Nat /\ file[k].lsn < c
    BY BelowCount
  <2>2. ~ (l < k)
    BY <1>1, <1>3, <2>1 DEF Numbered, Ordered
  <2> QED
    BY <2>2
<1>5. S \subseteq Int
  OBVIOUS
<1> HIDE DEF S, c
<1>6. Max(S) \in S /\ \A y \in S : Max(S) >= y
  BY <1>3, <1>4 DEF Max
<1>7. Max(S) = l
  BY <1>3, <1>4, <1>5, <1>6
<1> QED
  BY <1>3, <1>7 DEF S, c

-----------------------------------------------------------------------------
(* What is on a connection *)

LEMMA FromAppend ==
    ASSUME NEW q \in Seq(Lsn), NEW c \in Nat, From(q, c), NEW n \in Lsn, n = c + Len(q)
    PROVE  From(Append(q, n), c) /\ Len(Append(q, n)) = Len(q) + 1
<1>1. Len(Append(q, n)) = Len(q) + 1 /\ DOMAIN Append(q, n) = 1 .. Len(q) + 1
  OBVIOUS
<1>2. ASSUME NEW k \in 1 .. Len(q) + 1 PROVE Append(q, n)[k] = c + k - 1
  <2>1. CASE k = Len(q) + 1
    BY <2>1
  <2>2. CASE k \in DOMAIN q
    <3>1. Append(q, n)[k] = q[k]
      BY <2>2
    <3> QED
      BY <2>2, <3>1 DEF From
  <2> QED
    BY <2>1, <2>2
<1> QED
  BY <1>1, <1>2 DEF From

LEMMA FromTail ==
    ASSUME NEW q \in Seq(Lsn), NEW c \in Nat, From(q, c), q /= <<>>
    PROVE  Head(q) = c /\ From(Tail(q), c + 1) /\ Len(Tail(q)) = Len(q) - 1
<1>1. /\ Len(q) \in Nat \ {0} /\ DOMAIN q = 1 .. Len(q)
      /\ Len(Tail(q)) = Len(q) - 1 /\ DOMAIN Tail(q) = 1 .. Len(q) - 1
      /\ Head(q) = q[1] /\ \A k \in 1 .. Len(q) - 1 : Tail(q)[k] = q[k + 1]
  OBVIOUS
<1>2. q[1] = c + 1 - 1
  BY <1>1 DEF From
<1>3. ASSUME NEW k \in 1 .. Len(q) - 1 PROVE Tail(q)[k] = c + 1 + k - 1
  <2>1. k + 1 \in DOMAIN q
    BY <1>1
  <2>2. q[k + 1] = c + (k + 1) - 1
    BY <2>1 DEF From
  <2> QED
    BY <1>1, <2>2
<1> QED
  BY <1>1, <1>2, <1>3 DEF From

LEMMA InLsn ==
    ASSUME NEW q \in Seq(Lsn)
    PROVE  \A k \in DOMAIN q : q[k] \in Lsn /\ q[k] \in Nat
<1>1. \A k \in DOMAIN q : q[k] \in Lsn
  OBVIOUS
<1> QED
  BY <1>1, LsnType

LEMMA FromEmpty == \A c \in Nat : From(<<>>, c)
BY DEF From

LEMMA RisingAppend ==
    ASSUME NEW q \in Seq(Lsn), NEW b \in Lsn, Rising(q, b)
    PROVE  Rising(Append(q, b), b + 1)
<1>1. DOMAIN Append(q, b) = DOMAIN q \cup {Len(q) + 1} /\ DOMAIN q = 1 .. Len(q)
  OBVIOUS
<1>2. \A k \in DOMAIN q : Append(q, b)[k] = q[k] /\ q[k] \in Nat
  BY InLsn
<1>3. Append(q, b)[Len(q) + 1] = b /\ b \in Nat
  BY LsnType
<1>4. ASSUME NEW k \in DOMAIN Append(q, b) PROVE Append(q, b)[k] < b + 1
  <2>1. k \in DOMAIN q => q[k] < b
    BY DEF Rising
  <2> QED
    BY <1>1, <1>2, <1>3, <2>1
<1>5. ASSUME NEW j \in DOMAIN Append(q, b), NEW k \in DOMAIN Append(q, b), j < k
      PROVE  Append(q, b)[j] < Append(q, b)[k]
  <2>1. j \in DOMAIN q
    BY <1>1, <1>5
  <2>2. CASE k \in DOMAIN q
    <3>1. q[j] < q[k]
      BY <1>5, <2>1, <2>2 DEF Rising
    <3> QED
      BY <1>2, <2>1, <2>2, <3>1
  <2>3. CASE k = Len(q) + 1
    <3>1. q[j] < b
      BY <2>1 DEF Rising
    <3> QED
      BY <1>2, <1>3, <2>1, <2>3, <3>1
  <2> QED
    BY <1>1, <2>2, <2>3
<1> QED
  BY <1>4, <1>5 DEF Rising

\* The first of the numbers is below all the others.
LEMMA RisingTail ==
    ASSUME NEW q \in Seq(Lsn), NEW b \in Int, Rising(q, b), q /= <<>>
    PROVE  /\ Rising(Tail(q), b) /\ Head(q) < b /\ Head(q) \in Lsn
           /\ \A k \in DOMAIN Tail(q) : Tail(q)[k] /= Head(q)
           /\ \A n : (\A k \in DOMAIN q : q[k] /= n)
                        <=> (n /= Head(q) /\ \A k \in DOMAIN Tail(q) : Tail(q)[k] /= n)
<1>1. /\ Len(q) \in Nat \ {0} /\ DOMAIN q = 1 .. Len(q)
      /\ DOMAIN Tail(q) = 1 .. Len(q) - 1
      /\ Head(q) = q[1] /\ \A k \in 1 .. Len(q) - 1 : Tail(q)[k] = q[k + 1]
  OBVIOUS
<1>2. \A k \in DOMAIN q : q[k] \in Lsn /\ q[k] \in Nat
  BY InLsn
<1>3. \A k \in DOMAIN Tail(q) : k + 1 \in DOMAIN q /\ 1 < k + 1 /\ 1 \in DOMAIN q
  BY <1>1
<1>4. \A k \in DOMAIN Tail(q) : Tail(q)[k] /= Head(q)
  <2> SUFFICES ASSUME NEW k \in DOMAIN Tail(q) PROVE Tail(q)[k] /= Head(q)
    OBVIOUS
  <2>1. q[1] < q[k + 1]
    BY <1>3 DEF Rising
  <2> QED
    BY <1>1, <1>2, <1>3, <2>1
<1>5. Rising(Tail(q), b)
  <2>1. ASSUME NEW j \in DOMAIN Tail(q), NEW k \in DOMAIN Tail(q), j < k
        PROVE  Tail(q)[j] < Tail(q)[k]
    <3>1. j + 1 \in DOMAIN q /\ k + 1 \in DOMAIN q /\ j + 1 < k + 1
      BY <1>1, <2>1
    <3>2. q[j + 1] < q[k + 1]
      BY <3>1 DEF Rising
    <3> QED
      BY <1>1, <3>2
  <2>2. ASSUME NEW k \in DOMAIN Tail(q) PROVE Tail(q)[k] < b
    <3>1. q[k + 1] < b
      BY <1>3 DEF Rising
    <3> QED
      BY <1>1, <3>1
  <2> QED
    BY <2>1, <2>2 DEF Rising
<1>6. Head(q) < b /\ Head(q) \in Lsn
  BY <1>1, <1>2 DEF Rising
<1>7. \A k \in DOMAIN q : k = 1 \/ (k - 1 \in DOMAIN Tail(q) /\ Tail(q)[k - 1] = q[k])
  BY <1>1
<1>8. ASSUME NEW n
      PROVE  (\A k \in DOMAIN q : q[k] /= n)
                <=> (n /= Head(q) /\ \A k \in DOMAIN Tail(q) : Tail(q)[k] /= n)
  <2>1. ASSUME \A k \in DOMAIN q : q[k] /= n
        PROVE  n /= Head(q) /\ \A k \in DOMAIN Tail(q) : Tail(q)[k] /= n
    BY <1>1, <1>3, <2>1
  <2>2. ASSUME n /= Head(q), \A k \in DOMAIN Tail(q) : Tail(q)[k] /= n
        PROVE  \A k \in DOMAIN q : q[k] /= n
    BY <1>1, <1>7, <2>2
  <2> QED
    BY <2>1, <2>2
<1> QED
  BY <1>4, <1>5, <1>6, <1>8

LEMMA RisingEmpty == \A b : Rising(<<>>, b)
BY DEF Rising

LEMMA RisingWeaken ==
    ASSUME NEW q \in Seq(Lsn), NEW b \in Int, NEW c \in Int, b <= c, Rising(q, b)
    PROVE  Rising(q, c)
<1>1. \A k \in DOMAIN q : q[k] \in Nat
  BY InLsn
<1> QED
  BY <1>1 DEF Rising

-----------------------------------------------------------------------------
(* The steps: every end of a process is a case of its own. *)

beginReceiver(i, f) == startReceiver(i, f) /\ f \in told

LEMMA Cases ==
    ASSUME [Next]_vars
    PROVE  \/ UNCHANGED vars
           \/ \E p \in Node : Boot(p) \/ End(p)
           \/ requestVote \/ flush \/ sendRPC
           \/ \E i \in Process, f \in Follower :
                 \/ beginReceiver(i, f) \/ connectBack(i, f) \/ followerAddEntry(i, f)
                 \/ sendAck(i, f) \/ addVoteCount(i, f)
<1>0. Follower \subseteq Node /\ 0 \in Node
  BY RecoveryAssumption DEF Follower, Node
<1>1. ASSUME NEW p \in Node, Crash(p) PROVE End(p)
  BY <1>1 DEF Crash
<1>2. ASSUME NEW i \in Process, NEW f \in Follower, startReceiver(i, f)
      PROVE  beginReceiver(i, f) \/ End(f)
  BY <1>2 DEF startReceiver, beginReceiver
<1>3. ASSUME NEW i \in Process, NEW f \in Follower, loseLeader(i, f) PROVE End(f)
  BY <1>3 DEF loseLeader
<1>4. ASSUME NEW i \in Process, NEW f \in Follower, loseFollower(i, f) PROVE End(0)
  BY <1>4 DEF loseFollower
<1> QED
  BY <1>0, <1>1, <1>2, <1>3, <1>4 DEF Next, logReceiver, notifier

\* Only an interrupted process counts.
LEMMA CrashesType ==
    ASSUME [Next]_vars, crashes \in 0 .. MaxCrash
    PROVE  crashes' \in 0 .. MaxCrash
<1>1. ASSUME NEW p \in Node, Boot(p) \/ Crash(p) PROVE crashes' \in 0 .. MaxCrash
  BY <1>1, RecoveryAssumption DEF Boot, Crash
<1>2. ASSUME requestVote \/ flush \/ sendRPC PROVE crashes' = crashes
  BY <1>2 DEF requestVote, flush, sendRPC
<1>3. ASSUME NEW i \in Process, NEW f \in Follower, logReceiver(i, f) PROVE crashes' = crashes
  BY <1>3 DEF logReceiver, startReceiver, connectBack, followerAddEntry, sendAck, loseLeader
<1>4. ASSUME NEW i \in Process, NEW f \in Follower, notifier(i, f) PROVE crashes' = crashes
  BY <1>4 DEF notifier, addVoteCount, loseFollower
<1>5. CASE UNCHANGED vars
  BY <1>5 DEF vars
<1> QED
  BY <1>1, <1>2, <1>3, <1>4, <1>5 DEF Next

-----------------------------------------------------------------------------
(* Types *)

LEMMA Nodes == 0 \in Node /\ Follower \subseteq Node \ {0} /\ Node = Follower \cup {0} /\ NF \in Nat \ {0}
BY RecoveryAssumption DEF Follower, Node

LEMMA LeaderProcess ==
    ASSUME TypeInv
    PROVE  boots[0] \in Process /\ MaxLsn[boots[0]] \in Nat
                   /\ 0 .. MaxLsn[boots[0]] - 1 \subseteq Lsn
<1>1. boots[0] \in Process
  BY Nodes, RecoveryAssumption DEF TypeInv, Process
<1> QED
  BY <1>1, RecoveryAssumption DEF Lsn

\* What is to be done is in range.
LEMMA LatestBatch ==
    ASSUME TypeInv, LeaderInv, dest \in Follower
    PROVE  lsn \in Nat \ {0} /\ lsn - 1 \in Lsn
<1>1. lsn \in 0 .. MaxLsn[boots[0]] /\ lsn > 0
  BY DEF TypeInv, LeaderInv
<1> QED
  BY <1>1, LeaderProcess

LEMMA ConnectionTypes ==
    ASSUME TypeInv, NEW i \in Process, NEW f \in Follower
    PROVE  /\ append[i][f] \in [to : Nat, q : Seq(Lsn)]
           /\ append[i][f].to \in Nat /\ append[i][f].q \in Seq(Lsn)
           /\ back[i][f] \in [to : Process \cup {0}, q : Seq(Lsn)]
           /\ back[i][f].to \in Process \cup {0} /\ back[i][f].to \in Nat
           /\ back[i][f].q \in Seq(Lsn)
           /\ rpc[i][f] \in {"none", "connect", "recv", "ack"}
<1>1. append[i][f] \in [to : Nat, q : Seq(Lsn)]
  BY DEF TypeInv
<1>2. back[i][f] \in [to : Process \cup {0}, q : Seq(Lsn)]
  BY DEF TypeInv
<1>3. rpc[i][f] \in {"none", "connect", "recv", "ack"}
  BY DEF TypeInv
<1> QED
  BY <1>1, <1>2, <1>3, LsnType

LEMMA FileTypes ==
    ASSUME TypeInv, FilesInv, NEW p \in Node, NEW i \in Process
    PROVE  /\ log[p] \in Seq(Entry) /\ Numbered(log[p]) /\ Held(p, i) \in Nat
           /\ boots[p] \in Nat
<1>1. log[p] \in Seq(Entry) /\ boots[p] \in Nat
  BY DEF TypeInv
<1>2. Numbered(log[p])
  BY DEF FilesInv
<1> QED
  BY <1>1, <1>2 DEF Numbered, Held

\* What is acknowledged is a batch in the file.
LEMMA LastOfIs ==
    ASSUME TypeInv, FilesInv, BackInv, NEW i \in Process, NEW f \in Follower, rpc[i][f] = "ack"
    PROVE  /\ LastOf(i, f) = Held(f, i) - 1 /\ LastOf(i, f) = Acked(i, f)
           /\ LastOf(i, f) \in Lsn
<1>0. f \in Node
  BY Nodes
<1>1. log[f] \in Seq(Entry) /\ Numbered(log[f]) /\ Held(f, i) \in Nat
  BY <1>0, FileTypes
<1>2. Held(f, i) > 0
  BY DEF BackInv, BackAt
<1>3. LastOf(i, f) = Held(f, i) - 1
  BY <1>1, <1>2, LastOfCount DEF LastOf, Held
<1>4. Held(f, i) - 1 \in Nat /\ Held(f, i) - 1 < Held(f, i)
  BY <1>1, <1>2
<1>5. PICK k \in DOMAIN log[f] : log[f][k] = [by |-> i, lsn |-> Held(f, i) - 1]
  BY <1>1, <1>4 DEF Numbered, Has, Held
<1>6. log[f][k] \in Entry
  BY <1>1
<1>7. Held(f, i) - 1 \in Lsn
  BY <1>5, <1>6, EntryType
<1> QED
  BY <1>3, <1>7 DEF Acked

Wire(S) == [to : S, q : Seq(Lsn)]

LEMMA SetQueue ==
    ASSUME NEW S, NEW c \in Wire(S), NEW q
    PROVE  [c EXCEPT !.q = q] = [to |-> c.to, q |-> q]
BY DEF Wire

LEMMA EmptyQueue ==
    ASSUME NEW S, NEW c \in Wire(S)
    PROVE  /\ [c EXCEPT !.q = <<>>] \in Wire(S)
           /\ [c EXCEPT !.q = <<>>].to = c.to /\ [c EXCEPT !.q = <<>>].q = <<>>
<1> DEFINE e == <<>>
<1>1. e \in Seq(Lsn)
  OBVIOUS
<1> HIDE DEF e
<1>2. [c EXCEPT !.q = e] = [to |-> c.to, q |-> e]
  BY SetQueue
<1>3. [to |-> c.to, q |-> e] \in Wire(S)
  BY <1>1 DEF Wire
<1>4. [c EXCEPT !.q = e] \in Wire(S) /\ [c EXCEPT !.q = e].to = c.to /\ [c EXCEPT !.q = e].q = e
  BY <1>2, <1>3
<1> QED
  BY <1>4, Zenon DEF e

LEMMA WireParts == \A S : \A c \in Wire(S) : c.to \in S /\ c.q \in Seq(Lsn)
BY DEF Wire

LEMMA WireOf == \A S : \A p \in S, q \in Seq(Lsn) : [to |-> p, q |-> q] \in Wire(S)
BY DEF Wire

LEMMA SendType ==
    ASSUME NEW S, NEW c \in Wire(S), NEW alive \in BOOLEAN, NEW m \in Lsn
    PROVE  /\ send(c, alive, m) \in Wire(S)
           /\ send(c, alive, m).to = c.to
           /\ send(c, alive, m).q = IF alive THEN Append(c.q, m) ELSE c.q
<1> DEFINE q == Append(c.q, m)
<1>1. q \in Seq(Lsn) /\ c.to \in S
  BY DEF Wire
<1>2. send(c, alive, m) = IF alive THEN [c EXCEPT !.q = q] ELSE c
  BY DEF send
<1> HIDE DEF q
<1>3. [c EXCEPT !.q = q] = [to |-> c.to, q |-> q]
  BY SetQueue
<1>4. [to |-> c.to, q |-> q] \in Wire(S)
  BY <1>1, WireOf
<1>5. CASE alive
  BY <1>2, <1>3, <1>4, <1>5 DEF q
<1>6. CASE ~ alive
  BY <1>2, <1>6
<1> QED
  BY <1>5, <1>6

LEMMA UpdateOne ==
    ASSUME NEW T, NEW F \in [Process -> [Follower -> T]], NEW i \in Process, NEW f \in Follower,
           NEW v \in T
    PROVE  /\ [F EXCEPT ![i][f] = v] \in [Process -> [Follower -> T]]
           /\ \A j \in Process, g \in Follower :
                 [F EXCEPT ![i][f] = v][j][g] = IF j = i /\ g = f THEN v ELSE F[j][g]
OBVIOUS

\* What an action does to the connections, seen from each.
LEMMA EndLeaderWires ==
    ASSUME TypeInv, End(0)
    PROVE  /\ back' \in [Process -> [Follower -> Wire(Process \cup {0})]]
           /\ append' = append /\ rpc' = rpc
           /\ \A i \in Process, f \in Follower :
                 /\ back'[i][f].to = back[i][f].to
                 /\ back'[i][f].q = IF back[i][f].to = boots[0] THEN <<>> ELSE back[i][f].q
<1> DEFINE new(i, f) == IF back[i][f].to = boots[0] THEN [back[i][f] EXCEPT !.q = <<>>] ELSE back[i][f]
<1>1. ASSUME NEW i \in Process, NEW f \in Follower
      PROVE  /\ new(i, f) \in Wire(Process \cup {0})
             /\ new(i, f).to = back[i][f].to
             /\ new(i, f).q = IF back[i][f].to = boots[0] THEN <<>> ELSE back[i][f].q
  <2>1. back[i][f] \in Wire(Process \cup {0}) /\ <<>> \in Seq(Lsn)
    BY ConnectionTypes DEF Wire
  <2>2. CASE back[i][f].to = boots[0]
    BY <2>1, <2>2, EmptyQueue
  <2>3. CASE back[i][f].to /= boots[0]
    BY <2>1, <2>3
  <2> QED
    BY <2>2, <2>3
<1>2. back' = [i \in Process |-> [f \in Follower |-> new(i, f)]] /\ append' = append /\ rpc' = rpc
  BY DEF End
<1> HIDE DEF new
<1> QED
  BY <1>1, <1>2

LEMMA EndFollowerWires ==
    ASSUME TypeInv, NEW p \in Follower, End(p)
    PROVE  /\ append' \in [Process -> [Follower -> Wire(Nat)]] /\ back' = back
           /\ rpc' \in [Process -> [Follower -> {"none", "connect", "recv", "ack"}]]
           /\ \A i \in Process, f \in Follower :
                 /\ append'[i][f].to = append[i][f].to
                 /\ append'[i][f].q = IF f = p THEN <<>> ELSE append[i][f].q
                 /\ rpc'[i][f] = IF f = p THEN "none" ELSE rpc[i][f]
<1>0. p /= 0
  BY Nodes
<1>1. /\ append' = [i \in Process |-> [append[i] EXCEPT ![p].q = <<>>]]
      /\ rpc' = [i \in Process |-> [rpc[i] EXCEPT ![p] = "none"]] /\ back' = back
  BY <1>0 DEF End
<1>2. ASSUME NEW i \in Process
      PROVE  /\ append'[i] = [append[i] EXCEPT ![p] = [append[i][p] EXCEPT !.q = <<>>]]
             /\ append[i] \in [Follower -> Wire(Nat)] /\ append[i][p] \in Wire(Nat)
  BY <1>1, ConnectionTypes DEF TypeInv, Wire
<1>3. ASSUME NEW i \in Process
      PROVE  /\ append'[i] \in [Follower -> Wire(Nat)]
             /\ \A f \in Follower :
                   /\ append'[i][f].to = append[i][f].to
                   /\ append'[i][f].q = IF f = p THEN <<>> ELSE append[i][f].q
  <2> DEFINE c == [append[i][p] EXCEPT !.q = <<>>]
  <2>1. c \in Wire(Nat) /\ c.to = append[i][p].to /\ c.q = <<>>
    BY <1>2, EmptyQueue
  <2> HIDE DEF c
  <2>2. append'[i] = [append[i] EXCEPT ![p] = c]
    BY <1>2 DEF c
  <2>3. append'[i] \in [Follower -> Wire(Nat)]
    <3>1. c \in Wire(Nat) /\ append[i] \in [Follower -> Wire(Nat)]
      BY <1>2, <2>1
    <3> QED
      BY <2>2, <3>1
  <2>4. \A f \in Follower : append'[i][f] = IF f = p THEN c ELSE append[i][f]
    BY <1>2, <2>2
  <2> QED
    BY <2>1, <2>3, <2>4, Zenon
<1>4. append' \in [Process -> [Follower -> Wire(Nat)]]
  <2>1. append' = [i \in Process |-> append'[i]]
    BY <1>1
  <2> QED
    BY <1>3, <2>1
<1>5. /\ rpc' \in [Process -> [Follower -> {"none", "connect", "recv", "ack"}]]
      /\ \A i \in Process, f \in Follower : rpc'[i][f] = IF f = p THEN "none" ELSE rpc[i][f]
  BY <1>1 DEF TypeInv
<1> QED
  BY <1>1, <1>3, <1>4, <1>5

LEMMA sendRPCWires ==
    ASSUME TypeInv, LeaderInv, sendRPC
    PROVE  /\ boots[0] \in Process /\ dest \in Follower
           /\ append' \in [Process -> [Follower -> Wire(Nat)]] /\ back' = back /\ rpc' = rpc
           /\ \A i \in Process, f \in Follower :
                 i /= boots[0] \/ f /= dest => append'[i][f] = append[i][f]
           /\ LET a == append[boots[0]][dest]
                  new == append'[boots[0]][dest]
              IN  /\ new.to = IF a.to = 0 THEN boots[dest] ELSE a.to
                  /\ new.q = IF a.to = 0 THEN <<lsn - 1>>
                             ELSE IF Alive(dest, a.to) THEN Append(a.q, lsn - 1) ELSE a.q
<1> DEFINE i == boots[0]
           f == dest
           a == append[i][f]
           new == IF a.to = 0 THEN [to |-> boots[f], q |-> <<lsn - 1>>]
                              ELSE send(a, Alive(f, a.to), lsn - 1)
<1>1. i \in Process /\ f \in Follower /\ boots[f] \in Nat
  BY Nodes, LeaderProcess DEF sendRPC, TypeInv
<1>2. lsn - 1 \in Lsn
  BY LatestBatch DEF sendRPC
<1>3. append \in [Process -> [Follower -> Wire(Nat)]] /\ a \in Wire(Nat)
  BY <1>1, ConnectionTypes DEF TypeInv, Wire
<1>4. append' = [append EXCEPT ![i][f] = new] /\ back' = back /\ rpc' = rpc
  BY <1>1, <1>3 DEF sendRPC, TypeInv
<1>5. /\ new \in Wire(Nat)
      /\ new.to = IF a.to = 0 THEN boots[f] ELSE a.to
      /\ new.q = IF a.to = 0 THEN <<lsn - 1>>
                 ELSE IF Alive(f, a.to) THEN Append(a.q, lsn - 1) ELSE a.q
  <2>1. CASE a.to = 0
    BY <1>1, <1>2, <2>1 DEF Wire
  <2>2. CASE a.to /= 0
    <3>1. Alive(f, a.to) \in BOOLEAN
      BY DEF Alive
    <3> QED
      BY <1>2, <1>3, <2>2, <3>1, SendType
  <2> QED
    BY <2>1, <2>2
<1> HIDE DEF new
<1>6. /\ append' \in [Process -> [Follower -> Wire(Nat)]]
      /\ \A j \in Process, g \in Follower :
            append'[j][g] = IF j = i /\ g = f THEN new ELSE append[j][g]
  BY <1>1, <1>3, <1>4, <1>5, UpdateOne
<1> QED
  BY <1>1, <1>4, <1>5, <1>6

LEMMA followerAddEntryWires ==
    ASSUME TypeInv, NEW i \in Process, NEW f \in Follower, followerAddEntry(i, f)
    PROVE  /\ append' \in [Process -> [Follower -> Wire(Nat)]] /\ back' = back
           /\ append[i][f].q \in Seq(Lsn) /\ Head(append[i][f].q) \in Lsn
           /\ append'[i][f].to = append[i][f].to /\ append'[i][f].q = Tail(append[i][f].q)
           /\ rpc'[i][f] = "ack"
           /\ \A j \in Process, g \in Follower : j /= i \/ g /= f =>
                 append'[j][g] = append[j][g] /\ rpc'[j][g] = rpc[j][g]
<1> DEFINE q == Tail(append[i][f].q)
           new == [append[i][f] EXCEPT !.q = q]
<1>1. append \in [Process -> [Follower -> Wire(Nat)]] /\ append[i][f] \in Wire(Nat)
  BY ConnectionTypes DEF TypeInv, Wire
<1>2. append[i][f].q \in Seq(Lsn) /\ append[i][f].q /= <<>>
  BY ConnectionTypes DEF followerAddEntry
<1>3. Head(append[i][f].q) \in Lsn /\ q \in Seq(Lsn)
  BY <1>2
<1>4. append' = [append EXCEPT ![i][f] = new] /\ back' = back
  BY <1>1 DEF followerAddEntry
<1>5. rpc'[i][f] = "ack" /\ \A j \in Process, g \in Follower : j /= i \/ g /= f => rpc'[j][g] = rpc[j][g]
  BY DEF followerAddEntry, TypeInv
<1> HIDE DEF q
<1>6. new \in Wire(Nat) /\ new.to = append[i][f].to /\ new.q = q
  <2>1. new = [to |-> append[i][f].to, q |-> q]
    BY <1>1, SetQueue
  <2> QED
    BY <1>1, <1>3, <2>1, WireParts, WireOf
<1> HIDE DEF new
<1>7. /\ append' \in [Process -> [Follower -> Wire(Nat)]]
      /\ \A j \in Process, g \in Follower :
            append'[j][g] = IF j = i /\ g = f THEN new ELSE append[j][g]
  BY <1>1, <1>4, <1>6, UpdateOne
<1> QED
  BY <1>2, <1>3, <1>4, <1>5, <1>6, <1>7 DEF q

LEMMA connectBackWires ==
    ASSUME TypeInv, NEW i \in Process, NEW f \in Follower, connectBack(i, f)
    PROVE  /\ back' \in [Process -> [Follower -> Wire(Process \cup {0})]] /\ append' = append
           /\ back'[i][f].to = boots[0] /\ back'[i][f].q = <<>>
           /\ rpc'[i][f] = "recv"
           /\ \A j \in Process, g \in Follower : j /= i \/ g /= f =>
                 back'[j][g] = back[j][g] /\ rpc'[j][g] = rpc[j][g]
<1> DEFINE new == [to |-> boots[0], q |-> <<>>]
<1>1. new \in Wire(Process \cup {0}) /\ new.to = boots[0] /\ new.q = <<>>
  <2>1. boots[0] \in Process \cup {0} /\ <<>> \in Seq(Lsn)
    BY LeaderProcess
  <2> QED
    BY <2>1, WireOf
<1>2. back' = [back EXCEPT ![i][f] = new] /\ append' = append
  BY DEF connectBack
<1>3. rpc'[i][f] = "recv" /\ \A j \in Process, g \in Follower : j /= i \/ g /= f => rpc'[j][g] = rpc[j][g]
  BY DEF connectBack, TypeInv
<1>4. back \in [Process -> [Follower -> Wire(Process \cup {0})]]
  BY DEF TypeInv, Wire
<1> HIDE DEF new
<1>5. /\ back' \in [Process -> [Follower -> Wire(Process \cup {0})]]
      /\ \A j \in Process, g \in Follower :
            back'[j][g] = IF j = i /\ g = f THEN new ELSE back[j][g]
  <2>1. new \in Wire(Process \cup {0})
    BY <1>1
  <2>2. back' = [back EXCEPT ![i][f] = new]
    BY <1>2
  <2> QED
    BY <1>4, <2>1, <2>2, UpdateOne
<1> QED
  BY <1>1, <1>2, <1>3, <1>5

LEMMA sendAckWires ==
    ASSUME TypeInv, FilesInv, BackInv, NEW i \in Process, NEW f \in Follower, sendAck(i, f)
    PROVE  /\ back' \in [Process -> [Follower -> Wire(Process \cup {0})]] /\ append' = append
           /\ back'[i][f].to = back[i][f].to
           /\ back'[i][f].q = IF Alive(0, back[i][f].to) THEN Append(back[i][f].q, Acked(i, f))
                              ELSE back[i][f].q
           /\ rpc'[i][f] = "recv"
           /\ \A j \in Process, g \in Follower : j /= i \/ g /= f =>
                 back'[j][g] = back[j][g] /\ rpc'[j][g] = rpc[j][g]
<1> DEFINE b == back[i][f]
           new == send(b, Alive(0, b.to), Acked(i, f))
<1>1. Acked(i, f) = LastOf(i, f) /\ Acked(i, f) \in Lsn
  BY LastOfIs DEF sendAck
<1>2. back \in [Process -> [Follower -> Wire(Process \cup {0})]] /\ b \in Wire(Process \cup {0})
  BY ConnectionTypes DEF TypeInv, Wire
<1>3. back' = [back EXCEPT ![i][f] = new] /\ append' = append
  BY <1>1, <1>2 DEF sendAck
<1>4. rpc'[i][f] = "recv" /\ \A j \in Process, g \in Follower : j /= i \/ g /= f => rpc'[j][g] = rpc[j][g]
  BY DEF sendAck, TypeInv
<1>5. /\ new \in Wire(Process \cup {0}) /\ new.to = b.to
      /\ new.q = IF Alive(0, b.to) THEN Append(b.q, Acked(i, f)) ELSE b.q
  <2>1. Alive(0, b.to) \in BOOLEAN
    BY DEF Alive
  <2> QED
    BY <1>1, <1>2, <2>1, SendType
<1> HIDE DEF new
<1>6. /\ back' \in [Process -> [Follower -> Wire(Process \cup {0})]]
      /\ \A j \in Process, g \in Follower :
            back'[j][g] = IF j = i /\ g = f THEN new ELSE back[j][g]
  BY <1>2, <1>3, <1>5, UpdateOne
<1> QED
  BY <1>3, <1>4, <1>5, <1>6

LEMMA addVoteCountWires ==
    ASSUME TypeInv, NEW i \in Process, NEW f \in Follower, addVoteCount(i, f)
    PROVE  /\ back' \in [Process -> [Follower -> Wire(Process \cup {0})]]
           /\ append' = append /\ rpc' = rpc
           /\ back[i][f].q \in Seq(Lsn) /\ back[i][f].q /= <<>> /\ Head(back[i][f].q) \in Lsn
           /\ back'[i][f].to = back[i][f].to /\ back'[i][f].q = Tail(back[i][f].q)
           /\ \A j \in Process, g \in Follower : j /= i \/ g /= f => back'[j][g] = back[j][g]
<1> DEFINE q == Tail(back[i][f].q)
           new == [back[i][f] EXCEPT !.q = q]
<1>1. back \in [Process -> [Follower -> Wire(Process \cup {0})]] /\ back[i][f] \in Wire(Process \cup {0})
  BY ConnectionTypes DEF TypeInv, Wire
<1>2. back[i][f].q \in Seq(Lsn) /\ back[i][f].q /= <<>>
  BY ConnectionTypes DEF addVoteCount
<1>3. Head(back[i][f].q) \in Lsn /\ q \in Seq(Lsn)
  BY <1>2
<1>4. back' = [back EXCEPT ![i][f] = new] /\ append' = append /\ rpc' = rpc
  BY <1>1 DEF addVoteCount
<1> HIDE DEF q
<1>5. new \in Wire(Process \cup {0}) /\ new.to = back[i][f].to /\ new.q = q
  <2>1. new = [to |-> back[i][f].to, q |-> q]
    BY <1>1, SetQueue
  <2> QED
    BY <1>1, <1>3, <2>1, WireParts, WireOf
<1> HIDE DEF new
<1>6. /\ back' \in [Process -> [Follower -> Wire(Process \cup {0})]]
      /\ \A j \in Process, g \in Follower :
            back'[j][g] = IF j = i /\ g = f THEN new ELSE back[j][g]
  BY <1>1, <1>4, <1>5, UpdateOne
<1> QED
  BY <1>2, <1>3, <1>4, <1>5, <1>6 DEF q

LEMMA TypeStep ==
    ASSUME TypeInv, LeaderInv, FilesInv, BackInv, [Next]_vars
    PROVE  TypeInv'
<1> USE Nodes
<1>0. crashes' \in 0 .. MaxCrash
  BY CrashesType DEF TypeInv
<1>1. CASE UNCHANGED vars
  BY <1>1 DEF vars, fileVars, leaderVars, TypeInv
<1>2. ASSUME NEW p \in Node, Boot(p) PROVE TypeInv'
  <2>1. boots' \in [Node -> Nat] /\ \A n \in Node : boots'[n] \in 1 .. MaxBoot[n]
    <3>1. MaxBoot[p] \in Nat /\ boots[p] \in Nat
      BY RecoveryAssumption DEF Node, TypeInv
    <3> QED
      BY <1>2, <3>1 DEF Boot, TypeInv
  <2>2. lsn' \in 0 .. MaxLsn[boots'[0]]
    <3>1. boots'[0] \in Process
      BY <2>1 DEF Process
    <3>2. MaxLsn[boots'[0]] \in Nat
      BY <3>1, RecoveryAssumption
    <3>3. CASE p = 0
      BY <1>2, <3>2, <3>3 DEF Boot, leaderVars, LeaderInv
    <3>4. CASE p /= 0
      BY <1>2, <3>4 DEF Boot, leaderVars, TypeInv
    <3> QED
      BY <3>3, <3>4
  <2> QED
    BY <1>0, <1>2, <2>1, <2>2 DEF Boot, Log, leaderVars, TypeInv
<1>3. ASSUME NEW p \in Node, End(p) PROVE TypeInv'
  <2>1. CASE p = 0
    <3>1. back' \in [Process -> [Follower -> Wire(Process \cup {0})]] /\ append' = append /\ rpc' = rpc
      BY <1>3, <2>1, EndLeaderWires
    <3>2. peer' \in 1 .. NF + 1 /\ dest' \in 1 .. NF + 1 /\ lsn' = 0 /\ votes' \in [Lsn -> Nat]
      BY <1>3, <2>1, Nodes DEF End
    <3>3. up' \subseteq Node /\ told' \subseteq up' \ {0}
      BY <1>3, <2>1 DEF End, TypeInv
    <3>4. boots' = boots /\ log' = log /\ answered' = answered
      BY <1>3 DEF End, fileVars
    <3>5. lsn' \in 0 .. MaxLsn[boots'[0]]
      BY <3>2, <3>4, LeaderProcess
    <3> QED
      BY <1>0, <3>1, <3>2, <3>3, <3>4, <3>5 DEF TypeInv, Wire
  <2>2. CASE p /= 0
    <3>1. p \in Follower
      BY <2>2
    <3>2. up' \subseteq Node /\ told' \subseteq up' \ {0}
      BY <1>3, <2>2 DEF End, TypeInv
    <3>3. /\ boots' = boots /\ log' = log /\ answered' = answered
          /\ peer' = peer /\ lsn' = lsn /\ dest' = dest /\ votes' = votes
      BY <1>3, <2>2 DEF End, fileVars, leaderVars
    <3> QED
      BY <1>0, <1>3, <3>1, <3>2, <3>3, EndFollowerWires DEF TypeInv, Wire
  <2> QED
    BY <2>1, <2>2
<1>4. ASSUME requestVote PROVE TypeInv'
  <2>1. peer' \in 1 .. NF + 1
    BY <1>4 DEF requestVote, Follower
  <2> QED
    BY <1>0, <1>4, <2>1 DEF requestVote, fileVars, TypeInv
<1>5. ASSUME flush PROVE TypeInv'
  <2>1. lsn \in Lsn /\ lsn' \in 0 .. MaxLsn[boots'[0]]
    <3>1. lsn \in 0 .. MaxLsn[boots[0]] /\ lsn < MaxLsn[boots[0]] /\ boots' = boots /\ lsn' = lsn + 1
      BY <1>5 DEF flush, TypeInv
    <3> QED
      BY <3>1, LeaderProcess
  <2>2. [by |-> boots[0], lsn |-> lsn] \in Entry
    BY <2>1, LeaderProcess DEF Entry
  <2>3. log' \in [Node -> Seq(Entry)]
    BY <1>5, <2>2 DEF flush, TypeInv
  <2> QED
    BY <1>0, <1>5, <2>1, <2>3 DEF flush, TypeInv
<1>6. ASSUME sendRPC PROVE TypeInv'
  <2>4. dest' \in 1 .. NF + 1
    BY <1>6, Nodes DEF sendRPC, Follower
  <2> QED
    BY <1>0, <1>6, <2>4, sendRPCWires DEF sendRPC, fileVars, TypeInv, Wire
<1>7. ASSUME NEW i \in Process, NEW f \in Follower, beginReceiver(i, f) PROVE TypeInv'
  <2>1. rpc' = [rpc EXCEPT ![i][f] = "connect"]
    BY <1>7 DEF beginReceiver, startReceiver
  <2>2. rpc' \in [Process -> [Follower -> {"none", "connect", "recv", "ack"}]]
    BY <2>1 DEF TypeInv
  <2> QED
    BY <1>0, <1>7, <2>2 DEF beginReceiver, startReceiver, fileVars, leaderVars, TypeInv
<1>8. ASSUME NEW i \in Process, NEW f \in Follower, connectBack(i, f) PROVE TypeInv'
  <2>1. rpc' \in [Process -> [Follower -> {"none", "connect", "recv", "ack"}]]
    BY <1>8 DEF connectBack, TypeInv
  <2> QED
    BY <1>0, <1>8, <2>1, connectBackWires DEF connectBack, fileVars, leaderVars, TypeInv, Wire
<1>9. ASSUME NEW i \in Process, NEW f \in Follower, followerAddEntry(i, f) PROVE TypeInv'
  <2>1. Head(append[i][f].q) \in Lsn
    BY <1>9, followerAddEntryWires
  <2>2. [by |-> i, lsn |-> Head(append[i][f].q)] \in Entry
    BY <2>1 DEF Entry
  <2>3. log' \in [Node -> Seq(Entry)]
    BY <1>9, <2>2 DEF followerAddEntry, TypeInv
  <2>4. rpc' \in [Process -> [Follower -> {"none", "connect", "recv", "ack"}]]
    BY <1>9 DEF followerAddEntry, TypeInv
  <2> QED
    BY <1>0, <1>9, <2>3, <2>4, followerAddEntryWires DEF followerAddEntry, leaderVars, TypeInv, Wire
<1>10. ASSUME NEW i \in Process, NEW f \in Follower, sendAck(i, f) PROVE TypeInv'
  <2>1. rpc' \in [Process -> [Follower -> {"none", "connect", "recv", "ack"}]]
    BY <1>10 DEF sendAck, TypeInv
  <2> QED
    BY <1>0, <1>10, <2>1, sendAckWires DEF sendAck, fileVars, leaderVars, TypeInv, Wire
<1>11. ASSUME NEW i \in Process, NEW f \in Follower, addVoteCount(i, f) PROVE TypeInv'
  <2> DEFINE n == Head(back[i][f].q)
  <2>1. n \in Lsn
    BY <1>11, addVoteCountWires
  <2>4. votes' \in [Lsn -> Nat]
    <3>1. votes' = [votes EXCEPT ![n] = @ + 1] /\ votes[n] \in Nat
      BY <1>11, <2>1 DEF addVoteCount, TypeInv
    <3> HIDE DEF n
    <3> QED
      BY <2>1, <3>1 DEF TypeInv
  <2>5. answered' \subseteq Entry
    <3>1. [by |-> boots[0], lsn |-> n] \in Entry
      BY <2>1, LeaderProcess DEF Entry
    <3> HIDE DEF n
    <3>2. answered' \subseteq answered \cup {[by |-> boots[0], lsn |-> n]}
      BY <1>11 DEF addVoteCount, n
    <3> QED
      BY <3>1, <3>2 DEF TypeInv
  <2> QED
    BY <1>0, <1>11, <2>4, <2>5, addVoteCountWires DEF addVoteCount, fileVars, TypeInv, Wire
<1> QED
  BY <1>1, <1>2, <1>3, <1>4, <1>5, <1>6, <1>7, <1>8, <1>9, <1>10, <1>11, Cases

-----------------------------------------------------------------------------
(* The leader, and what the files hold *)

LEMMA LeaderStep ==
    ASSUME TypeInv, LeaderInv, [Next]_vars
    PROVE  LeaderInv'
<1>1. CASE UNCHANGED vars
  BY <1>1 DEF vars, fileVars, leaderVars, LeaderInv
<1>2. ASSUME NEW p \in Node, Boot(p) PROVE LeaderInv'
  BY <1>2 DEF Boot, leaderVars, LeaderInv
<1>3. ASSUME NEW p \in Node, End(p) PROVE LeaderInv'
  <2>1. NF + 1 \notin Follower
    BY Nodes DEF Follower
  <2> QED
    BY <1>3, <2>1 DEF End, leaderVars, LeaderInv
<1>4. ASSUME requestVote PROVE LeaderInv'
  BY <1>4 DEF requestVote, LeaderInv
<1>5. ASSUME flush PROVE LeaderInv'
  <2>1. lsn \in Nat /\ lsn' = lsn + 1
    BY <1>5, LeaderProcess DEF flush, TypeInv
  <2> QED
    BY <1>5, <2>1 DEF flush, LeaderInv
<1>6. ASSUME sendRPC PROVE LeaderInv'
  BY <1>6 DEF sendRPC, LeaderInv
<1>7. ASSUME NEW i \in Process, NEW f \in Follower,
             beginReceiver(i, f) \/ connectBack(i, f) \/ followerAddEntry(i, f) \/ sendAck(i, f)
      PROVE  LeaderInv'
  BY <1>7 DEF beginReceiver, startReceiver, connectBack, followerAddEntry, sendAck, leaderVars, LeaderInv
<1>8. ASSUME NEW i \in Process, NEW f \in Follower, addVoteCount(i, f) PROVE LeaderInv'
  BY <1>8 DEF addVoteCount, Alive, LeaderInv
<1> QED
  BY <1>1, <1>2, <1>3, <1>4, <1>5, <1>6, <1>7, <1>8, Cases

LEMMA flushFiles ==
    ASSUME TypeInv, FilesInv, flush
    PROVE  /\ boots[0] \in Process /\ lsn \in Nat /\ lsn = Held(0, boots[0])
           /\ boots' = boots /\ up' = up /\ lsn' = lsn + 1
           /\ Numbered(log'[0]) /\ \A f \in Follower : log'[f] = log[f]
           /\ Held(0, boots[0])' = lsn + 1
           /\ \A i \in Process \ {boots[0]} : Held(0, i)' = Held(0, i)
           /\ \A e : Has(log[0], e) => Has(log'[0], e)
<1>1. boots[0] \in Process /\ lsn \in Nat /\ lsn = Held(0, boots[0]) /\ lsn \in Lsn
  <2>1. lsn \in 0 .. MaxLsn[boots[0]] /\ lsn < MaxLsn[boots[0]]
    BY DEF flush, TypeInv
  <2> QED
    BY <2>1, LeaderProcess DEF flush, FilesInv
<1>2. log[0] \in Seq(Entry) /\ Numbered(log[0]) /\ 0 \in Node
  BY <1>1, Nodes, FileTypes
<1>3. boots' = boots /\ up' = up /\ lsn' = lsn + 1
  BY DEF flush
<1>4. /\ log'[0] = Append(log[0], [by |-> boots[0], lsn |-> lsn])
      /\ \A f \in Follower : log'[f] = log[f]
  BY Nodes, <1>2 DEF flush, TypeInv
<1>5. /\ Numbered(log'[0]) /\ Count(log'[0], boots[0]) = lsn + 1
      /\ \A i \in Process \ {boots[0]} : Count(log'[0], i) = Count(log[0], i)
  BY <1>1, <1>2, <1>4, AppendNumbered DEF Held
<1>6. [by |-> boots[0], lsn |-> lsn] \in Entry
  BY <1>1 DEF Entry
<1>7. \A e : Has(log[0], e) => Has(log'[0], e)
  BY <1>2, <1>4, <1>6, HasAppend
<1> QED
  BY <1>1, <1>3, <1>4, <1>5, <1>7 DEF Held

LEMMA followerAddEntryFiles ==
    ASSUME TypeInv, FilesInv, AppendInv, NEW i \in Process, NEW f \in Follower,
           followerAddEntry(i, f)
    PROVE  /\ boots' = boots /\ up' = up /\ lsn' = lsn /\ dest' = dest
           /\ Numbered(log'[f]) /\ \A p \in Node \ {f} : log'[p] = log[p]
           /\ Held(f, i) \in Nat
           /\ Held(f, i)' = Held(f, i) + 1 /\ Held(f, i) + 1 <= Held(0, i)
           /\ \A j \in Process \ {i} : Held(f, j)' = Held(f, j)
           /\ From(append'[i][f].q, Held(f, i)')
           /\ Len(append'[i][f].q) = Len(append[i][f].q) - 1
           /\ Len(append[i][f].q) \in Nat
           /\ \A e : Has(log[f], e) => Has(log'[f], e)
<1> DEFINE q == append[i][f].q
           c == Held(f, i)
<1>0. f \in Node /\ 0 \in Node
  BY Nodes
<1>1. log[f] \in Seq(Entry) /\ Numbered(log[f]) /\ c \in Nat /\ Held(0, i) \in Nat
  BY <1>0, FileTypes
<1>2. rpc[i][f] /= "none" /\ q /= <<>>
  BY DEF followerAddEntry
<1>3. From(q, c) /\ c + Len(q) <= Held(0, i)
  BY <1>2 DEF AppendInv, AppendAt
<1>4. q \in Seq(Lsn) /\ Head(q) \in Lsn /\ append'[i][f].q = Tail(q)
  BY followerAddEntryWires
<1>5. Head(q) = c /\ From(Tail(q), c + 1) /\ Len(Tail(q)) = Len(q) - 1
  BY <1>1, <1>2, <1>3, <1>4, FromTail
<1>6. Len(q) \in Nat /\ Len(q) > 0
  BY <1>2, <1>4
<1>7. /\ log'[f] = Append(log[f], [by |-> i, lsn |-> c])
      /\ \A p \in Node \ {f} : log'[p] = log[p]
  BY <1>0, <1>5 DEF followerAddEntry, TypeInv
<1>8. /\ Numbered(log'[f]) /\ Count(log'[f], i) = c + 1
      /\ \A j \in Process \ {i} : Count(log'[f], j) = Count(log[f], j)
  BY <1>1, <1>4, <1>5, <1>7, AppendNumbered DEF Held
<1>9. c + 1 <= Held(0, i)
  BY <1>1, <1>3, <1>6
<1>10. boots' = boots /\ up' = up /\ lsn' = lsn /\ dest' = dest
  BY DEF followerAddEntry, leaderVars
<1>11. [by |-> i, lsn |-> c] \in Entry
  BY <1>4, <1>5 DEF Entry
<1>12. \A e : Has(log[f], e) => Has(log'[f], e)
  BY <1>1, <1>7, <1>11, HasAppend
<1> QED
  BY <1>1, <1>4, <1>5, <1>6, <1>7, <1>8, <1>9, <1>10, <1>12 DEF Held

LEMMA FilesStep ==
    ASSUME TypeInv, LeaderInv, FilesInv, AppendInv, [Next]_vars
    PROVE  FilesInv'
<1> USE Nodes
<1>1. CASE UNCHANGED vars
  BY <1>1 DEF vars, fileVars, leaderVars, FilesInv, Held
<1>2. ASSUME NEW p \in Node, Boot(p) PROVE FilesInv'
  <2>1. log' = log
    BY <1>2 DEF Boot, Log, TypeInv
  <2>2. \A i \in Process : i > boots'[0] => i > boots[0]
    BY <1>2, LsnType DEF Boot, TypeInv
  <2>3. 0 \in up' => Held(0, boots'[0]) = lsn'
    <3>1. CASE p = 0
      <4>1. boots'[0] = boots[0] + 1 /\ boots[0] \in Nat /\ boots'[0] \in 1 .. MaxBoot[0]
        BY <1>2, <3>1, RecoveryAssumption DEF Boot, TypeInv
      <4>2. boots'[0] \in Process /\ boots'[0] > boots[0]
        BY <4>1 DEF Process
      <4>3. lsn' = 0
        BY <1>2, <3>1 DEF Boot, leaderVars, LeaderInv
      <4> QED
        BY <4>2, <4>3 DEF FilesInv
    <3>2. CASE p /= 0
      BY <1>2, <3>2 DEF Boot, leaderVars, FilesInv, TypeInv
    <3> QED
      BY <3>1, <3>2
  <2> QED
    BY <2>1, <2>2, <2>3 DEF FilesInv, Held
<1>3. ASSUME NEW p \in Node, End(p) PROVE FilesInv'
  BY <1>3 DEF End, fileVars, leaderVars, FilesInv, Held
<1>4. ASSUME requestVote \/ sendRPC PROVE FilesInv'
  BY <1>4 DEF requestVote, sendRPC, fileVars, FilesInv, Held
<1>5. ASSUME flush PROVE FilesInv'
  <2>1. /\ boots[0] \in Process /\ lsn \in Nat /\ lsn = Held(0, boots[0])
        /\ boots' = boots /\ up' = up /\ lsn' = lsn + 1
        /\ Numbered(log'[0]) /\ \A f \in Follower : log'[f] = log[f]
        /\ Held(0, boots[0])' = lsn + 1
        /\ \A i \in Process \ {boots[0]} : Held(0, i)' = Held(0, i)
    BY <1>5, flushFiles
  <2>2. \A f \in Follower, i \in Process : Held(f, i)' = Held(f, i)
    BY <2>1 DEF Held
  <2>3. \A p \in Node : Numbered(log'[p])
    BY <2>1 DEF FilesInv
  <2>4. ASSUME NEW i \in Process, NEW f \in Follower PROVE Held(f, i)' <= Held(0, i)'
    <3>1. Held(f, i) <= Held(0, i) /\ Held(f, i) \in Nat /\ Held(0, i) \in Nat
      BY FileTypes DEF FilesInv
    <3> QED
      BY <2>1, <2>2, <3>1
  <2>5. ASSUME NEW i \in Process, i > boots'[0] PROVE Held(0, i)' = 0
    <3>1. i /= boots[0] /\ Held(0, i) = 0
      BY <2>1, <2>5, LsnType DEF FilesInv
    <3> QED
      BY <2>1, <3>1
  <2> QED
    BY <2>1, <2>3, <2>4, <2>5 DEF FilesInv, Held
<1>6. ASSUME NEW i \in Process, NEW f \in Follower, followerAddEntry(i, f) PROVE FilesInv'
  <2>1. /\ boots' = boots /\ up' = up /\ lsn' = lsn
        /\ Numbered(log'[f]) /\ \A p \in Node \ {f} : log'[p] = log[p]
        /\ Held(f, i)' = Held(f, i) + 1 /\ Held(f, i) + 1 <= Held(0, i)
        /\ \A j \in Process \ {i} : Held(f, j)' = Held(f, j)
    BY <1>6, followerAddEntryFiles
  <2>2. \A p \in Node \ {f}, j \in Process : Held(p, j)' = Held(p, j)
    BY <2>1 DEF Held
  <2>3. \A p \in Node : Numbered(log'[p])
    BY <2>1 DEF FilesInv
  <2>4. ASSUME NEW j \in Process, NEW g \in Follower PROVE Held(g, j)' <= Held(0, j)'
    <3>1. Held(g, j) <= Held(0, j) /\ Held(0, j)' = Held(0, j)
      BY <2>2 DEF FilesInv
    <3>2. CASE g = f /\ j = i
      BY <2>1, <3>1, <3>2
    <3>3. CASE g /= f \/ j /= i
      <4>1. Held(g, j)' = Held(g, j)
        BY <2>1, <2>2, <3>3
      <4> QED
        BY <3>1, <4>1
    <3> QED
      BY <3>2, <3>3
  <2>5. \A j \in Process : Held(0, j)' = Held(0, j)
    BY <2>2
  <2> QED
    BY <2>1, <2>3, <2>4, <2>5, LeaderProcess DEF FilesInv, Held
<1>7. ASSUME NEW i \in Process, NEW f \in Follower,
             beginReceiver(i, f) \/ connectBack(i, f) \/ sendAck(i, f) \/ addVoteCount(i, f)
      PROVE  FilesInv'
  <2>1. up' = up /\ boots' = boots /\ log' = log /\ lsn' = lsn
    BY <1>7 DEF beginReceiver, startReceiver, connectBack, sendAck, addVoteCount, fileVars, leaderVars
  <2> QED
    BY <2>1 DEF FilesInv, Held
<1> QED
  BY <1>1, <1>2, <1>3, <1>4, <1>5, <1>6, <1>7, Cases

-----------------------------------------------------------------------------
(* Batches on their way *)

LEMMA NotAlive ==
    ASSUME TypeInv, NEW p \in Node
    PROVE  boots[p] \in Nat \ {0} /\ ~ Alive(p, 0)
<1>1. boots[p] \in Nat /\ MaxBoot[p] \in Nat /\ boots[p] \in 1 .. MaxBoot[p]
  BY RecoveryAssumption DEF TypeInv, Node
<1> QED
  BY <1>1 DEF Alive

\* A connection is as before where an action changes nothing that bears on it.
LEMMA AppendSame ==
    ASSUME NEW i \in Process, NEW f \in Follower, AppendAt(i, f),
           append'[i][f] = append[i][f], boots' = boots, log'[f] = log[f], Held(0, i)' = Held(0, i),
           rpc'[i][f] = rpc[i][f], back'[i][f].to = back[i][f].to,
           0 \in up' /\ i = boots[0] => 0 \in up /\ Sent(f)' = Sent(f),
           f \in up' <=> f \in up
    PROVE  AppendAt(i, f)'
<1>1. Held(f, i)' = Held(f, i) /\ (Alive(f, append[i][f].to)' <=> Alive(f, append[i][f].to))
  BY DEF Held, Alive
<1> QED
  BY <1>1 DEF AppendAt, Alive

LEMMA BootAppend ==
    ASSUME TypeInv, LeaderInv, AppendInv, NEW p \in Node, Boot(p),
           NEW i \in Process, NEW f \in Follower
    PROVE  AppendAt(i, f)'
<1> DEFINE a == append[i][f]
<1>0. f \in Node /\ 0 \in Node /\ f /= 0
  BY Nodes
<1>1. /\ log' = log /\ append' = append /\ rpc' = rpc /\ back' = back /\ lsn' = lsn /\ dest' = dest
      /\ up' = up \cup {p} /\ p \notin up
      /\ boots'[p] = boots[p] + 1 /\ \A n \in Node : n /= p => boots'[n] = boots[n]
  BY DEF Boot, Log, leaderVars, TypeInv
<1>2. AppendAt(i, f) /\ a.to \in Nat
  BY ConnectionTypes DEF AppendInv
<1>3. Held(f, i)' = Held(f, i) /\ Held(0, i)' = Held(0, i) /\ Sent(f)' = Sent(f)
  BY <1>1 DEF Held, Sent
<1>4. boots[f] \in Nat \ {0} /\ boots[0] \in Nat \ {0} /\ i \in Nat /\ ~ Alive(f, 0)
  BY <1>0, NotAlive, LsnType
<1>5. boots'[f] >= boots[f] /\ boots'[0] >= boots[0] /\ boots'[f] \in Nat /\ boots'[0] \in Nat
  BY <1>0, <1>1, <1>4
<1>6. Alive(f, a.to)' <=> Alive(f, a.to)
  <2>1. CASE p = f
    <3>1. a.to <= boots[f]
      BY <1>2 DEF AppendAt
    <3> QED
      BY <1>1, <1>2, <1>4, <2>1, <3>1 DEF Alive
  <2>2. CASE p /= f
    BY <1>0, <1>1, <2>2 DEF Alive
  <2> QED
    BY <2>1, <2>2
<1>7. a.to <= boots'[f] /\ (i > boots'[0] => i > boots[0])
  <2>1. a.to <= boots[f]
    BY <1>2 DEF AppendAt
  <2> QED
    BY <1>2, <1>4, <1>5, <2>1
<1>8. CASE p = 0
  <2>1. lsn = 0 /\ dest = NF + 1
    BY <1>1, <1>8 DEF LeaderInv
  <2>2. Sent(f) = 0
    BY <2>1, Nodes DEF Sent, Follower
  <2>3. i = boots'[0] => i > boots[0]
    BY <1>1, <1>4, <1>8
  <2>4. i = boots'[0] => a.to = 0
    BY <1>2, <2>3 DEF AppendAt
  <2> QED
    BY <1>1, <1>2, <1>3, <1>4, <1>6, <1>7, <2>2, <2>4 DEF AppendAt
<1>9. CASE p /= 0
  <2>1. boots'[0] = boots[0] /\ (0 \in up' <=> 0 \in up)
    BY <1>0, <1>1, <1>9
  <2> QED
    BY <1>1, <1>2, <1>3, <1>6, <1>7, <2>1 DEF AppendAt
<1> QED
  BY <1>8, <1>9

LEMMA EndAppend ==
    ASSUME TypeInv, LeaderInv, FilesInv, AppendInv, NEW p \in Node, End(p),
           NEW i \in Process, NEW f \in Follower
    PROVE  AppendAt(i, f)'
<1>0. f \in Node /\ f /= 0 /\ AppendAt(i, f)
  BY Nodes DEF AppendInv
<1>1. boots' = boots /\ log' = log /\ up' = up \ {p}
  BY DEF End, fileVars
<1>2. Held(f, i)' = Held(f, i) /\ Held(0, i)' = Held(0, i)
  BY <1>1 DEF Held
<1>3. CASE p = 0
  <2>1. append' = append /\ rpc' = rpc /\ back'[i][f].to = back[i][f].to
    BY <1>3, EndLeaderWires
  <2>2. 0 \notin up' /\ (f \in up' <=> f \in up)
    BY <1>0, <1>1, <1>3
  <2> QED
    BY <1>0, <1>1, <1>2, <2>1, <2>2, AppendSame
<1>4. CASE p /= 0
  <2>1. p \in Follower
    BY <1>4, Nodes
  <2>2. /\ append'[i][f].to = append[i][f].to /\ back' = back
        /\ f /= p => append'[i][f].q = append[i][f].q
        /\ rpc'[i][f] = IF f = p THEN "none" ELSE rpc[i][f]
    BY <2>1, EndFollowerWires
  <2>3. lsn' = lsn /\ dest' = dest /\ (0 \in up' <=> 0 \in up)
    BY <1>1, <1>4 DEF End, leaderVars
  <2>4. Sent(f)' = Sent(f)
    BY <2>3 DEF Sent
  <2>5. CASE f = p
    <3>1. ~ Alive(f, append[i][f].to)'
      BY <1>1, <2>5 DEF Alive
    <3> QED
      BY <1>0, <1>1, <1>2, <2>2, <2>3, <2>4, <2>5, <3>1 DEF AppendAt
  <2>6. CASE f /= p
    <3>1. Alive(f, append[i][f].to)' <=> Alive(f, append[i][f].to)
      BY <1>1, <2>2, <2>6 DEF Alive
    <3> QED
      BY <1>0, <1>1, <1>2, <2>2, <2>3, <2>4, <2>6, <3>1 DEF AppendAt
  <2> QED
    BY <2>5, <2>6
<1> QED
  BY <1>3, <1>4

LEMMA flushAppend ==
    ASSUME TypeInv, FilesInv, AppendInv, flush, NEW i \in Process, NEW f \in Follower
    PROVE  AppendAt(i, f)'
<1>0. f \in Node /\ 0 \in Node /\ AppendAt(i, f) /\ f \in Nat /\ f <= NF /\ f >= 1
  BY Nodes DEF AppendInv, Follower
<1>1. /\ boots[0] \in Process /\ lsn \in Nat /\ lsn = Held(0, boots[0])
      /\ boots' = boots /\ up' = up /\ lsn' = lsn + 1
      /\ log'[f] = log[f]
      /\ Held(0, boots[0])' = lsn + 1
      /\ \A j \in Process \ {boots[0]} : Held(0, j)' = Held(0, j)
  BY flushFiles
<1>2. append' = append /\ rpc' = rpc /\ back' = back /\ dest' = 1 /\ dest = NF + 1
  BY DEF flush
<1>3. Sent(f)' = Sent(f)
  <2>1. ~ (f < dest') /\ lsn' - 1 = lsn
    BY <1>0, <1>1, <1>2
  <2>2. f < dest
    BY <1>0, <1>2, RecoveryAssumption
  <2> QED
    BY <2>1, <2>2 DEF Sent
<1>4. Held(f, i)' = Held(f, i) /\ (Alive(f, append[i][f].to)' <=> Alive(f, append[i][f].to))
  BY <1>1, <1>2 DEF Held, Alive
<1>5. Held(f, i) \in Nat /\ Held(0, i) \in Nat /\ Held(0, i)' \in Nat /\ Held(0, i) <= Held(0, i)'
  BY <1>0, <1>1, FileTypes
<1>6. Len(append[i][f].q) \in Nat
  BY ConnectionTypes
<1>7. Held(f, i) + Len(append[i][f].q) <= Held(0, i) => Held(f, i) + Len(append[i][f].q) <= Held(0, i)'
  BY <1>5, <1>6
<1> QED
  BY <1>0, <1>1, <1>2, <1>3, <1>4, <1>7 DEF AppendAt, Alive

LEMMA sendRPCAppend ==
    ASSUME TypeInv, LeaderInv, FilesInv, AppendInv, sendRPC, NEW i \in Process, NEW f \in Follower
    PROVE  AppendAt(i, f)'
<1> DEFINE a == append[i][f]
           new == append'[i][f]
           c == Held(f, i)
<1>0. f \in Node /\ 0 \in Node /\ AppendAt(i, f) /\ f \in Nat
  BY Nodes DEF AppendInv, Follower
<1>1. /\ boots' = boots /\ log' = log /\ rpc' = rpc /\ back' = back /\ up' = up
      /\ lsn' = lsn /\ dest' = dest + 1 /\ 0 \in up /\ dest \in Follower /\ dest \in Nat
  BY Nodes, sendRPCWires DEF sendRPC, fileVars, Follower
<1>2. c' = c /\ Held(0, i)' = Held(0, i)
  BY <1>1 DEF Held
<1>3. lsn \in Nat \ {0} /\ lsn - 1 \in Lsn
  BY <1>1, LatestBatch
<1>4. CASE i /= boots[0] \/ f /= dest
  <2>1. new = a
    BY <1>4, sendRPCWires
  <2>2. i = boots[0] => Sent(f)' = Sent(f)
    BY <1>0, <1>1, <1>4 DEF Sent
  <2> QED
    BY <1>0, <1>1, <1>2, <2>1, <2>2, AppendSame
<1>5. CASE i = boots[0] /\ f = dest
  <2>1. /\ new.to = IF a.to = 0 THEN boots[f] ELSE a.to
        /\ new.q = IF a.to = 0 THEN <<lsn - 1>>
                   ELSE IF Alive(f, a.to) THEN Append(a.q, lsn - 1) ELSE a.q
    BY <1>5, sendRPCWires
  <2>2. Sent(f) = lsn - 1 /\ Sent(f)' = lsn
    BY <1>0, <1>1, <1>5 DEF Sent
  <2>3. c \in Nat /\ Held(0, i) = lsn /\ a.q \in Seq(Lsn) /\ Len(a.q) \in Nat
    BY <1>0, <1>1, <1>5, FileTypes, ConnectionTypes DEF FilesInv
  <2>4. /\ boots[f] \in Nat \ {0} /\ ~ Alive(f, 0)
        /\ \A t : Alive(f, t)' <=> Alive(f, t)
    BY <1>0, <1>1, NotAlive DEF Alive
  <2>5. CASE a.to = 0
    <3>1. c = 0 /\ lsn = 1 /\ rpc[i][f] = "none"
      BY <1>0, <1>1, <1>3, <1>5, <2>2, <2>5 DEF AppendAt
    <3>2. Len(new.q) = 1 /\ From(new.q, 0)
      BY <2>1, <2>5, <3>1 DEF From
    <3>3. new.to = boots[f] /\ new.to /= 0
      BY <2>1, <2>4, <2>5
    <3>4. i <= boots'[0]
      BY <1>1, <1>5, LsnType
    <3>5. ~ (i > boots'[0])
      BY <1>0, <1>1, <1>5, NotAlive
    <3> HIDE DEF a, new, c
    <3> QED
      BY <1>1, <1>2, <1>3, <1>5, <2>2, <2>3, <2>4, <3>1, <3>2, <3>3, <3>5 DEF AppendAt, new, c
  <2>6. CASE a.to /= 0 /\ Alive(f, a.to)
    <3>1. From(a.q, c) /\ c + Len(a.q) = lsn - 1
      BY <1>0, <1>1, <1>5, <2>2, <2>6 DEF AppendAt
    <3>2. new.q = Append(a.q, lsn - 1) /\ new.to = a.to
      BY <2>1, <2>6
    <3>3. From(new.q, c) /\ Len(new.q) = Len(a.q) + 1
      BY <1>3, <2>3, <3>1, <3>2, FromAppend
    <3>4. c + Len(new.q) = lsn
      <4> HIDE DEF a, new, c
      <4> QED
        BY <1>3, <2>3, <3>1, <3>3
    <3>5. ~ (i > boots'[0])
      BY <1>0, <1>1, <1>5, NotAlive
    <3>6. new.to <= boots'[f] /\ new.to /= 0
      BY <1>0, <1>1, <2>4, <2>6, <3>2 DEF AppendAt
    <3>7. /\ From(new.q, Held(f, i)')
          /\ Held(f, i)' + Len(new.q) <= Held(0, i)'
          /\ Held(f, i)' + Len(new.q) = Sent(f)'
      <4> HIDE DEF new
      <4>1. Held(f, i)' = c /\ Held(0, i)' = lsn /\ Sent(f)' = lsn
        BY <1>2, <2>2, <2>3
      <4> HIDE DEF c
      <4> QED
        BY <1>3, <3>3, <3>4, <4>1
    <3>8. Alive(f, new.to)
      BY <2>6, <3>2
    <3> QED
      BY <1>1, <3>5, <3>6, <3>7, <3>8 DEF AppendAt, Alive
  <2>7. CASE a.to /= 0 /\ ~ Alive(f, a.to)
    <3>1. new.to = a.to
      BY <2>1, <2>7
    <3> QED
      BY <1>0, <1>1, <1>2, <2>4, <2>7, <3>1 DEF AppendAt
  <2> QED
    BY <2>5, <2>6, <2>7
<1> QED
  BY <1>4, <1>5

LEMMA followerAddEntryAppend ==
    ASSUME TypeInv, FilesInv, AppendInv, NEW j \in Process, NEW g \in Follower,
           followerAddEntry(j, g), NEW i \in Process, NEW f \in Follower
    PROVE  AppendAt(i, f)'
<1>0. f \in Node /\ g \in Node /\ 0 \in Node /\ g /= 0 /\ AppendAt(i, f)
  BY Nodes DEF AppendInv
<1>1. /\ boots' = boots /\ up' = up /\ lsn' = lsn /\ dest' = dest
      /\ \A p \in Node \ {g} : log'[p] = log[p]
      /\ Held(g, j) \in Nat /\ Held(g, j)' = Held(g, j) + 1 /\ Held(g, j) + 1 <= Held(0, j)
      /\ \A k \in Process \ {j} : Held(g, k)' = Held(g, k)
      /\ From(append'[j][g].q, Held(g, j)')
      /\ Len(append'[j][g].q) = Len(append[j][g].q) - 1
      /\ Len(append[j][g].q) \in Nat
  BY followerAddEntryFiles
<1>2. back' = back /\ Sent(f)' = Sent(f) /\ Held(0, i)' = Held(0, i)
  BY <1>0, <1>1, followerAddEntryWires DEF Sent, Held
<1>3. CASE i = j /\ f = g
  <2>1. /\ append'[i][f].to = append[i][f].to /\ append'[i][f].q = Tail(append[i][f].q)
        /\ rpc[i][f] = "recv"
    <3>1. followerAddEntry(i, f)
      BY <1>3
    <3>2. rpc[i][f] = "recv"
      BY <3>1 DEF followerAddEntry
    <3> QED
      BY <1>3, <3>2, followerAddEntryWires
  <2>2. Alive(f, append[i][f].to) /\ Alive(f, append[i][f].to)' /\ append[i][f].to /= 0
    BY <1>0, <1>1, <2>1, NotAlive DEF AppendAt, Alive
  <2>3. /\ Held(f, i)' = Held(f, i) + 1 /\ Held(f, i) \in Nat
        /\ Len(append'[i][f].q) = Len(append[i][f].q) - 1 /\ Len(append[i][f].q) \in Nat
        /\ From(append'[i][f].q, Held(f, i)')
    BY <1>1, <1>3
  <2>4. Held(f, i)' + Len(append'[i][f].q) = Held(f, i) + Len(append[i][f].q)
    <3> DEFINE h == Held(f, i)
               hn == Held(f, i)'
               n == Len(append[i][f].q)
               nn == Len(append'[i][f].q)
    <3>1. hn = h + 1 /\ h \in Nat /\ nn = n - 1 /\ n \in Nat
      BY <2>3
    <3> HIDE DEF h, hn, n, nn
    <3>2. hn + nn = h + n
      BY <3>1
    <3> QED
      BY <3>2 DEF h, hn, n, nn
  <2> QED
    BY <1>0, <1>1, <1>2, <2>1, <2>2, <2>3, <2>4 DEF AppendAt
<1>4. CASE i /= j \/ f /= g
  <2>1. append'[i][f] = append[i][f] /\ rpc'[i][f] = rpc[i][f]
    BY <1>4, followerAddEntryWires
  <2>2. Held(f, i)' = Held(f, i)
    BY <1>0, <1>1, <1>4 DEF Held
  <2> QED
    BY <1>0, <1>1, <1>2, <2>1, <2>2 DEF AppendAt, Alive
<1> QED
  BY <1>3, <1>4

LEMMA AppendStep ==
    ASSUME TypeInv, LeaderInv, FilesInv, AppendInv, BackInv, [Next]_vars
    PROVE  AppendInv'
<1> SUFFICES ASSUME NEW i \in Process, NEW f \in Follower PROVE AppendAt(i, f)'
  BY DEF AppendInv
<1>0. AppendAt(i, f) /\ f \in Node
  BY Nodes DEF AppendInv
<1>1. CASE UNCHANGED vars
  <2>1. /\ append' = append /\ boots' = boots /\ log' = log /\ rpc' = rpc /\ back' = back
        /\ up' = up /\ lsn' = lsn /\ dest' = dest
    BY <1>1 DEF vars, fileVars, leaderVars
  <2> QED
    BY <1>0, <2>1, AppendSame DEF Held, Sent
<1>2. ASSUME NEW p \in Node, Boot(p) \/ End(p) PROVE AppendAt(i, f)'
  BY <1>2, BootAppend, EndAppend
<1>3. ASSUME requestVote PROVE AppendAt(i, f)'
  BY <1>0, <1>3, AppendSame DEF requestVote, fileVars, Held, Sent
<1>4. ASSUME flush \/ sendRPC PROVE AppendAt(i, f)'
  BY <1>4, flushAppend, sendRPCAppend
<1>5. ASSUME NEW j \in Process, NEW g \in Follower,
             beginReceiver(j, g) \/ connectBack(j, g) \/ sendAck(j, g)
      PROVE  AppendAt(i, f)'
  <2>1. /\ boots' = boots /\ log' = log /\ up' = up /\ lsn' = lsn /\ dest' = dest /\ append' = append
    BY <1>5 DEF beginReceiver, startReceiver, connectBack, sendAck, fileVars, leaderVars
  <2>2. /\ Held(f, i)' = Held(f, i) /\ Held(0, i)' = Held(0, i) /\ Sent(f)' = Sent(f)
        /\ \A t : Alive(f, t)' <=> Alive(f, t)
    BY <2>1 DEF Held, Sent, Alive
  <2>3. CASE i = j /\ f = g
    <3>1. Alive(f, append[i][f].to)
      BY <1>0, <1>5, <2>3 DEF AppendAt, beginReceiver, startReceiver, connectBack, sendAck
    <3>2. append[i][f].to /= 0
      BY <1>0, <3>1, NotAlive
    <3> QED
      BY <1>0, <2>1, <2>2, <3>1, <3>2 DEF AppendAt
  <2>4. CASE i /= j \/ f /= g
    <3>1. rpc'[i][f] = rpc[i][f] /\ back'[i][f] = back[i][f]
      <4>1. CASE beginReceiver(j, g)
        BY <2>4, <4>1 DEF beginReceiver, startReceiver, TypeInv
      <4>2. CASE connectBack(j, g)
        BY <2>4, <4>2, connectBackWires
      <4>3. CASE sendAck(j, g)
        BY <2>4, <4>3, sendAckWires
      <4> QED
        BY <1>5, <4>1, <4>2, <4>3
    <3> QED
      BY <1>0, <2>1, <2>2, <3>1 DEF AppendAt
  <2> QED
    BY <2>3, <2>4
<1>6. ASSUME NEW j \in Process, NEW g \in Follower, followerAddEntry(j, g) PROVE AppendAt(i, f)'
  BY <1>6, followerAddEntryAppend
<1>7. ASSUME NEW j \in Process, NEW g \in Follower, addVoteCount(j, g) PROVE AppendAt(i, f)'
  <2>1. boots' = boots /\ log' = log /\ up' = up /\ lsn' = lsn /\ dest' = dest
    BY <1>7 DEF addVoteCount, fileVars
  <2>2. append' = append /\ rpc' = rpc /\ back'[i][f].to = back[i][f].to
    BY <1>7, addVoteCountWires
  <2> QED
    BY <1>0, <2>1, <2>2, AppendSame DEF Held, Sent
<1> QED
  BY <1>1, <1>2, <1>3, <1>4, <1>5, <1>6, <1>7, Cases

-----------------------------------------------------------------------------
(* Acknowledgements on their way *)

LEMMA BootAlive ==
    ASSUME TypeInv, AppendInv, NEW p \in Node, Boot(p), NEW i \in Process, NEW f \in Follower
    PROVE  Alive(f, append[i][f].to)' <=> Alive(f, append[i][f].to)
<1>0. f \in Node /\ append' = append
  BY Nodes DEF Boot
<1>1. append[i][f].to <= boots[f] /\ append[i][f].to \in Nat /\ boots[f] \in Nat
  BY <1>0, ConnectionTypes, NotAlive DEF AppendInv, AppendAt
<1>2. CASE p = f
  <2>1. f \notin up /\ boots'[f] = boots[f] + 1
    BY <1>0, <1>2 DEF Boot, TypeInv
  <2> QED
    BY <1>0, <1>1, <2>1 DEF Alive
<1>3. CASE p /= f
  BY <1>0, <1>3 DEF Boot, TypeInv, Alive
<1> QED
  BY <1>2, <1>3

LEMMA AckedType ==
    ASSUME TypeInv, FilesInv, BackInv, NEW i \in Process, NEW f \in Follower
    PROVE  /\ Held(f, i) \in Nat /\ Acked(i, f) \in Nat /\ Acked(i, f) <= Held(f, i)
           /\ Rising(back[i][f].q, Acked(i, f)) /\ back[i][f].q \in Seq(Lsn)
<1>1. Held(f, i) \in Nat /\ BackAt(i, f)
  BY Nodes, FileTypes DEF BackInv
<1> QED
  BY <1>1, ConnectionTypes DEF BackAt, Acked

LEMMA BackSame ==
    ASSUME NEW i \in Process, NEW f \in Follower, BackAt(i, f), back'[i][f].to = back[i][f].to,
           back[i][f].to <= boots[0] => back[i][f].to <= boots'[0],
           log'[f] = log[f], rpc'[i][f] = rpc[i][f],
           Alive(f, append[i][f].to)' => Alive(f, append[i][f].to) \/ back[i][f].to = 0,
           Rising(back[i][f].q, Acked(i, f)) => Rising(back'[i][f].q, Acked(i, f))
    PROVE  BackAt(i, f)'
<1>1. Held(f, i)' = Held(f, i) /\ Acked(i, f)' = Acked(i, f)
  BY DEF Held, Acked
<1> QED
  BY <1>1 DEF BackAt

LEMMA BackStep ==
    ASSUME TypeInv, LeaderInv, FilesInv, AppendInv, BackInv, [Next]_vars
    PROVE  BackInv'
<1> SUFFICES ASSUME NEW i \in Process, NEW f \in Follower PROVE BackAt(i, f)'
  BY DEF BackInv
<1>0. BackAt(i, f) /\ AppendAt(i, f) /\ f \in Node /\ 0 \in Node /\ f /= 0
  BY Nodes DEF AppendInv, BackInv
<1>a. /\ Held(f, i) \in Nat /\ Acked(i, f) \in Nat /\ Acked(i, f) <= Held(f, i)
      /\ Rising(back[i][f].q, Acked(i, f)) /\ back[i][f].q \in Seq(Lsn)
  BY AckedType
<1>b. back[i][f].to \in Nat /\ boots[0] \in Nat /\ boots[0] /= 0
  BY <1>0, ConnectionTypes, NotAlive
<1>1. CASE UNCHANGED vars
  <2>1. append' = append /\ boots' = boots /\ log' = log /\ rpc' = rpc /\ back' = back /\ up' = up
    BY <1>1 DEF vars, fileVars
  <2> QED
    BY <1>0, <2>1, BackSame DEF Alive
<1>2. ASSUME NEW p \in Node, Boot(p) PROVE BackAt(i, f)'
  <2>1. log' = log /\ append' = append /\ rpc' = rpc /\ back' = back
    BY <1>2 DEF Boot, Log, TypeInv
  <2>2. boots'[0] \in Nat /\ boots'[0] >= boots[0]
    BY <1>0, <1>2, <1>b DEF Boot, TypeInv
  <2>3. back[i][f].to <= boots[0] => back[i][f].to <= boots'[0]
    BY <1>b, <2>2
  <2> QED
    BY <1>0, <1>2, <2>1, <2>3, BootAlive, BackSame
<1>3. ASSUME NEW p \in Node, End(p) PROVE BackAt(i, f)'
  <2>1. boots' = boots /\ log' = log /\ up' = up \ {p}
    BY <1>3 DEF End, fileVars
  <2>2. CASE p = 0
    <3>1. /\ append' = append /\ rpc' = rpc /\ back'[i][f].to = back[i][f].to
          /\ back'[i][f].q = IF back[i][f].to = boots[0] THEN <<>> ELSE back[i][f].q
      BY <1>3, <2>2, EndLeaderWires
    <3>2. Rising(back'[i][f].q, Acked(i, f))
      BY <1>a, <3>1, RisingEmpty
    <3> QED
      BY <1>0, <2>1, <3>1, <3>2, BackSame DEF Alive
  <2>3. CASE p /= 0
    <3>1. p \in Follower
      BY <2>3, Nodes
    <3>2. /\ append'[i][f].to = append[i][f].to /\ back' = back
          /\ rpc'[i][f] = IF f = p THEN "none" ELSE rpc[i][f]
      BY <1>3, <3>1, EndFollowerWires
    <3>3. CASE f = p
      <4>1. Held(f, i)' = Held(f, i) /\ Acked(i, f)' = Held(f, i) /\ rpc'[i][f] = "none"
        BY <2>1, <3>2, <3>3 DEF Held, Acked
      <4>2. ~ Alive(f, append[i][f].to)'
        BY <2>1, <3>3 DEF Alive
      <4>3. Rising(back[i][f].q, Acked(i, f)')
        BY <1>a, <4>1, RisingWeaken
      <4> QED
        BY <1>0, <2>1, <3>2, <4>1, <4>2, <4>3 DEF BackAt
    <3>4. CASE f /= p
      BY <1>0, <2>1, <3>2, <3>4, BackSame DEF Alive
    <3> QED
      BY <3>3, <3>4
  <2> QED
    BY <2>2, <2>3
<1>4. ASSUME requestVote PROVE BackAt(i, f)'
  BY <1>0, <1>4, BackSame DEF requestVote, fileVars, Alive
<1>5. ASSUME flush PROVE BackAt(i, f)'
  <2>1. log'[f] = log[f]
    BY <1>5, flushFiles
  <2> QED
    BY <1>0, <1>5, <2>1, BackSame DEF flush, Alive
<1>6. ASSUME sendRPC PROVE BackAt(i, f)'
  <2>1. boots' = boots /\ log' = log /\ rpc' = rpc /\ back' = back /\ up' = up
    BY <1>6, sendRPCWires DEF sendRPC, fileVars
  <2>2. Alive(f, append[i][f].to)' => Alive(f, append[i][f].to) \/ back[i][f].to = 0
    <3>1. append'[i][f].to = append[i][f].to \/ append[i][f].to = 0
      BY <1>6, sendRPCWires
    <3>2. append[i][f].to = 0 => back[i][f].to = 0
      BY <1>0 DEF AppendAt
    <3> QED
      BY <2>1, <3>1, <3>2 DEF Alive
  <2> QED
    BY <1>0, <2>1, <2>2, BackSame
<1>7. ASSUME NEW j \in Process, NEW g \in Follower, beginReceiver(j, g) PROVE BackAt(i, f)'
  <2>1. boots' = boots /\ log' = log /\ back' = back /\ up' = up /\ append' = append
    BY <1>7 DEF beginReceiver, startReceiver, fileVars
  <2>2. CASE i = j /\ f = g
    <3>1. rpc[i][f] = "none" /\ rpc'[i][f] = "connect" /\ Alive(f, append[i][f].to)
      BY <1>7, <2>2 DEF beginReceiver, startReceiver, TypeInv
    <3>2. Held(f, i)' = Held(f, i) /\ Acked(i, f)' = Acked(i, f)
      BY <2>1, <3>1 DEF Held, Acked
    <3> QED
      BY <1>0, <2>1, <3>1, <3>2 DEF BackAt
  <2>3. CASE i /= j \/ f /= g
    <3>1. rpc'[i][f] = rpc[i][f]
      BY <1>7, <2>3 DEF beginReceiver, startReceiver, TypeInv
    <3> QED
      BY <1>0, <2>1, <3>1, BackSame DEF Alive
  <2> QED
    BY <2>2, <2>3
<1>8. ASSUME NEW j \in Process, NEW g \in Follower, connectBack(j, g) PROVE BackAt(i, f)'
  <2>1. boots' = boots /\ log' = log /\ up' = up /\ append' = append
    BY <1>8 DEF connectBack, fileVars
  <2>2. CASE i = j /\ f = g
    <3>1. back'[i][f].to = boots[0] /\ back'[i][f].q = <<>> /\ rpc'[i][f] = "recv"
      BY <1>8, <2>2, connectBackWires
    <3>2. Rising(back'[i][f].q, Acked(i, f)')
      BY <3>1, RisingEmpty
    <3> QED
      BY <1>b, <2>1, <3>1, <3>2 DEF BackAt
  <2>3. CASE i /= j \/ f /= g
    BY <1>0, <1>8, <2>1, <2>3, connectBackWires, BackSame DEF Alive
  <2> QED
    BY <2>2, <2>3
<1>9. ASSUME NEW j \in Process, NEW g \in Follower, followerAddEntry(j, g) PROVE BackAt(i, f)'
  <2>1. /\ boots' = boots /\ up' = up /\ back' = back
        /\ \A p \in Node \ {g} : log'[p] = log[p]
        /\ Held(g, j)' = Held(g, j) + 1 /\ \A k \in Process \ {j} : Held(g, k)' = Held(g, k)
    BY <1>9, followerAddEntryFiles, followerAddEntryWires
  <2>2. CASE i = j /\ f = g
    <3>1. rpc[i][f] = "recv" /\ rpc'[i][f] = "ack"
      <4>1. followerAddEntry(i, f)
        BY <1>9, <2>2
      <4>2. rpc[i][f] = "recv"
        BY <4>1 DEF followerAddEntry
      <4> QED
        BY <4>1, <4>2, followerAddEntryWires
    <3>2. Acked(i, f)' = Acked(i, f) /\ Held(f, i)' > 0
      BY <1>a, <2>1, <2>2, <3>1 DEF Acked
    <3> QED
      BY <1>0, <2>1, <3>1, <3>2 DEF BackAt
  <2>3. CASE i /= j \/ f /= g
    <3>1. append'[i][f] = append[i][f] /\ rpc'[i][f] = rpc[i][f]
      BY <1>9, <2>3, followerAddEntryWires
    <3>2. Held(f, i)' = Held(f, i)
      BY <1>0, <2>1, <2>3 DEF Held
    <3>3. Acked(i, f)' = Acked(i, f) /\ (Alive(f, append[i][f].to)' <=> Alive(f, append[i][f].to))
      BY <2>1, <3>1, <3>2 DEF Acked, Alive
    <3> QED
      BY <1>0, <2>1, <3>1, <3>2, <3>3 DEF BackAt
  <2> QED
    BY <2>2, <2>3
<1>10. ASSUME NEW j \in Process, NEW g \in Follower, sendAck(j, g) PROVE BackAt(i, f)'
  <2>1. boots' = boots /\ log' = log /\ up' = up /\ append' = append
    BY <1>10 DEF sendAck, fileVars
  <2>2. CASE i = j /\ f = g
    <3>1. /\ rpc[i][f] = "ack" /\ rpc'[i][f] = "recv" /\ back'[i][f].to = back[i][f].to
          /\ back'[i][f].q = IF Alive(0, back[i][f].to) THEN Append(back[i][f].q, Acked(i, f))
                             ELSE back[i][f].q
      <4>1. sendAck(i, f)
        BY <1>10, <2>2
      <4>2. rpc[i][f] = "ack"
        BY <4>1 DEF sendAck
      <4> QED
        BY <4>1, <4>2, sendAckWires
    <3>2. Held(f, i)' = Held(f, i) /\ Acked(i, f) = Held(f, i) - 1 /\ Acked(i, f)' = Held(f, i)
      BY <2>1, <3>1 DEF Held, Acked
    <3>3. Acked(i, f) \in Lsn /\ Acked(i, f) + 1 = Held(f, i)
      BY <1>a, <3>1, <3>2, LastOfIs
    <3>4. Rising(Append(back[i][f].q, Acked(i, f)), Acked(i, f) + 1)
      BY <1>a, <3>3, RisingAppend
    <3>5. Rising(back[i][f].q, Held(f, i))
      BY <1>a, RisingWeaken
    <3>6. Rising(back'[i][f].q, Acked(i, f)')
      BY <3>1, <3>2, <3>3, <3>4, <3>5
    <3> QED
      BY <1>0, <2>1, <3>1, <3>2, <3>6 DEF BackAt
  <2>3. CASE i /= j \/ f /= g
    BY <1>0, <1>10, <2>1, <2>3, sendAckWires, BackSame DEF Alive
  <2> QED
    BY <2>2, <2>3
<1>11. ASSUME NEW j \in Process, NEW g \in Follower, addVoteCount(j, g) PROVE BackAt(i, f)'
  <2>1. boots' = boots /\ log' = log /\ up' = up /\ append' = append /\ rpc' = rpc
    BY <1>11, addVoteCountWires DEF addVoteCount, fileVars
  <2>2. back'[i][f].to = back[i][f].to /\ Rising(back'[i][f].q, Acked(i, f))
    <3>1. CASE i = j /\ f = g
      BY <1>11, <1>a, <3>1, addVoteCountWires, RisingTail
    <3>2. CASE i /= j \/ f /= g
      BY <1>11, <1>a, <3>2, addVoteCountWires
    <3> QED
      BY <3>1, <3>2
  <2> QED
    BY <1>0, <2>1, <2>2, BackSame DEF Alive
<1> QED
  BY <1>1, <1>2, <1>3, <1>4, <1>5, <1>6, <1>7, <1>8, <1>9, <1>10, <1>11, Cases

-----------------------------------------------------------------------------
(* Votes *)

LEMMA VotersBound ==
    ASSUME NEW V \in SUBSET (Process \X Follower)
    PROVE  IsFiniteSet(V) /\ Cardinality(V) \in Nat /\ Cardinality(V) <= MaxBoot[0] * NF
<1>1. MaxBoot[0] \in Nat \ {0} /\ NF \in Nat \ {0}
  BY RecoveryAssumption
<1>2. IsFiniteSet(Process) /\ Cardinality(Process) = MaxBoot[0]
  BY <1>1, FS_Interval DEF Process
<1>3. IsFiniteSet(Follower) /\ Cardinality(Follower) = NF
  BY <1>1, FS_Interval DEF Follower
<1>4. /\ IsFiniteSet(Process \X Follower)
      /\ Cardinality(Process \X Follower) = MaxBoot[0] * NF
  BY <1>2, <1>3, FS_Product
<1> QED
  BY <1>4, FS_Subset, FS_CardinalityType

\* What was counted on a connection of the running leader stays so.
LEMMA VotedStays ==
    ASSUME TypeInv, FilesInv, AppendInv, BackInv, [Next]_vars, 0 \in up, 0 \in up',
           NEW i \in Process, NEW f \in Follower, NEW n \in Lsn, Voted(i, f, n)
    PROVE  Voted(i, f, n)' /\ boots'[0] = boots[0]
<1>0. f \in Node /\ 0 \in Node /\ f /= 0 /\ BackAt(i, f) /\ n \in Nat
  BY Nodes, LsnType DEF BackInv
<1>a. /\ Held(f, i) \in Nat /\ Acked(i, f) \in Nat /\ Acked(i, f) <= Held(f, i)
      /\ Rising(back[i][f].q, Acked(i, f)) /\ back[i][f].q \in Seq(Lsn)
  BY AckedType
<1>b. ASSUME boots'[0] = boots[0], back'[i][f] = back[i][f], log'[f] = log[f], rpc'[i][f] = rpc[i][f]
      PROVE  Voted(i, f, n)'
  BY <1>b DEF Voted, Acked, Held
<1>1. CASE UNCHANGED vars
  BY <1>1, <1>b DEF vars, fileVars
<1>2. ASSUME NEW p \in Node, Boot(p) PROVE Voted(i, f, n)' /\ boots'[0] = boots[0]
  <2>1. p /= 0
    BY <1>2 DEF Boot
  <2>2. boots'[0] = boots[0] /\ log' = log /\ rpc' = rpc /\ back' = back
    BY <1>0, <1>2, <2>1 DEF Boot, Log, TypeInv
  <2> QED
    BY <1>b, <2>2
<1>3. ASSUME NEW p \in Node, End(p) PROVE Voted(i, f, n)' /\ boots'[0] = boots[0]
  <2>1. p \in Follower /\ boots' = boots /\ log' = log
    BY <1>3, Nodes DEF End, fileVars
  <2>2. back' = back /\ rpc'[i][f] = IF f = p THEN "none" ELSE rpc[i][f]
    BY <1>3, <2>1, EndFollowerWires
  <2>3. CASE f = p
    <3>1. Acked(i, f)' = Held(f, i)
      BY <2>1, <2>2, <2>3 DEF Acked, Held
    <3> QED
      BY <1>0, <1>a, <2>1, <2>2, <3>1 DEF Voted
  <2>4. CASE f /= p
    BY <1>b, <2>1, <2>2, <2>4
  <2> QED
    BY <2>3, <2>4
<1>4. ASSUME requestVote \/ sendRPC PROVE Voted(i, f, n)' /\ boots'[0] = boots[0]
  BY <1>4, <1>b DEF requestVote, sendRPC, fileVars
<1>5. ASSUME flush PROVE Voted(i, f, n)' /\ boots'[0] = boots[0]
  <2>1. log'[f] = log[f] /\ boots' = boots
    BY <1>5, flushFiles
  <2> QED
    BY <1>5, <1>b, <2>1 DEF flush
<1>6. ASSUME NEW j \in Process, NEW g \in Follower, beginReceiver(j, g)
      PROVE  Voted(i, f, n)' /\ boots'[0] = boots[0]
  <2>1. boots' = boots /\ log' = log /\ back' = back
    BY <1>6 DEF beginReceiver, startReceiver, fileVars
  <2>2. rpc'[i][f] = rpc[i][f] \/ (rpc[i][f] = "none" /\ rpc'[i][f] = "connect")
    <3>1. rpc' = [rpc EXCEPT ![j][g] = "connect"] /\ rpc[j][g] = "none"
      BY <1>6 DEF beginReceiver, startReceiver
    <3>2. CASE i = j /\ f = g
      BY <3>1, <3>2 DEF TypeInv
    <3>3. CASE i /= j \/ f /= g
      BY <3>1, <3>3 DEF TypeInv
    <3> QED
      BY <3>2, <3>3
  <2>3. Acked(i, f)' = Acked(i, f)
    BY <2>1, <2>2 DEF Acked, Held
  <2> QED
    BY <2>1, <2>3 DEF Voted
<1>7. ASSUME NEW j \in Process, NEW g \in Follower, connectBack(j, g)
      PROVE  Voted(i, f, n)' /\ boots'[0] = boots[0]
  <2>1. boots' = boots /\ log' = log
    BY <1>7 DEF connectBack, fileVars
  <2>2. back[i][f].to /= 0
    BY <1>0, NotAlive DEF Voted
  <2>3. i /= j \/ f /= g
    BY <1>0, <1>7, <2>2 DEF connectBack, BackAt
  <2> QED
    BY <1>7, <1>b, <2>1, <2>3, connectBackWires
<1>8. ASSUME NEW j \in Process, NEW g \in Follower, followerAddEntry(j, g)
      PROVE  Voted(i, f, n)' /\ boots'[0] = boots[0]
  <2>1. /\ boots' = boots /\ back' = back
        /\ \A p \in Node \ {g} : log'[p] = log[p]
        /\ Held(g, j)' = Held(g, j) + 1 /\ \A k \in Process \ {j} : Held(g, k)' = Held(g, k)
    BY <1>8, followerAddEntryFiles, followerAddEntryWires
  <2>2. CASE i = j /\ f = g
    <3>1. rpc[i][f] = "recv" /\ rpc'[i][f] = "ack"
      <4>1. followerAddEntry(i, f)
        BY <1>8, <2>2
      <4>2. rpc[i][f] = "recv"
        BY <4>1 DEF followerAddEntry
      <4> QED
        BY <4>1, <4>2, followerAddEntryWires
    <3>2. Acked(i, f)' = Acked(i, f)
      BY <1>a, <2>1, <2>2, <3>1 DEF Acked
    <3> QED
      BY <2>1, <3>2 DEF Voted
  <2>3. CASE i /= j \/ f /= g
    <3>1. rpc'[i][f] = rpc[i][f]
      BY <1>8, <2>3, followerAddEntryWires
    <3>2. Held(f, i)' = Held(f, i)
      BY <1>0, <2>1, <2>3 DEF Held
    <3>3. Acked(i, f)' = Acked(i, f)
      BY <3>1, <3>2 DEF Acked
    <3> QED
      BY <2>1, <3>3 DEF Voted
  <2> QED
    BY <2>2, <2>3, <2>1
<1>9. ASSUME NEW j \in Process, NEW g \in Follower, sendAck(j, g)
      PROVE  Voted(i, f, n)' /\ boots'[0] = boots[0]
  <2>1. boots' = boots /\ log' = log
    BY <1>9 DEF sendAck, fileVars
  <2>2. CASE i = j /\ f = g
    <3>0. sendAck(i, f) /\ rpc[i][f] = "ack"
      BY <1>9, <2>2 DEF sendAck
    <3>1. Alive(0, back[i][f].to)
      BY DEF Voted, Alive
    <3>2. /\ rpc'[i][f] = "recv" /\ back'[i][f].to = back[i][f].to
          /\ back'[i][f].q = Append(back[i][f].q, Acked(i, f))
      BY <3>0, <3>1, sendAckWires
    <3>3. Acked(i, f)' = Held(f, i)
      BY <2>1, <3>2 DEF Acked, Held
    <3>4. \A k \in DOMAIN back'[i][f].q : back'[i][f].q[k] /= n
      <4>1. n /= Acked(i, f)
        BY <1>0, <1>a DEF Voted
      <4>2. \A k \in DOMAIN back[i][f].q : back[i][f].q[k] /= n
        BY DEF Voted
      <4> DEFINE q == back[i][f].q
                 v == Acked(i, f)
      <4> HIDE DEF q, v
      <4>3. q \in Seq(Lsn)
        BY <1>a DEF q
      <4>4. \A k \in DOMAIN Append(q, v) : Append(q, v)[k] = v \/ (k \in DOMAIN q /\ Append(q, v)[k] = q[k])
        BY <4>3
      <4> QED
        BY <3>2, <4>1, <4>2, <4>4 DEF q, v
    <3> QED
      BY <1>0, <1>a, <2>1, <3>2, <3>3, <3>4 DEF Voted
  <2>3. CASE i /= j \/ f /= g
    BY <1>9, <1>b, <2>1, <2>3, sendAckWires
  <2> QED
    BY <2>1, <2>2, <2>3
<1>10. ASSUME NEW j \in Process, NEW g \in Follower, addVoteCount(j, g)
       PROVE  Voted(i, f, n)' /\ boots'[0] = boots[0]
  <2>1. boots' = boots /\ log' = log /\ rpc' = rpc
    BY <1>10, addVoteCountWires DEF addVoteCount, fileVars
  <2>2. CASE i = j /\ f = g
    <3>1. /\ back'[i][f].to = back[i][f].to /\ back'[i][f].q = Tail(back[i][f].q)
          /\ back[i][f].q /= <<>>
      BY <1>10, <2>2, addVoteCountWires
    <3>2. \A k \in DOMAIN back'[i][f].q : back'[i][f].q[k] /= n
      BY <1>a, <3>1, RisingTail DEF Voted
    <3>3. Acked(i, f)' = Acked(i, f)
      BY <2>1 DEF Acked, Held
    <3> QED
      BY <2>1, <3>1, <3>2, <3>3 DEF Voted
  <2>3. CASE i /= j \/ f /= g
    BY <1>10, <1>b, <2>1, <2>3, addVoteCountWires
  <2> QED
    BY <2>1, <2>2, <2>3
<1> QED
  BY <1>1, <1>2, <1>3, <1>4, <1>5, <1>6, <1>7, <1>8, <1>9, <1>10, Cases DEF vars, fileVars

\* The vote that is counted is a new one.
LEMMA VotedNow ==
    ASSUME TypeInv, FilesInv, BackInv, NEW i \in Process, NEW f \in Follower, addVoteCount(i, f),
           NEW n, n = Head(back[i][f].q)
    PROVE  n \in Lsn /\ ~ Voted(i, f, n) /\ Voted(i, f, n)'
<1> DEFINE q == back[i][f].q
<1>1. q \in Seq(Lsn) /\ q /= <<>> /\ n \in Lsn /\ back'[i][f].q = Tail(q)
      /\ back'[i][f].to = back[i][f].to /\ rpc' = rpc
  BY addVoteCountWires
<1>2. Rising(q, Acked(i, f)) /\ Acked(i, f) \in Nat
  BY AckedType
<1>3. /\ n < Acked(i, f) /\ \A k \in DOMAIN Tail(q) : Tail(q)[k] /= n
      /\ ~ \A k \in DOMAIN q : q[k] /= n
  BY <1>1, <1>2, RisingTail
<1>4. boots' = boots /\ log' = log /\ back[i][f].to = boots[0]
  BY DEF addVoteCount, fileVars, Alive
<1>5. Acked(i, f)' = Acked(i, f)
  BY <1>1, <1>4 DEF Acked, Held
<1>6. /\ ~ \A k \in DOMAIN back[i][f].q : back[i][f].q[k] /= n
      /\ \A k \in DOMAIN back'[i][f].q : back'[i][f].q[k] /= n
  BY <1>1, <1>3
<1>7. ~ Voted(i, f, n)
  BY <1>6 DEF Voted
<1>8. Voted(i, f, n)'
  BY <1>1, <1>3, <1>4, <1>5, <1>6 DEF Voted
<1> QED
  BY <1>1, <1>7, <1>8

LEMMA VotesStep ==
    ASSUME TypeInv, LeaderInv, FilesInv, AppendInv, BackInv, VotesInv, [Next]_vars
    PROVE  VotesInv'
<1> SUFFICES ASSUME 0 \in up', NEW n \in Lsn PROVE votes'[n] <= Cardinality(Voters(n)')
  BY DEF VotesInv
<1>0. Voters(n) \in SUBSET (Process \X Follower) /\ Voters(n)' \in SUBSET (Process \X Follower)
  BY DEF Voters
<1>1. /\ IsFiniteSet(Voters(n)) /\ Cardinality(Voters(n)) \in Nat
      /\ IsFiniteSet(Voters(n)') /\ Cardinality(Voters(n)') \in Nat
  BY <1>0, VotersBound
<1>2. votes[n] \in Nat
  BY DEF TypeInv
<1>3. CASE 0 \notin up
  <2>1. ASSUME NEW i \in Process, NEW f \in Follower, addVoteCount(i, f) PROVE FALSE
    BY <1>3, <2>1 DEF addVoteCount, Alive
  <2>2. ASSUME NEW p \in Node, End(p) PROVE FALSE
    BY <1>3, <2>2 DEF End
  <2>3. ASSUME NEW i \in Process, NEW f \in Follower,
               beginReceiver(i, f) \/ connectBack(i, f) \/ followerAddEntry(i, f) \/ sendAck(i, f)
        PROVE  votes' = votes
    BY <2>3 DEF beginReceiver, startReceiver, connectBack, followerAddEntry, sendAck, leaderVars
  <2>4. ASSUME NEW p \in Node, Boot(p) PROVE votes' = votes
    BY <2>4 DEF Boot, leaderVars
  <2>5. votes' = votes
    BY <1>3, <2>1, <2>2, <2>3, <2>4, Cases DEF requestVote, flush, sendRPC, vars, leaderVars
  <2>6. votes[n] = 0
    BY <1>3 DEF LeaderInv
  <2> QED
    BY <1>1, <2>5, <2>6
<1>4. CASE 0 \in up
  <2>1. Voters(n) \subseteq Voters(n)'
    BY <1>4, VotedStays DEF Voters
  <2>2. Cardinality(Voters(n)) <= Cardinality(Voters(n)')
    BY <1>1, <2>1, FS_Subset
  <2>3. votes[n] <= Cardinality(Voters(n))
    BY <1>4 DEF VotesInv
  <2>4. ASSUME votes'[n] = votes[n] PROVE votes'[n] <= Cardinality(Voters(n)')
    BY <1>1, <1>2, <2>2, <2>3, <2>4
  <2>5. ASSUME NEW p \in Node, Boot(p) \/ End(p) PROVE votes' = votes
    BY <2>5, <1>4 DEF Boot, End, leaderVars
  <2>6. ASSUME NEW i \in Process, NEW f \in Follower,
               beginReceiver(i, f) \/ connectBack(i, f) \/ followerAddEntry(i, f) \/ sendAck(i, f)
        PROVE  votes' = votes
    BY <2>6 DEF beginReceiver, startReceiver, connectBack, followerAddEntry, sendAck, leaderVars
  <2>7. ASSUME NEW i \in Process, NEW f \in Follower, addVoteCount(i, f)
        PROVE  votes'[n] <= Cardinality(Voters(n)')
    <3> DEFINE c == <<i, f>>
    <3>0. PICK h : h = Head(back[i][f].q)
      OBVIOUS
    <3>1. h \in Lsn /\ ~ Voted(i, f, h) /\ Voted(i, f, h)'
      BY <2>7, <3>0, VotedNow
    <3>2. votes' = [votes EXCEPT ![h] = @ + 1]
      BY <2>7, <3>0 DEF addVoteCount
    <3>3. CASE n = h
      <4>1. c \in Process \X Follower /\ c[1] = i /\ c[2] = f
        OBVIOUS
      <4>2. c \notin Voters(n) /\ c \in Voters(n)'
        <5>1. ~ Voted(c[1], c[2], n) /\ Voted(c[1], c[2], n)'
          BY <3>1, <3>3, <4>1
        <5> HIDE DEF c
        <5> QED
          BY <4>1, <5>1 DEF Voters
      <4>3. Voters(n) \cup {c} \subseteq Voters(n)'
        BY <2>1, <4>2
      <4>4. /\ IsFiniteSet(Voters(n) \cup {c})
            /\ Cardinality(Voters(n) \cup {c}) = Cardinality(Voters(n)) + 1
        BY <1>1, <4>2, FS_AddElement
      <4>5. Cardinality(Voters(n)) + 1 <= Cardinality(Voters(n)')
        BY <1>1, <4>3, <4>4, FS_Subset
      <4>6. votes'[n] = votes[n] + 1
        BY <3>1, <3>2, <3>3 DEF TypeInv
      <4> QED
        BY <1>1, <1>2, <2>3, <4>5, <4>6
    <3>4. CASE n /= h
      BY <2>4, <3>2, <3>4 DEF TypeInv
    <3> QED
      BY <3>3, <3>4
  <2> QED
    BY <2>4, <2>5, <2>6, <2>7, Cases DEF requestVote, flush, sendRPC, vars, leaderVars
<1> QED
  BY <1>3, <1>4

-----------------------------------------------------------------------------
(* Answers *)

LEMMA FilesGrow ==
    ASSUME TypeInv, FilesInv, AppendInv, [Next]_vars, NEW p \in Node, NEW e, Has(log[p], e)
    PROVE  Has(log'[p], e)
<1>1. CASE UNCHANGED vars
  BY <1>1 DEF vars, fileVars
<1>2. ASSUME NEW n \in Node, Boot(n) \/ End(n) PROVE log' = log
  BY <1>2 DEF Boot, Log, End, fileVars, TypeInv
<1>3. ASSUME flush PROVE Has(log'[p], e)
  BY <1>3, flushFiles, Nodes
<1>4. ASSUME requestVote \/ sendRPC PROVE log' = log
  BY <1>4 DEF requestVote, sendRPC, fileVars
<1>5. ASSUME NEW i \in Process, NEW f \in Follower, followerAddEntry(i, f) PROVE Has(log'[p], e)
  BY <1>5, followerAddEntryFiles
<1>6. ASSUME NEW i \in Process, NEW f \in Follower,
             beginReceiver(i, f) \/ connectBack(i, f) \/ sendAck(i, f) \/ addVoteCount(i, f)
      PROVE  log' = log
  BY <1>6 DEF beginReceiver, startReceiver, connectBack, sendAck, addVoteCount, fileVars
<1> QED
  BY <1>1, <1>2, <1>3, <1>4, <1>5, <1>6, Cases

LEMMA ConfusedStays ==
    ASSUME TypeInv, LeaderInv, FilesInv, BackInv, [Next]_vars, NEW b \in Process, Confused(b)
    PROVE  Confused(b)'
<1>1. PICK j \in Process \ {b}, g \in Follower : back[j][g].to = b
  BY DEF Confused
<1>2. b /= 0 /\ BackAt(j, g)
  BY LsnType DEF BackInv
<1>3. ASSUME NEW p \in Node, Boot(p) PROVE back' = back
  BY <1>3 DEF Boot
<1>4. ASSUME NEW p \in Node, End(p) PROVE back'[j][g].to = back[j][g].to
  BY <1>4, Nodes, EndLeaderWires, EndFollowerWires
<1>5. ASSUME requestVote \/ flush \/ sendRPC PROVE back' = back
  BY <1>5 DEF requestVote, flush, sendRPC
<1>6. ASSUME NEW i \in Process, NEW f \in Follower, beginReceiver(i, f) \/ followerAddEntry(i, f)
      PROVE  back' = back
  BY <1>6 DEF beginReceiver, startReceiver, followerAddEntry
<1>7. ASSUME NEW i \in Process, NEW f \in Follower, connectBack(i, f)
      PROVE  back'[j][g].to = back[j][g].to
  <2>1. i /= j \/ f /= g
    BY <1>1, <1>2, <1>7 DEF connectBack, BackAt
  <2> QED
    BY <1>7, <2>1, connectBackWires
<1>8. ASSUME NEW i \in Process, NEW f \in Follower, sendAck(i, f)
      PROVE  back'[j][g].to = back[j][g].to
  BY <1>8, sendAckWires
<1>9. ASSUME NEW i \in Process, NEW f \in Follower, addVoteCount(i, f)
      PROVE  back'[j][g].to = back[j][g].to
  BY <1>9, addVoteCountWires
<1>10. back'[j][g].to = b
  BY <1>1, <1>3, <1>4, <1>5, <1>6, <1>7, <1>8, <1>9, Cases DEF vars
<1> QED
  BY <1>10 DEF Confused

LEMMA HoldersFinite ==
    ASSUME NEW e
    PROVE  /\ IsFiniteSet(Holders(e)) /\ Cardinality(Holders(e)) \in Nat
           /\ IsFiniteSet(Holders(e) \ {0}) /\ Cardinality(Holders(e) \ {0}) \in Nat
           /\ 0 \in Holders(e) => Cardinality(Holders(e)) = Cardinality(Holders(e) \ {0}) + 1
<1>1. IsFiniteSet(Node)
  BY RecoveryAssumption, FS_Interval DEF Node
<1>2. Holders(e) \subseteq Node
  BY DEF Holders
<1>3. IsFiniteSet(Holders(e))
  BY <1>1, <1>2, FS_Subset
<1> QED
  <2>1. IsFiniteSet(Holders(e) \ {0})
    BY <1>3, FS_RemoveElement
  <2>2. Cardinality(Holders(e)) \in Nat /\ Cardinality(Holders(e) \ {0}) \in Nat
    BY <1>3, <2>1, FS_CardinalityType
  <2>3. ASSUME 0 \in Holders(e)
        PROVE  Cardinality(Holders(e)) = Cardinality(Holders(e) \ {0}) + 1
    <3>1. Cardinality(Holders(e) \ {0}) = Cardinality(Holders(e)) - 1
      BY <1>3, <2>3, FS_RemoveElement
    <3> QED
      BY <2>2, <3>1
  <2> QED
    BY <1>3, <2>1, <2>2, <2>3

\* What a leader process that is not confused counted is in the file of the
\* follower.
LEMMA VotersHold ==
    TypeInv /\ FilesInv /\ BackInv /\ ~ Confused(boots[0]) =>
        \A n \in Lsn : \A e :
            e = [by |-> boots[0], lsn |-> n] =>
                Cardinality(Voters(n)) <= Cardinality(Holders(e) \ {0})
<1> SUFFICES ASSUME TypeInv, FilesInv, BackInv, ~ Confused(boots[0]), NEW n \in Lsn,
                    NEW e, e = [by |-> boots[0], lsn |-> n]
             PROVE  Cardinality(Voters(n)) <= Cardinality(Holders(e) \ {0})
  OBVIOUS
<1> DEFINE H == Holders(e) \ {0}
<1>1. ASSUME NEW c \in Voters(n) PROVE c \in {boots[0]} \X H
  <2>1. PICK i \in Process, f \in Follower : c = <<i, f>> /\ Voted(i, f, n)
    BY DEF Voters
  <2>2. i = boots[0]
    BY <2>1 DEF Voted, Confused
  <2>3. Held(f, i) \in Nat /\ Acked(i, f) \in Nat /\ Acked(i, f) <= Held(f, i) /\ n < Acked(i, f)
        /\ n \in Nat
    BY <2>1, AckedType, LsnType DEF Voted
  <2>4. f \in Node \ {0} /\ Numbered(log[f])
    BY Nodes DEF FilesInv
  <2>5. Has(log[f], [by |-> i, lsn |-> n])
    <3>1. n < Held(f, i)
      BY <2>3
    <3> QED
      BY <2>3, <2>4, <3>1 DEF Numbered, Held
  <2> QED
    BY <2>1, <2>2, <2>4, <2>5 DEF Holders
<1>2. IsFiniteSet(H) /\ Cardinality(H) \in Nat
  BY HoldersFinite
<1>3. /\ IsFiniteSet({boots[0]} \X H)
      /\ Cardinality({boots[0]} \X H) = 1 * Cardinality(H)
  <2> HIDE DEF H
  <2>1. IsFiniteSet({boots[0]}) /\ Cardinality({boots[0]}) = 1
    BY FS_Singleton
  <2> QED
    BY <1>2, <2>1, FS_Product
<1>4. Cardinality(Voters(n)) <= Cardinality({boots[0]} \X H)
  BY <1>1, <1>3, FS_Subset
<1> HIDE DEF H
<1>5. Cardinality(Voters(n)) <= Cardinality(H)
  BY <1>2, <1>3, <1>4
<1> QED
  BY <1>5 DEF H

LEMMA VotersHoldNext ==
    (TypeInv /\ FilesInv /\ BackInv /\ ~ Confused(boots[0]) =>
        \A n \in Lsn : \A e :
            e = [by |-> boots[0], lsn |-> n] =>
                Cardinality(Voters(n)) <= Cardinality(Holders(e) \ {0}))'
BY VotersHold, PTL

LEMMA AnsweredStep ==
    ASSUME IInv, [Next]_vars, TypeInv', FilesInv', BackInv', VotesInv'
    PROVE  AnsweredSurvives'
<1> USE DEF IInv
<1> SUFFICES ASSUME NEW e \in answered', ~ Confused(e.by)'
             PROVE  2 * Cardinality(Holders(e)') > NF + 1
  BY DEF AnsweredSurvives
<1>0. e \in Entry /\ e.by \in Process
  BY EntryType DEF TypeInv
<1>1. Holders(e) \subseteq Holders(e)'
  BY FilesGrow DEF Holders
<1>2. /\ IsFiniteSet(Holders(e)) /\ Cardinality(Holders(e)) \in Nat
      /\ IsFiniteSet(Holders(e)') /\ Cardinality(Holders(e)') \in Nat
  <2>1. Holders(e) \subseteq Node /\ Holders(e)' \subseteq Node
    BY DEF Holders
  <2>2. IsFiniteSet(Node)
    BY RecoveryAssumption, FS_Interval DEF Node
  <2> QED
    BY <2>1, <2>2, FS_Subset, FS_CardinalityType
<1>3. Cardinality(Holders(e)) <= Cardinality(Holders(e)')
  BY <1>1, <1>2, FS_Subset
<1>4. CASE e \in answered
  <2>1. ~ Confused(e.by)
    BY <1>0, ConfusedStays
  <2>2. 2 * Cardinality(Holders(e)) > NF + 1
    BY <1>4, <2>1 DEF AnsweredSurvives
  <2> QED
    BY <1>2, <1>3, <2>2, RecoveryAssumption
<1>5. CASE e \notin answered
  <2>1. PICK i \in Process, f \in Follower : addVoteCount(i, f)
    <3>1. ASSUME NEW p \in Node, Boot(p) \/ End(p) PROVE answered' = answered
      BY <3>1 DEF Boot, End
    <3>2. ASSUME NEW i \in Process, NEW f \in Follower,
                 beginReceiver(i, f) \/ connectBack(i, f) \/ followerAddEntry(i, f) \/ sendAck(i, f)
          PROVE  answered' = answered
      BY <3>2 DEF beginReceiver, startReceiver, connectBack, followerAddEntry, sendAck
    <3>3. ASSUME requestVote \/ flush \/ sendRPC PROVE answered' = answered
      BY <3>3 DEF requestVote, flush, sendRPC
    <3> QED
      BY <1>5, <3>1, <3>2, <3>3, Cases DEF vars
  <2>2. PICK n : n = Head(back[i][f].q)
    OBVIOUS
  <2>3. n \in Lsn /\ n \in Nat
    BY <2>1, <2>2, addVoteCountWires, LsnType
  <2>4. e = [by |-> boots[0], lsn |-> n] /\ Majority(votes'[n]) /\ Stored(n)
    BY <1>5, <2>1, <2>2 DEF addVoteCount
  <2>5. boots' = boots /\ log' = log /\ up' = up /\ lsn' = lsn /\ 0 \in up
    BY <2>1 DEF addVoteCount, fileVars, Alive
  <2>6. votes'[n] \in Nat /\ votes'[n] <= Cardinality(Holders(e)' \ {0})
    <3>1. votes'[n] <= Cardinality(Voters(n)') /\ votes'[n] \in Nat
      BY <2>3, <2>5 DEF VotesInv, TypeInv
    <3>2. boots'[0] = e.by
      BY <2>4, <2>5
    <3>6. ~ Confused(boots[0])'
      BY <3>2 DEF Confused
    <3>7. e = [by |-> boots'[0], lsn |-> n]
      BY <2>4, <2>5
    <3>3. Cardinality(Voters(n)') <= Cardinality(Holders(e)' \ {0})
      BY <2>3, <3>6, <3>7, VotersHoldNext
    <3>4. Voters(n)' \in SUBSET (Process \X Follower)
      BY DEF Voters
    <3>5. Cardinality(Voters(n)') \in Nat /\ Cardinality(Holders(e)' \ {0}) \in Nat
      BY <1>2, <3>4, VotersBound, FS_RemoveElement, FS_CardinalityType
    <3> QED
      BY <3>1, <3>3, <3>5
  <2>7. Holders(e)' = Holders(e) /\ 0 \in Holders(e)
    <3>1. Holders(e)' = Holders(e)
      BY <2>5 DEF Holders
    <3>2. n < lsn
      BY <2>3, <2>4, LeaderProcess DEF Stored, TypeInv
    <3>3. boots[0] \in Process /\ Held(0, boots[0]) = lsn /\ Numbered(log[0]) /\ 0 \in Node
      BY <2>5, LeaderProcess, Nodes DEF FilesInv
    <3> QED
      BY <2>3, <2>4, <3>1, <3>2, <3>3 DEF Numbered, Held, Holders
  <2>8. /\ Cardinality(Holders(e)) = Cardinality(Holders(e) \ {0}) + 1
        /\ Cardinality(Holders(e) \ {0}) \in Nat
    BY <2>7, HoldersFinite
  <2>9. votes'[n] > (NF + 1) \div 2
    BY <2>4 DEF Majority
  <2> DEFINE v == votes'[n]
             h == Cardinality(Holders(e) \ {0})
  <2>10. v \in Nat /\ h \in Nat /\ v <= h /\ v > (NF + 1) \div 2 /\ NF \in Nat
    BY <2>6, <2>7, <2>8, <2>9, RecoveryAssumption
  <2> HIDE DEF v, h
  <2>11. 2 * (h + 1) > NF + 1
    BY <2>10
  <2> QED
    BY <2>7, <2>8, <2>11 DEF h
<1> QED
  BY <1>4, <1>5

-----------------------------------------------------------------------------
(* The theorems *)

LEMMA InitInv == Init => IInv
<1> SUFFICES ASSUME Init PROVE IInv
  OBVIOUS
<1> USE DEF Init
<1>0. NF \in Nat \ {0} /\ MaxBoot[0] \in Nat \ {0} /\ 1 \in Process /\ 0 \in Node /\ boots[0] = 1
  BY RecoveryAssumption, Nodes DEF Process
<1>1. \A p \in Node, i \in Process : Held(p, i) = 0
  BY EmptyFile DEF Held
<1>2. TypeInv
  <2>1. MaxLsn[1] \in Nat /\ MaxCrash \in Nat /\ \A p \in Node : MaxBoot[p] \in Nat \ {0}
    BY <1>0, RecoveryAssumption DEF Node
  <2>2. <<>> \in Seq(Entry) /\ <<>> \in Seq(Lsn)
    OBVIOUS
  <2>3. PerConnection([to |-> 0, q |-> <<>>]) \in [Process -> [Follower -> [to : Nat, q : Seq(Lsn)]]]
    BY <2>2 DEF PerConnection
  <2>4. PerConnection([to |-> 0, q |-> <<>>])
            \in [Process -> [Follower -> [to : Process \cup {0}, q : Seq(Lsn)]]]
    BY <2>2 DEF PerConnection
  <2>5. PerConnection("none") \in [Process -> [Follower -> {"none", "connect", "recv", "ack"}]]
    BY DEF PerConnection
  <2>6. log \in [Node -> Seq(Entry)]
    BY <2>2
  <2>7. crashes \in 0 .. MaxCrash /\ lsn \in 0 .. MaxLsn[boots[0]] /\ peer \in 1 .. NF + 1 /\ dest \in 1 .. NF + 1
        /\ boots \in [Node -> Nat] /\ (\A p \in Node : boots[p] \in 1 .. MaxBoot[p])
        /\ votes \in [Lsn -> Nat]
    BY <1>0, <2>1
  <2> QED
    BY <2>3, <2>4, <2>5, <2>6, <2>7 DEF TypeInv
<1>3. LeaderInv
  BY <1>0 DEF LeaderInv, Follower
<1>4. FilesInv
  BY <1>0, <1>1, EmptyFile, Nodes DEF FilesInv
<1>5. ASSUME NEW i \in Process, NEW f \in Follower PROVE AppendAt(i, f) /\ BackAt(i, f)
  <2>1. f \in Node /\ boots[f] = 1 /\ f \in Nat /\ f <= NF
    BY <1>0, Nodes DEF Follower
  <2>2. /\ append[i][f].to = 0 /\ back[i][f].to = 0 /\ back[i][f].q = <<>> /\ rpc[i][f] = "none"
    BY DEF PerConnection
  <2>3. Held(f, i) = 0 /\ ~ Alive(f, 0) /\ Sent(f) = 0
    BY <1>0, <1>1, <2>1 DEF Alive, Sent
  <2>4. Rising(back[i][f].q, Acked(i, f))
    BY <2>2, RisingEmpty
  <2> QED
    BY <1>0, <2>1, <2>2, <2>3, <2>4 DEF AppendAt, BackAt
<1>6. VotesInv
  <2> SUFFICES ASSUME NEW n \in Lsn PROVE votes[n] <= Cardinality(Voters(n))
    BY DEF VotesInv
  <2>1. Voters(n) \in SUBSET (Process \X Follower)
    BY DEF Voters
  <2>2. Cardinality(Voters(n)) \in Nat
    BY <2>1, VotersBound
  <2>3. votes[n] = 0
    OBVIOUS
  <2> QED
    BY <2>2, <2>3
<1>7. AnsweredSurvives
  BY DEF AnsweredSurvives
<1> QED
  BY <1>2, <1>3, <1>4, <1>5, <1>6, <1>7 DEF IInv, AppendInv, BackInv

LEMMA NextInv == IInv /\ [Next]_vars => IInv'
<1> SUFFICES ASSUME IInv, [Next]_vars PROVE IInv'
  OBVIOUS
<1>1. TypeInv' /\ LeaderInv' /\ FilesInv'
  BY TypeStep, LeaderStep, FilesStep DEF IInv
<1>2. AppendInv' /\ BackInv' /\ VotesInv'
  BY AppendStep, BackStep, VotesStep DEF IInv
<1>3. AnsweredSurvives'
  BY <1>1, <1>2, AnsweredStep
<1> QED
  BY <1>1, <1>2, <1>3 DEF IInv

\* The files, the connections and the votes fit together at all times.
THEOREM Invariance == Spec => []IInv
BY InitInv, NextInv, PTL DEF Spec

\* The types of the variables; a leader that runs knows its followers, and the
\* votes for a number never exceed the connections that there can be.
THEOREM TypeCorrect == Spec => []TypeOK
<1>1. IInv => TypeOK
  <2> SUFFICES ASSUME IInv PROVE TypeOK
    OBVIOUS
  <2>1. votes \in [Lsn -> 0 .. MaxBoot[0] * NF]
    <3> SUFFICES ASSUME NEW n \in Lsn PROVE votes[n] \in 0 .. MaxBoot[0] * NF
      BY DEF IInv, TypeInv
    <3>1. Voters(n) \in SUBSET (Process \X Follower)
      BY DEF Voters
    <3>2. Cardinality(Voters(n)) \in Nat /\ Cardinality(Voters(n)) <= MaxBoot[0] * NF
      BY <3>1, VotersBound
    <3>3. votes[n] \in Nat /\ (0 \in up => votes[n] <= Cardinality(Voters(n)))
      BY DEF IInv, TypeInv, VotesInv
    <3>4. 0 \notin up => votes[n] = 0
      BY DEF IInv, LeaderInv
    <3>5. MaxBoot[0] * NF \in Nat
      BY RecoveryAssumption
    <3> HIDE DEF IInv
    <3> QED
      BY <3>2, <3>3, <3>4, <3>5
  <2> QED
    BY <2>1 DEF IInv, TypeInv, TypeOK
<1> QED
  BY <1>1, Invariance, PTL

\* Of each leader process a follower has the first batches, in order, without a
\* gap or a repetition, whatever ends and is started again.
THEOREM PrefixInOrder == Spec => []PrefixPerLeader
<1>1. IInv => PrefixPerLeader
  <2> SUFFICES ASSUME IInv PROVE PrefixPerLeader
    OBVIOUS
  <2>1. \A p \in Node : log[p] \in Seq(Entry) /\ Numbered(log[p])
    BY DEF IInv, TypeInv, FilesInv
  <2>2. ASSUME NEW p \in Node PROVE NoGap(log[p])
    <3> SUFFICES ASSUME NEW k \in DOMAIN log[p], NEW n \in 0 .. log[p][k].lsn - 1
                 PROVE  Has(log[p], [by |-> log[p][k].by, lsn |-> n])
      BY DEF NoGap
    <3>1. /\ log[p][k].by \in Process /\ log[p][k].lsn \in Nat
          /\ log[p][k].lsn < Count(log[p], log[p][k].by)
      BY <2>1, BelowCount
    <3>2. Count(log[p], log[p][k].by) \in Nat
      BY <2>1, <3>1 DEF Numbered
    <3>3. n \in Nat /\ n < Count(log[p], log[p][k].by)
      BY <3>1, <3>2
    <3> QED
      BY <2>1, <3>1, <3>3 DEF Numbered
  <2>3. ASSUME NEW f \in Follower, NEW k \in DOMAIN log[f] PROVE Has(log[0], log[f][k])
    <3> DEFINE e == log[f][k]
    <3>1. f \in Node /\ 0 \in Node
      BY Nodes
    <3>2. e \in Entry /\ e.by \in Process /\ e.lsn \in Nat /\ e.lsn < Held(f, e.by)
      BY <2>1, <3>1, BelowCount DEF Held
    <3>3. Held(f, e.by) <= Held(0, e.by) /\ Held(f, e.by) \in Nat /\ Held(0, e.by) \in Nat
      BY <2>1, <3>1, <3>2 DEF IInv, FilesInv, Numbered, Held
    <3>4. e = [by |-> e.by, lsn |-> e.lsn]
      BY <3>2 DEF Entry
    <3>5. e.lsn < Held(0, e.by)
      BY <3>2, <3>3
    <3>6. Has(log[0], [by |-> e.by, lsn |-> e.lsn])
      BY <2>1, <3>1, <3>2, <3>5 DEF Numbered, Held
    <3> QED
      BY <3>4, <3>6
  <2> QED
    BY <2>1, <2>2, <2>3 DEF PrefixPerLeader, Numbered
<1> QED
  BY <1>1, Invariance, PTL

\* An answered batch is in the files of a majority, unless its leader process
\* was confused by an acknowledgement meant for another.
THEOREM AnswersSurvive == Spec => []AnsweredSurvives
BY Invariance, PTL DEF IInv

\* Every vote that a leader process which is not confused has counted stands
\* for a follower of its own, with the batch in its file.
THEOREM VotesTrue == Spec => []VotesAreTrue
<1>1. IInv => VotesAreTrue
  <2> SUFFICES ASSUME IInv, NEW n \in Lsn, 0 \in up, ~ Confused(boots[0])
               PROVE  votes[n] <= Cardinality(Holders([by |-> boots[0], lsn |-> n]) \ {0})
    BY DEF VotesAreTrue
  <2>1. votes[n] \in Nat /\ votes[n] <= Cardinality(Voters(n))
    BY DEF IInv, TypeInv, VotesInv
  <2>2. Cardinality(Voters(n)) <= Cardinality(Holders([by |-> boots[0], lsn |-> n]) \ {0})
    BY VotersHold DEF IInv
  <2>3. Voters(n) \in SUBSET (Process \X Follower)
    BY DEF Voters
  <2>4. Cardinality(Voters(n)) \in Nat
    BY <2>3, VotersBound
  <2>5. Cardinality(Holders([by |-> boots[0], lsn |-> n]) \ {0}) \in Nat
    BY HoldersFinite
  <2> QED
    BY <2>1, <2>2, <2>4, <2>5
<1> QED
  BY <1>1, Invariance, PTL
=============================================================================
