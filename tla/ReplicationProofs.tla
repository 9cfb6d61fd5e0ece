------------------------- MODULE ReplicationProofs --------------------------
(***************************************************************************)
(* Proofs about Replication for every set of workers, number of followers  *)
(* and set of batches.  The inductive invariant says, beside the           *)
(* properties that TLC checks, what a worker has in its hands while it     *)
(* flushes, that the acknowledgements on their way are the last entries of *)
(* the follower's log in their order, that the votes for an entry are the  *)
(* logReceivers whose acknowledgement of it has been counted, and that a   *)
(* task is taken only with a majority of them.                             *)
(***************************************************************************)
EXTENDS Replication, FiniteSetTheorems, SequenceTheorems, TLAPS

\* A batch between getLogSequenceNumber and the end of the flush: its number
\* is larger than those of its log and nobody else's, and once it is written
\* it is the last entry of the log.
Flushing ==
    \A w \in Worker :
        /\ wpc[w] = "append" =>
              /\ packet[w] \in Entry
              /\ packet[w].lsn < lsn
              /\ \A n \in LsnsOf(wlog[w]) : n < packet[w].lsn
              /\ \A v \in Worker \ {w} :
                    /\ packet[w].lsn \notin LsnsOf(wlog[v])
                    /\ wpc[v] = "append" => packet[v].lsn /= packet[w].lsn
        /\ wpc[w] \in {"send", "store"} =>
              wlog[w] /= <<>> /\ packet[w] = wlog[w][Len(wlog[w])]
        /\ wpc[w] = "send" => dest[w] \in Follower

\* how many entries of the follower's log the notifier has counted
Counted(w, f) ==
    Len(flog[w][f]) - Len(ackCh[w][f]) - (IF fpc[w][f] = "ack" THEN 1 ELSE 0)

\* The acknowledgements on their way are those of the entries after them.
AcksInOrder ==
    \A w \in Worker, f \in Follower :
        /\ Counted(w, f) >= 0
        /\ \A i \in DOMAIN ackCh[w][f] :
              ackCh[w][f][i] = flog[w][f][Counted(w, f) + i].lsn

Voters(w, i) == {f \in Follower : i <= Counted(w, f)}

\* The votes for an entry are the logReceivers that have been counted past it;
\* a number that is in no log has none.
VotesByCount ==
    /\ \A w \in Worker : \A i \in DOMAIN wlog[w] :
          votes[wlog[w][i].lsn] = Cardinality(Voters(w, i))
    /\ \A n \in Lsn : (\A w \in Worker : n \notin LsnsOf(wlog[w])) => votes[n] = 0

\* A task is an entry of the worker's log that is not being flushed.
TasksStored ==
    \A w \in Worker : \A t \in taskList[w] :
        /\ Stored(w, t.lsn)
        /\ \E i \in DOMAIN wlog[w] : t = wlog[w][i]

Majority(n) == votes[n] > clusterSize \div 2

\* A notifier looks for a task only with a majority, so only with a majority
\* is a task taken; the loop over its transactions ends with the last one.
Notifying ==
    /\ \A w \in Worker : \A n \in LsnsOf(wlog[w]) : Loaded(w, n) => Majority(n)
    /\ \A w \in Worker, f \in Follower :
          /\ npc[w][f] = "load" =>
                ack[w][f] \in LsnsOf(wlog[w]) /\ Majority(ack[w][f])
          /\ npc[w][f] = "commit" => todo[w][f] /= <<>>

IInv ==
    /\ TypeOK
    /\ Flushing
    /\ LsnOrder
    /\ FollowerLogIsPrefix
    /\ AcksInOrder
    /\ VotesByCount
    /\ TasksStored
    /\ Notifying
    /\ OneCommitter

-----------------------------------------------------------------------------
(* The data *)

\* u up to position n is s followed by t
Cut(s, t, u, n) ==
    /\ Len(s) + Len(t) = n
    /\ \A i \in 1 .. Len(s) : s[i] = u[i]
    /\ \A i \in 1 .. Len(t) : t[i] = u[Len(s) + i]

\* A sequence followed by another is a prefix of a third one: position by
\* position.
LEMMA SplitPrefix ==
    ASSUME NEW S, NEW s \in Seq(S), NEW t \in Seq(S), NEW u \in Seq(S),
           NEW n \in 0 .. Len(u)
    PROVE  s \o t = SubSeq(u, 1, n) <=> Cut(s, t, u, n)
<1>1. /\ s \o t \in Seq(S) /\ Len(s \o t) = Len(s) + Len(t)
      /\ \A i \in 1 .. Len(s) : (s \o t)[i] = s[i]
      /\ \A i \in 1 .. Len(t) : (s \o t)[Len(s) + i] = t[i]
  OBVIOUS
<1>2. /\ SubSeq(u, 1, n) \in Seq(S) /\ Len(SubSeq(u, 1, n)) = n
      /\ \A i \in 1 .. n : SubSeq(u, 1, n)[i] = u[i]
  OBVIOUS
<1>3. ASSUME s \o t = SubSeq(u, 1, n) PROVE Cut(s, t, u, n)
  BY <1>1, <1>2, <1>3 DEF Cut
<1>4. ASSUME Cut(s, t, u, n) PROVE s \o t = SubSeq(u, 1, n)
  <2>1. ASSUME NEW i \in 1 .. n PROVE (s \o t)[i] = u[i]
    <3>0. i <= Len(s) \/ i > Len(s)
      OBVIOUS
    <3>1. CASE i <= Len(s)
      BY <1>1, <1>4, <3>1 DEF Cut
    <3>2. CASE i > Len(s)
      <4>1. i - Len(s) \in 1 .. Len(t) /\ i = Len(s) + (i - Len(s))
        BY <1>4, <3>2 DEF Cut
      <4> QED
        BY <1>1, <1>4, <4>1 DEF Cut
    <3> QED
      BY <3>0, <3>1, <3>2
  <2> QED
    BY <1>1, <1>2, <1>4, <2>1, SeqEqual DEF Cut
<1> QED
  BY <1>3, <1>4

LEMMA LsnsOfAppend ==
    ASSUME NEW S, NEW log \in Seq(S), NEW e \in S
    PROVE  LsnsOf(Append(log, e)) = LsnsOf(log) \cup {e.lsn}
<1>1. DOMAIN log = 1 .. Len(log) /\ DOMAIN Append(log, e) = 1 .. Len(log) + 1
  OBVIOUS
<1>2. \A i \in DOMAIN log : Append(log, e)[i] = log[i]
  OBVIOUS
<1>3. Append(log, e)[Len(log) + 1] = e
  OBVIOUS
<1> QED
  BY <1>1, <1>2, <1>3 DEF LsnsOf

LEMMA LsnsOfEmpty == LsnsOf(<<>>) = {}
  BY DEF LsnsOf

LEMMA NFIsNat == NF \in Nat /\ NF >= 1 /\ MaxLsn \in Nat
  BY ReplicationAssumption

LEMMA FollowersFinite == IsFiniteSet(Follower) /\ Cardinality(Follower) = NF
<1>1. 1 \in Int /\ NF \in Int /\ NF - 1 + 1 = NF /\ ~ (1 > NF)
  BY NFIsNat
<1> QED
  BY <1>1, FS_Interval DEF Follower

\* Any set of followers has a cardinality, at most NF, and less when one of
\* them is missing.
LEMMA FollowerSubset ==
    ASSUME NEW F \in SUBSET Follower
    PROVE  /\ IsFiniteSet(F) /\ Cardinality(F) \in 0 .. NF
           /\ \A f \in Follower \ F :
                 /\ Cardinality(F) < NF
                 /\ Cardinality(F \cup {f}) = Cardinality(F) + 1
<1>1. IsFiniteSet(F) /\ Cardinality(F) <= NF
  BY FollowersFinite, FS_Subset
<1>2. Cardinality(F) \in Nat
  BY <1>1, FS_CardinalityType
<1>3. ASSUME NEW f \in Follower \ F
      PROVE  Cardinality(F) < NF /\ Cardinality(F \cup {f}) = Cardinality(F) + 1
  <2>1. Cardinality(F \cup {f}) = Cardinality(F) + 1
    BY <1>1, FS_AddElement
  <2>2. Cardinality(F \cup {f}) <= NF
    <3>1. F \cup {f} \subseteq Follower
      OBVIOUS
    <3> QED
      BY <3>1, FollowersFinite, FS_Subset
  <2> QED
    BY <1>2, <2>1, <2>2, NFIsNat
<1> QED
  BY <1>1, <1>2, <1>3, NFIsNat

-----------------------------------------------------------------------------
(* The initial states *)

LEMMA InitHolds == Init => IInv
<1> SUFFICES ASSUME Init PROVE IInv
  OBVIOUS
<1> USE DEF Init, PerFollower
<1>1. TypeOK
  BY NFIsNat DEF TypeOK, Entry, Lsn
<1>2. \A w \in Worker : LsnsOf(wlog[w]) = {} /\ DOMAIN wlog[w] = {}
  BY DEF LsnsOf
<1>3. Flushing /\ LsnOrder /\ TasksStored
  BY <1>2 DEF Flushing, LsnOrder, TasksStored
<1>4. FollowerLogIsPrefix
  <2>1. ASSUME NEW w \in Worker, NEW f \in Follower
        PROVE  flog[w][f] \o appendCh[w][f] = SubSeq(wlog[w], 1, SentTo(w, f))
    BY DEF SentTo
  <2> QED
    BY <2>1 DEF FollowerLogIsPrefix
<1>5. AcksInOrder
  BY DEF AcksInOrder, Counted
<1>6. VotesByCount
  BY <1>2 DEF VotesByCount
<1>7. Notifying /\ OneCommitter
  BY <1>2 DEF Notifying, OneCommitter
<1> QED
  BY <1>1, <1>3, <1>4, <1>5, <1>6, <1>7 DEF IInv

-----------------------------------------------------------------------------
(* Types *)

\* What the follower has written is in the worker's log, at the same place.
LEMMA PrefixByPosition ==
    ASSUME IInv, NEW w \in Worker, NEW f \in Follower
    PROVE  /\ SentTo(w, f) \in 0 .. Len(wlog[w])
           /\ Len(flog[w][f]) + Len(appendCh[w][f]) = SentTo(w, f)
           /\ Len(flog[w][f]) <= Len(wlog[w])
           /\ \A i \in 1 .. Len(flog[w][f]) : flog[w][f][i] = wlog[w][i]
           /\ \A i \in 1 .. Len(appendCh[w][f]) :
                 appendCh[w][f][i] = wlog[w][Len(flog[w][f]) + i]
<1>1. /\ wlog[w] \in Seq(Entry) /\ flog[w][f] \in Seq(Entry)
      /\ appendCh[w][f] \in Seq(Entry)
  BY DEF IInv, TypeOK
<1>2. SentTo(w, f) \in 0 .. Len(wlog[w])
  <2>1. wpc[w] = "send" => wlog[w] /= <<>>
    BY DEF IInv, Flushing
  <2>2. wpc[w] = "send" => Len(wlog[w]) >= 1
    BY <1>1, <2>1
  <2>3. Len(wlog[w]) \in Nat /\ dest[w] \in Int /\ f \in Int
    BY <1>1, NFIsNat DEF IInv, TypeOK, Follower
  <2>4. CASE wpc[w] = "send" /\ dest[w] <= f
    BY <2>2, <2>3, <2>4 DEF SentTo
  <2>5. CASE ~ (wpc[w] = "send" /\ dest[w] <= f)
    BY <2>3, <2>5 DEF SentTo, IInv, TypeOK
  <2> QED
    BY <2>4, <2>5
<1>3. flog[w][f] \o appendCh[w][f] = SubSeq(wlog[w], 1, SentTo(w, f))
  BY DEF IInv, FollowerLogIsPrefix
<1> DEFINE s == flog[w][f]
           t == appendCh[w][f]
           u == wlog[w]
           n == SentTo(w, f)
<1> HIDE DEF s, t, u, n
<1>4. s \in Seq(Entry) /\ t \in Seq(Entry) /\ u \in Seq(Entry) /\ n \in 0 .. Len(u)
  BY <1>1, <1>2 DEF s, t, u, n
<1>5. s \o t = SubSeq(u, 1, n)
  BY <1>3 DEF s, t, u, n
<1>6. Cut(s, t, u, n)
  BY <1>4, <1>5, SplitPrefix
<1>7. Len(s) <= Len(u)
  BY <1>4, <1>6 DEF Cut
<1> QED
  BY <1>2, <1>6, <1>7 DEF Cut, s, t, u, n

\* How many entries are counted, a number because what is compared with it is
\* a length.
LEMMA CountedType ==
    ASSUME IInv, NEW w \in Worker, NEW f \in Follower
    PROVE  /\ Counted(w, f) \in Nat
           /\ Counted(w, f) + Len(ackCh[w][f]) <= Len(flog[w][f])
           /\ fpc[w][f] = "ack" =>
                 Counted(w, f) + Len(ackCh[w][f]) + 1 = Len(flog[w][f])
           /\ fpc[w][f] = "recv" =>
                 Counted(w, f) + Len(ackCh[w][f]) = Len(flog[w][f])
           /\ Len(flog[w][f]) <= Len(wlog[w])
<1>1. Len(flog[w][f]) \in Nat /\ Len(ackCh[w][f]) \in Nat
  BY DEF IInv, TypeOK
<1>2. fpc[w][f] \in {"recv", "ack"}
  BY DEF IInv, TypeOK
<1>3. Counted(w, f) >= 0
  BY DEF IInv, AcksInOrder
<1>4. Len(flog[w][f]) <= Len(wlog[w])
  BY PrefixByPosition
<1>5. CASE fpc[w][f] = "ack"
  BY <1>1, <1>3, <1>4, <1>5 DEF Counted
<1>6. CASE fpc[w][f] = "recv"
  BY <1>1, <1>3, <1>4, <1>6 DEF Counted
<1> QED
  BY <1>2, <1>5, <1>6

\* The next acknowledgement is for the first entry not yet counted, and this
\* logReceiver has not voted for it.
LEMMA NextAck ==
    ASSUME IInv, NEW w \in Worker, NEW f \in Follower, ackCh[w][f] /= <<>>
    PROVE  LET i == Counted(w, f) + 1
           IN  /\ i \in DOMAIN wlog[w] /\ i \in 1 .. Len(flog[w][f])
               /\ Head(ackCh[w][f]) = wlog[w][i].lsn
               /\ Head(ackCh[w][f]) \in LsnsOf(wlog[w])
               /\ f \notin Voters(w, i)
               /\ votes[wlog[w][i].lsn] = Cardinality(Voters(w, i))
               /\ votes[wlog[w][i].lsn] < NF
<1> DEFINE i == Counted(w, f) + 1
<1>1. /\ wlog[w] \in Seq(Entry) /\ flog[w][f] \in Seq(Entry)
      /\ ackCh[w][f] \in Seq(Lsn) /\ Len(ackCh[w][f]) >= 1
      /\ 1 \in DOMAIN ackCh[w][f] /\ Head(ackCh[w][f]) = ackCh[w][f][1]
  BY DEF IInv, TypeOK
<1>2. Head(ackCh[w][f]) = flog[w][f][i].lsn
  BY <1>1 DEF IInv, AcksInOrder
<1>3. i \in 1 .. Len(flog[w][f])
  BY <1>1, CountedType
<1>4. flog[w][f][i] = wlog[w][i]
  BY <1>3, PrefixByPosition
<1>5. i \in DOMAIN wlog[w]
  BY <1>1, <1>3, CountedType
<1>6. f \notin Voters(w, i)
  BY CountedType DEF Voters
<1>7. votes[wlog[w][i].lsn] = Cardinality(Voters(w, i))
  BY <1>5 DEF IInv, VotesByCount
<1>8. Cardinality(Voters(w, i)) < NF
  BY <1>6, FollowerSubset DEF Voters
<1> QED
  BY <1>2, <1>3, <1>4, <1>5, <1>6, <1>7, <1>8 DEF LsnsOf

LEMMA EntryType == \A e \in Entry : e.lsn \in Lsn /\ e.xacts \in Batch
  BY DEF Entry

LEMMA BatchType == \A b \in Batch : b \in Seq(Xact) /\ b /= <<>>
  BY ReplicationAssumption

LEMMA LsnType == \A n : n \in Lsn <=> n \in Int /\ 0 <= n /\ n < MaxLsn
  BY NFIsNat DEF Lsn

LEMMA TypeKept ==
    ASSUME IInv, Next
    PROVE  TypeOK'
<1> USE DEF IInv
<1>1. ASSUME NEW w \in Worker, NEW b \in Batch, getLogSequenceNumber(w, b)
      PROVE  TypeOK'
  <2>1. arpcByFields(lsn, b) \in Entry /\ lsn + 1 \in 0 .. MaxLsn
    BY <1>1, LsnType, NFIsNat DEF TypeOK, getLogSequenceNumber, arpcByFields, Entry
  <2> QED
    BY <1>1, <2>1 DEF TypeOK, getLogSequenceNumber, followerVars, notifierVars
<1>2. ASSUME NEW w \in Worker, addEntry(w) PROVE TypeOK'
  <2>1. packet[w] \in Entry /\ 1 \in 1 .. NF + 1
    BY <1>2, NFIsNat DEF addEntry, Flushing
  <2>2. Append(wlog[w], packet[w]) \in Seq(Entry)
    BY <2>1 DEF TypeOK
  <2> QED
    BY <1>2, <2>1, <2>2 DEF TypeOK, addEntry, followerVars, notifierVars
<1>3. ASSUME NEW w \in Worker, sendRPC(w) PROVE TypeOK'
  <2>1. dest[w] \in Follower /\ dest[w] + 1 \in 1 .. NF + 1
    BY <1>3, NFIsNat DEF sendRPC, Flushing, Follower
  <2>2. packet[w] \in Entry
    <3>1. wlog[w] \in Seq(Entry) /\ wlog[w] /= <<>> /\ packet[w] = wlog[w][Len(wlog[w])]
      BY <1>3 DEF sendRPC, Flushing, TypeOK
    <3> QED
      BY <3>1
  <2>3. Append(appendCh[w][dest[w]], packet[w]) \in Seq(Entry)
    BY <2>1, <2>2 DEF TypeOK
  <2> QED
    BY <1>3, <2>1, <2>2, <2>3 DEF TypeOK, sendRPC, followerVars, notifierVars
<1>4. ASSUME NEW w \in Worker, taskStore(w) PROVE TypeOK'
  <2>1. wlog[w] \in Seq(Entry) /\ wlog[w] /= <<>> /\ packet[w] = wlog[w][Len(wlog[w])]
    BY <1>4 DEF taskStore, Flushing, TypeOK
  <2>2. packet[w] \in Entry
    BY <2>1
  <2> QED
    BY <1>4, <2>2 DEF TypeOK, taskStore, followerVars, notifierVars
<1>5. ASSUME NEW w \in Worker, NEW f \in Follower, followerAddEntry(w, f) PROVE TypeOK'
  <2>1. appendCh[w][f] \in Seq(Entry) /\ appendCh[w][f] /= <<>> /\ flog[w][f] \in Seq(Entry)
    BY <1>5 DEF followerAddEntry, TypeOK
  <2>2. /\ Head(appendCh[w][f]) \in Entry /\ Tail(appendCh[w][f]) \in Seq(Entry)
        /\ Append(flog[w][f], Head(appendCh[w][f])) \in Seq(Entry)
    BY <2>1
  <2> QED
    BY <1>5, <2>2 DEF TypeOK, followerAddEntry, workerVars, notifierVars
<1>6. ASSUME NEW w \in Worker, NEW f \in Follower, sendAck(w, f) PROVE TypeOK'
  <2>1. raeByFields(w, f) \in Lsn
    <3>1. flog[w][f] \in Seq(Entry) /\ Len(flog[w][f]) >= 1
      <4> DEFINE a == Len(flog[w][f])
                 b == Len(ackCh[w][f])
                 c == Counted(w, f)
      <4>1. a \in Nat /\ b \in Nat /\ flog[w][f] \in Seq(Entry)
        BY DEF TypeOK
      <4>2. c \in Nat /\ c + b + 1 = a
        BY <1>6, CountedType DEF sendAck
      <4> HIDE DEF a, b, c
      <4>3. a >= 1
        BY <4>1, <4>2
      <4> QED
        BY <4>1, <4>3 DEF a
    <3>2. flog[w][f][Len(flog[w][f])] \in Entry
      BY <3>1
    <3> QED
      BY <3>2, EntryType DEF raeByFields
  <2>2. Append(ackCh[w][f], raeByFields(w, f)) \in Seq(Lsn)
    BY <2>1 DEF TypeOK
  <2> QED
    BY <1>6, <2>2 DEF TypeOK, sendAck, workerVars, notifierVars
<1>7. ASSUME NEW w \in Worker, NEW f \in Follower, addVoteCount(w, f) PROVE TypeOK'
  <2> DEFINE n == Head(ackCh[w][f])
  <2>1. ackCh[w][f] \in Seq(Lsn) /\ ackCh[w][f] /= <<>>
    BY <1>7 DEF addVoteCount, TypeOK
  <2>2. n \in Lsn /\ Tail(ackCh[w][f]) \in Seq(Lsn)
    BY <2>1
  <2>3. votes[n] < NF
    BY <2>1, NextAck
  <2>4. votes[n] + 1 \in 0 .. NF
    <3> DEFINE m == votes[n]
    <3>1. m \in 0 .. NF /\ m < NF
      BY <2>2, <2>3 DEF TypeOK
    <3> HIDE DEF m
    <3>2. m + 1 \in 0 .. NF
      BY <3>1, NFIsNat
    <3> QED
      BY <3>2 DEF m
  <2> QED
    BY <1>7, <2>2, <2>4 DEF TypeOK, addVoteCount, workerVars, followerVars
<1>8. ASSUME NEW w \in Worker, NEW f \in Follower, TaskFound(w, f) PROVE TypeOK'
  <2>1. PICK t \in TasksFor(w, ack[w][f]) :
           /\ taskList' = [taskList EXCEPT ![w] = @ \ {t}]
           /\ todo' = [todo EXCEPT ![w][f] = t.xacts]
    BY <1>8 DEF TaskFound
  <2>2. t \in Entry
    BY <2>1 DEF TasksFor, TypeOK
  <2>3. t.xacts \in Seq(Xact)
    BY <2>2, EntryType, BatchType
  <2> QED
    BY <1>8, <2>1, <2>3 DEF TypeOK, TaskFound, workerVars, followerVars
<1>9. ASSUME NEW w \in Worker, NEW f \in Follower, TaskNotFound(w, f) PROVE TypeOK'
  BY <1>9 DEF TypeOK, TaskNotFound, workerVars, followerVars
<1>10. ASSUME NEW w \in Worker, NEW f \in Follower, commitNext(w, f) PROVE TypeOK'
  <2>1. todo[w][f] \in Seq(Xact) /\ todo[w][f] /= <<>>
    BY <1>10 DEF commitNext, Notifying, TypeOK
  <2>2. Tail(todo[w][f]) \in Seq(Xact)
    BY <2>1
  <2> QED
    BY <1>10, <2>2 DEF TypeOK, commitNext, workerVars, followerVars
<1> QED
  BY <1>1, <1>2, <1>3, <1>4, <1>5, <1>6, <1>7, <1>8, <1>9, <1>10
     DEF Next, flush, logReceiver, notifier

-----------------------------------------------------------------------------
(* The numbers of the batches *)

\* The steps of the other threads do not touch what the worker keeps.
LEMMA OtherThreads ==
    ASSUME NEW w \in Worker, NEW f \in Follower, logReceiver(w, f) \/ notifier(w, f)
    PROVE  UNCHANGED workerVars
  BY DEF logReceiver, notifier, followerAddEntry, sendAck, addVoteCount, TaskFound,
         TaskNotFound, commitNext, workerVars

\* Writing an entry adds its number to those of the worker's log and to no
\* other log.
LEMMA addEntryLsns ==
    ASSUME IInv, NEW w \in Worker, addEntry(w)
    PROVE  /\ LsnsOf(wlog'[w]) = LsnsOf(wlog[w]) \cup {packet[w].lsn}
           /\ \A v \in Worker \ {w} : wlog'[v] = wlog[v]
           /\ wlog'[w] = Append(wlog[w], packet[w])
           /\ packet[w] \in Entry /\ wlog[w] \in Seq(Entry)
<1>1. packet[w] \in Entry /\ wlog[w] \in Seq(Entry)
  BY DEF IInv, TypeOK, Flushing, addEntry
<1>2. wlog'[w] = Append(wlog[w], packet[w]) /\ \A v \in Worker \ {w} : wlog'[v] = wlog[v]
  BY DEF IInv, TypeOK, addEntry
<1> QED
  BY <1>1, <1>2, LsnsOfAppend

\* A number in a log was drawn before.
LEMMA OldNumbers ==
    ASSUME IInv, NEW w \in Worker, NEW n \in LsnsOf(wlog[w])
    PROVE  n \in Lsn /\ n < lsn
<1>1. n \in 0 .. lsn - 1
  BY DEF IInv, LsnOrder
<1>2. lsn \in Int /\ lsn <= MaxLsn
  BY NFIsNat DEF IInv, TypeOK
<1> QED
  BY <1>1, <1>2, NFIsNat DEF Lsn

LEMMA FlushingKept ==
    ASSUME IInv, Next
    PROVE  Flushing'
<1> USE DEF IInv
<1>1. ASSUME NEW w \in Worker, NEW b \in Batch, getLogSequenceNumber(w, b)
      PROVE  Flushing'
  <2>1. /\ packet' = [packet EXCEPT ![w] = arpcByFields(lsn, b)] /\ lsn' = lsn + 1
        /\ wpc' = [wpc EXCEPT ![w] = "append"] /\ UNCHANGED <<dest, wlog>>
        /\ lsn < MaxLsn
    BY <1>1 DEF getLogSequenceNumber
  <2>2. arpcByFields(lsn, b) \in Entry /\ arpcByFields(lsn, b).lsn = lsn
    BY <2>1, LsnType, NFIsNat DEF TypeOK, arpcByFields, Entry
  <2>3. \A v \in Worker : wpc[v] = "append" => packet[v].lsn \in Lsn /\ packet[v].lsn < lsn
    BY EntryType DEF Flushing
  <2>4. ASSUME NEW v \in Worker, wpc'[v] = "append"
        PROVE  /\ packet'[v] \in Entry
               /\ packet'[v].lsn < lsn'
               /\ \A n \in LsnsOf(wlog'[v]) : n < packet'[v].lsn
               /\ \A u \in Worker \ {v} :
                     /\ packet'[v].lsn \notin LsnsOf(wlog'[u])
                     /\ wpc'[u] = "append" => packet'[u].lsn /= packet'[v].lsn
    <3>1. CASE v = w
      <4>1. packet'[v] = arpcByFields(lsn, b) /\ packet'[v].lsn = lsn
        BY <2>1, <2>2, <3>1 DEF TypeOK
      <4>2. \A u \in Worker : \A n \in LsnsOf(wlog[u]) : n < lsn
        BY OldNumbers
      <4>3. \A u \in Worker \ {v} : wpc'[u] = wpc[u] /\ packet'[u] = packet[u]
        BY <2>1, <3>1 DEF TypeOK
      <4> QED
        BY <2>1, <2>2, <2>3, <4>1, <4>2, <4>3 DEF TypeOK
    <3>2. CASE v /= w
      <4>1. packet'[v] = packet[v] /\ wpc[v] = "append" /\ wlog' = wlog
        BY <2>1, <2>4, <3>2 DEF TypeOK
      <4>2. packet'[v] \in Entry /\ packet[v].lsn < lsn /\ packet[v].lsn \in Lsn
        BY <2>3, <4>1 DEF Flushing
      <4>3. packet'[v].lsn < lsn'
        BY <2>1, <4>1, <4>2, LsnType DEF TypeOK
      <4>4. \A u \in Worker \ {v} : wpc'[u] = "append" => packet'[u].lsn /= packet'[v].lsn
        <5>1. packet'[w].lsn = lsn
          BY <2>1, <2>2 DEF TypeOK
        <5>2. \A u \in Worker \ {w} : wpc'[u] = wpc[u] /\ packet'[u] = packet[u]
          BY <2>1 DEF TypeOK
        <5>3. packet[v].lsn /= lsn
          BY <4>2, LsnType DEF TypeOK
        <5>4. \A u \in Worker \ {v} : wpc[u] = "append" => packet[u].lsn /= packet[v].lsn
          BY <4>1 DEF Flushing
        <5> QED
          BY <4>1, <5>1, <5>2, <5>3, <5>4
      <4> QED
        BY <4>1, <4>2, <4>3, <4>4 DEF Flushing
    <3> QED
      BY <3>1, <3>2
  <2>5. ASSUME NEW v \in Worker, wpc'[v] \in {"send", "store"}
        PROVE  wpc'[v] = wpc[v] /\ packet'[v] = packet[v]
    BY <2>1, <2>5 DEF TypeOK
  <2> QED
    BY <2>1, <2>4, <2>5 DEF Flushing
<1>2. ASSUME NEW w \in Worker, addEntry(w) PROVE Flushing'
  <2>1. /\ dest' = [dest EXCEPT ![w] = 1] /\ wpc' = [wpc EXCEPT ![w] = "send"]
        /\ wpc[w] = "append" /\ UNCHANGED <<lsn, packet>>
    BY <1>2 DEF addEntry
  <2>2. ASSUME NEW v \in Worker, wpc'[v] = "append"
        PROVE  /\ v /= w /\ wpc[v] = "append" /\ wlog'[v] = wlog[v]
               /\ packet[v].lsn \notin LsnsOf(wlog'[w])
    <3>1. v /= w /\ wpc[v] = "append"
      BY <2>1, <2>2 DEF TypeOK
    <3>2. packet[v].lsn \notin LsnsOf(wlog[w]) /\ packet[w].lsn /= packet[v].lsn
      BY <2>1, <3>1 DEF Flushing
    <3> QED
      BY <1>2, <3>1, <3>2, addEntryLsns
  <2>3. wlog'[w] /= <<>> /\ packet'[w] = wlog'[w][Len(wlog'[w])]
    BY <1>2, <2>1, addEntryLsns
  <2>4. dest'[w] \in Follower
    BY <2>1, NFIsNat DEF TypeOK, Follower
  <2>5. ASSUME NEW v \in Worker, v /= w
        PROVE  wpc'[v] = wpc[v] /\ wlog'[v] = wlog[v] /\ dest'[v] = dest[v]
    BY <1>2, <2>1, <2>5, addEntryLsns DEF TypeOK
  <2>6. ASSUME NEW v \in Worker, wpc'[v] = "append"
        PROVE  /\ packet'[v] \in Entry
               /\ packet'[v].lsn < lsn'
               /\ \A n \in LsnsOf(wlog'[v]) : n < packet'[v].lsn
               /\ \A u \in Worker \ {v} :
                     /\ packet'[v].lsn \notin LsnsOf(wlog'[u])
                     /\ wpc'[u] = "append" => packet'[u].lsn /= packet'[v].lsn
    BY <2>1, <2>2, <2>5, <2>6 DEF Flushing
  <2>7. ASSUME NEW v \in Worker, wpc'[v] \in {"send", "store"}
        PROVE  wlog'[v] /= <<>> /\ packet'[v] = wlog'[v][Len(wlog'[v])]
    BY <2>1, <2>3, <2>5, <2>7 DEF Flushing
  <2>8. ASSUME NEW v \in Worker, wpc'[v] = "send" PROVE dest'[v] \in Follower
    BY <2>4, <2>5, <2>8 DEF Flushing
  <2> QED
    BY <2>6, <2>7, <2>8 DEF Flushing
<1>3. ASSUME NEW w \in Worker, sendRPC(w) PROVE Flushing'
  <2>1. /\ dest' = [dest EXCEPT ![w] = @ + 1] /\ wpc[w] = "send"
        /\ wpc' = [wpc EXCEPT ![w] = IF dest[w] = NF THEN "store" ELSE "send"]
        /\ UNCHANGED <<lsn, packet, wlog>>
    BY <1>3 DEF sendRPC
  <2>2. ASSUME NEW v \in Worker, v /= w PROVE wpc'[v] = wpc[v] /\ dest'[v] = dest[v]
    BY <2>1, <2>2 DEF TypeOK
  <2>3. wpc'[w] \in {"send", "store"} /\ (wpc'[w] = "send" => dest[w] /= NF)
    BY <2>1 DEF TypeOK
  <2>4. wpc'[w] = "send" => dest'[w] \in Follower
    <3>1. dest[w] \in 1 .. NF /\ dest'[w] = dest[w] + 1
      BY <2>1 DEF TypeOK, Flushing, Follower
    <3> QED
      BY <2>3, <3>1, NFIsNat DEF Follower
  <2> QED
    BY <2>1, <2>2, <2>3, <2>4 DEF Flushing
<1>4. ASSUME NEW w \in Worker, taskStore(w) PROVE Flushing'
  <2>1. wpc' = [wpc EXCEPT ![w] = "run"] /\ UNCHANGED <<lsn, packet, dest, wlog>>
    BY <1>4 DEF taskStore
  <2>2. \A v \in Worker : wpc'[v] = wpc[v] \/ wpc'[v] = "run"
    BY <2>1 DEF TypeOK
  <2> QED
    BY <2>1, <2>2 DEF Flushing
<1>5. ASSUME NEW w \in Worker, NEW f \in Follower, logReceiver(w, f) \/ notifier(w, f)
      PROVE  Flushing'
  BY <1>5, OtherThreads DEF Flushing, workerVars
<1> QED
  BY <1>1, <1>2, <1>3, <1>4, <1>5 DEF Next, flush

LEMMA LsnOrderKept ==
    ASSUME IInv, Next
    PROVE  LsnOrder'
<1> USE DEF IInv
<1>1. ASSUME NEW w \in Worker, NEW b \in Batch, getLogSequenceNumber(w, b)
      PROVE  LsnOrder'
  <2>1. lsn' = lsn + 1 /\ wlog' = wlog
    BY <1>1 DEF getLogSequenceNumber
  <2>2. 0 .. lsn - 1 \subseteq 0 .. lsn' - 1
    BY <2>1, NFIsNat DEF TypeOK
  <2> QED
    BY <2>1, <2>2 DEF LsnOrder
<1>2. ASSUME NEW w \in Worker, addEntry(w) PROVE LsnOrder'
  <2>1. lsn' = lsn /\ wpc[w] = "append"
    BY <1>2 DEF addEntry
  <2>2. /\ packet[w].lsn \in Lsn /\ packet[w].lsn < lsn
        /\ \A n \in LsnsOf(wlog[w]) : n < packet[w].lsn
        /\ \A v \in Worker \ {w} : packet[w].lsn \notin LsnsOf(wlog[v])
    BY <2>1, EntryType DEF Flushing
  <2>3. ASSUME NEW v \in Worker, NEW i \in DOMAIN wlog'[v], NEW j \in DOMAIN wlog'[v], i < j
        PROVE  wlog'[v][i].lsn < wlog'[v][j].lsn
    <3>1. CASE v /= w
      BY <1>2, <2>3, <3>1, addEntryLsns DEF LsnOrder
    <3>2. CASE v = w
      <4> DEFINE log == wlog[w]
                 e == packet[w]
      <4> HIDE DEF log, e
      <4>1. /\ log \in Seq(Entry) /\ e \in Entry /\ wlog'[v] = Append(log, e)
            /\ \A k, l \in DOMAIN log : k < l => log[k].lsn < log[l].lsn
            /\ \A k \in DOMAIN log : log[k].lsn < e.lsn
        BY <1>2, <2>2, <3>2, addEntryLsns DEF LsnOrder, LsnsOf, log, e
      <4>2. i \in 1 .. Len(log) + 1 /\ j \in 1 .. Len(log) + 1
        BY <2>3, <4>1
      <4>3. i \in DOMAIN log /\ (j \in DOMAIN log \/ j = Len(log) + 1)
        BY <2>3, <4>1, <4>2
      <4>4. CASE j \in DOMAIN log
        BY <2>3, <4>1, <4>3, <4>4
      <4>5. CASE j = Len(log) + 1
        BY <2>3, <4>1, <4>3, <4>5
      <4> QED
        BY <4>3, <4>4, <4>5
    <3> QED
      BY <3>1, <3>2
  <2>4. ASSUME NEW v \in Worker PROVE LsnsOf(wlog'[v]) \subseteq 0 .. lsn' - 1
    <3>1. packet[w].lsn \in 0 .. lsn - 1
      BY <2>2, NFIsNat DEF Lsn, TypeOK
    <3>2. LsnsOf(wlog[v]) \subseteq 0 .. lsn - 1
      BY DEF LsnOrder
    <3>3. LsnsOf(wlog'[v]) \subseteq LsnsOf(wlog[v]) \cup {packet[w].lsn}
      BY <1>2, addEntryLsns
    <3> QED
      BY <2>1, <3>1, <3>2, <3>3
  <2>5. ASSUME NEW u \in Worker, NEW v \in Worker \ {u}
        PROVE  LsnsOf(wlog'[u]) \cap LsnsOf(wlog'[v]) = {}
    <3>1. LsnsOf(wlog[u]) \cap LsnsOf(wlog[v]) = {}
      BY DEF LsnOrder
    <3>2. CASE u = w
      BY <1>2, <2>2, <3>1, <3>2, addEntryLsns
    <3>3. CASE v = w
      BY <1>2, <2>2, <3>1, <3>3, addEntryLsns
    <3>4. CASE u /= w /\ v /= w
      BY <1>2, <3>1, <3>4, addEntryLsns
    <3> QED
      BY <3>2, <3>3, <3>4
  <2> QED
    BY <2>3, <2>4, <2>5 DEF LsnOrder
<1>3. ASSUME NEW w \in Worker, sendRPC(w) \/ taskStore(w) PROVE LsnOrder'
  BY <1>3 DEF LsnOrder, sendRPC, taskStore
<1>4. ASSUME NEW w \in Worker, NEW f \in Follower, logReceiver(w, f) \/ notifier(w, f)
      PROVE  LsnOrder'
  BY <1>4, OtherThreads DEF LsnOrder, workerVars
<1> QED
  BY <1>1, <1>2, <1>3, <1>4 DEF Next, flush

\* The entries of a log are told apart by their numbers.
LEMMA OneEntryPerLsn ==
    ASSUME IInv, NEW w \in Worker, NEW i \in DOMAIN wlog[w], NEW j \in DOMAIN wlog[w],
           wlog[w][i].lsn = wlog[w][j].lsn
    PROVE  i = j
<1>1. wlog[w] \in Seq(Entry) /\ i \in Int /\ j \in Int
  BY DEF IInv, TypeOK
<1>2. wlog[w][i].lsn \in Int
  <2>1. wlog[w][i] \in Entry
    BY <1>1
  <2> QED
    BY <2>1, EntryType, LsnType
<1>3. ~ (i < j) /\ ~ (j < i)
  BY <1>2 DEF IInv, LsnOrder
<1> QED
  BY <1>1, <1>3

-----------------------------------------------------------------------------
(* The copies of the log *)

\* The three ways in which a cut moves: the log grows, its next entry is sent,
\* and the entry that was sent first is written.
LEMMA CutGrows ==
    ASSUME NEW S, NEW s \in Seq(S), NEW t \in Seq(S), NEW u \in Seq(S), NEW e \in S,
           NEW n \in 0 .. Len(u), Cut(s, t, u, n)
    PROVE  Cut(s, t, Append(u, e), n)
<1>1. Len(s) + Len(t) = n /\ Len(s) <= Len(u)
  BY DEF Cut
<1>2. \A i \in 1 .. Len(u) : Append(u, e)[i] = u[i]
  OBVIOUS
<1>3. \A i \in 1 .. Len(s) : s[i] = Append(u, e)[i]
  BY <1>1, <1>2 DEF Cut
<1>4. \A i \in 1 .. Len(t) : t[i] = Append(u, e)[Len(s) + i]
  BY <1>1, <1>2 DEF Cut
<1> QED
  BY <1>1, <1>3, <1>4 DEF Cut

LEMMA CutSends ==
    ASSUME NEW S, NEW s \in Seq(S), NEW t \in Seq(S), NEW u \in Seq(S),
           NEW n \in 0 .. Len(u) - 1, Cut(s, t, u, n)
    PROVE  Cut(s, Append(t, u[n + 1]), u, n + 1)
<1>1. Len(s) + Len(t) = n
  BY DEF Cut
<1>2. u[n + 1] \in S
  OBVIOUS
<1>3. Len(Append(t, u[n + 1])) = Len(t) + 1
  BY <1>2
<1>4. ASSUME NEW i \in 1 .. Len(t) + 1 PROVE Append(t, u[n + 1])[i] = u[Len(s) + i]
  <2>1. CASE i = Len(t) + 1
    BY <1>1, <1>2, <2>1
  <2>2. CASE i \in 1 .. Len(t)
    BY <1>2, <2>2 DEF Cut
  <2>3. i = Len(t) + 1 \/ i \in 1 .. Len(t)
    OBVIOUS
  <2> QED
    BY <2>1, <2>2, <2>3
<1> QED
  BY <1>1, <1>3, <1>4 DEF Cut

LEMMA CutWrites ==
    ASSUME NEW S, NEW s \in Seq(S), NEW t \in Seq(S), NEW u \in Seq(S), t /= <<>>,
           NEW n \in 0 .. Len(u), Cut(s, t, u, n)
    PROVE  Cut(Append(s, Head(t)), Tail(t), u, n)
<1>1. /\ Len(s) + Len(t) = n /\ Len(t) >= 1 /\ Head(t) = t[1] /\ Head(t) \in S
      /\ Tail(t) \in Seq(S) /\ Len(Tail(t)) = Len(t) - 1
  BY DEF Cut
<1>2. Len(Append(s, Head(t))) = Len(s) + 1
  BY <1>1
<1>3. ASSUME NEW i \in 1 .. Len(s) + 1 PROVE Append(s, Head(t))[i] = u[i]
  <2>1. CASE i = Len(s) + 1
    BY <1>1, <2>1 DEF Cut
  <2>2. CASE i \in 1 .. Len(s)
    BY <1>1, <2>2 DEF Cut
  <2>3. i = Len(s) + 1 \/ i \in 1 .. Len(s)
    OBVIOUS
  <2> QED
    BY <2>1, <2>2, <2>3
<1>4. ASSUME NEW i \in 1 .. Len(t) - 1 PROVE Tail(t)[i] = u[Len(s) + 1 + i]
  <2>1. Tail(t)[i] = t[i + 1]
    BY <1>1
  <2>2. i + 1 \in 1 .. Len(t) /\ Len(s) + (i + 1) = Len(s) + 1 + i
    OBVIOUS
  <2> QED
    BY <2>1, <2>2 DEF Cut
<1>5. Len(Append(s, Head(t))) + Len(Tail(t)) = n
  BY <1>1, <1>2
<1>6. \A i \in 1 .. Len(Append(s, Head(t))) : Append(s, Head(t))[i] = u[i]
  BY <1>2, <1>3
<1>7. \A i \in 1 .. Len(Tail(t)) : Tail(t)[i] = u[Len(Append(s, Head(t))) + i]
  BY <1>1, <1>2, <1>4
<1> QED
  BY <1>5, <1>6, <1>7 DEF Cut

\* Where the log of w is cut for follower f.
LEMMA LogIsCut ==
    ASSUME IInv, NEW w \in Worker, NEW f \in Follower
    PROVE  /\ wlog[w] \in Seq(Entry) /\ flog[w][f] \in Seq(Entry)
           /\ appendCh[w][f] \in Seq(Entry)
           /\ SentTo(w, f) \in 0 .. Len(wlog[w])
           /\ Cut(flog[w][f], appendCh[w][f], wlog[w], SentTo(w, f))
<1>1. /\ wlog[w] \in Seq(Entry) /\ flog[w][f] \in Seq(Entry)
      /\ appendCh[w][f] \in Seq(Entry)
  BY DEF IInv, TypeOK
<1> QED
  BY <1>1, PrefixByPosition DEF Cut

\* A step of worker w leaves the cuts of the other workers alone.
LEMMA OtherCuts ==
    ASSUME IInv, NEW w \in Worker, flush(w), NEW v \in Worker, v /= w, NEW f \in Follower
    PROVE  /\ wlog'[v] = wlog[v] /\ appendCh'[v] = appendCh[v] /\ flog'[v] = flog[v]
           /\ SentTo(v, f)' = SentTo(v, f)
<1>1. /\ wlog'[v] = wlog[v] /\ appendCh'[v] = appendCh[v] /\ flog'[v] = flog[v]
      /\ wpc'[v] = wpc[v] /\ dest'[v] = dest[v]
  BY DEF IInv, TypeOK, flush, addEntry, sendRPC, taskStore, followerVars
<1> QED
  BY <1>1 DEF SentTo

\* It is enough to look at the cuts.
LEMMA PrefixFromCuts ==
    ASSUME TypeOK',
           \A w \in Worker, f \in Follower :
              /\ SentTo(w, f)' \in 0 .. Len(wlog'[w])
              /\ Cut(flog'[w][f], appendCh'[w][f], wlog'[w], SentTo(w, f)')
    PROVE  FollowerLogIsPrefix'
<1>1. ASSUME NEW w \in Worker, NEW f \in Follower
      PROVE  flog'[w][f] \o appendCh'[w][f] = SubSeq(wlog'[w], 1, SentTo(w, f)')
  <2> DEFINE s == flog'[w][f]
             t == appendCh'[w][f]
             u == wlog'[w]
             n == SentTo(w, f)'
  <2>1. /\ s \in Seq(Entry) /\ t \in Seq(Entry) /\ u \in Seq(Entry) /\ n \in 0 .. Len(u)
        /\ Cut(s, t, u, n)
    BY DEF TypeOK
  <2> HIDE DEF s, t, u, n
  <2>2. s \o t = SubSeq(u, 1, n)
    BY ONLY <2>1, SplitPrefix
  <2> QED
    BY <2>2 DEF s, t, u, n
<1> QED
  BY <1>1 DEF FollowerLogIsPrefix

LEMMA PrefixKept ==
    ASSUME IInv, Next
    PROVE  FollowerLogIsPrefix'
<1> USE DEF IInv
<1> DEFINE CutAt(w, f) == /\ SentTo(w, f)' \in 0 .. Len(wlog'[w])
                          /\ Cut(flog'[w][f], appendCh'[w][f], wlog'[w], SentTo(w, f)')
<1>1. ASSUME NEW w \in Worker, NEW b \in Batch, getLogSequenceNumber(w, b),
             NEW v \in Worker, NEW f \in Follower
      PROVE  CutAt(v, f)
  <2>1. /\ UNCHANGED <<dest, wlog, appendCh, flog>>
        /\ wpc'[v] = "send" <=> wpc[v] = "send"
    BY <1>1 DEF getLogSequenceNumber, followerVars, TypeOK
  <2>2. SentTo(v, f)' = SentTo(v, f)
    BY <2>1 DEF SentTo
  <2> QED
    BY <2>1, <2>2, LogIsCut
<1>2. ASSUME NEW w \in Worker, addEntry(w), NEW f \in Follower PROVE CutAt(w, f)
  <2>1. /\ UNCHANGED <<appendCh, flog>> /\ dest'[w] = 1
        /\ wpc[w] = "append" /\ wpc'[w] = "send"
    BY <1>2 DEF addEntry, followerVars, TypeOK
  <2> DEFINE u == wlog[w]
  <2>2. /\ u \in Seq(Entry) /\ packet[w] \in Entry
        /\ wlog'[w] = Append(u, packet[w])
    BY <1>2, addEntryLsns
  <2>3. f \in Int /\ 1 <= f
    BY NFIsNat DEF Follower
  <2>4. SentTo(w, f) = Len(u)
    BY <2>1, <2>2 DEF SentTo
  <2>5. SentTo(w, f)' = Len(u)
    <3>1. SentTo(w, f)' = Len(wlog'[w]) - 1
      BY <2>1, <2>3 DEF SentTo
    <3> QED
      BY <2>2, <3>1
  <2>6. Cut(flog[w][f], appendCh[w][f], u, Len(u))
    BY <2>4, LogIsCut
  <2>7. Cut(flog[w][f], appendCh[w][f], Append(u, packet[w]), Len(u))
    BY <2>2, <2>6, CutGrows, LogIsCut
  <2> QED
    BY <2>1, <2>2, <2>5, <2>7
<1>3. ASSUME NEW w \in Worker, sendRPC(w), NEW f \in Follower PROVE CutAt(w, f)
  <2>1. /\ UNCHANGED <<wlog, flog>> /\ dest'[w] = dest[w] + 1
        /\ wpc[w] = "send" /\ wpc'[w] = IF dest[w] = NF THEN "store" ELSE "send"
        /\ wlog[w] /= <<>> /\ packet[w] = wlog[w][Len(wlog[w])]
        /\ dest[w] \in Follower
    BY <1>3 DEF sendRPC, followerVars, TypeOK, Flushing
  <2>2. f \in Int /\ 1 <= f /\ f <= NF /\ dest[w] \in Int /\ dest[w] <= NF
    BY <2>1, NFIsNat DEF Follower
  <2> DEFINE u == wlog[w]
             s == flog[w][f]
             t == appendCh[w][f]
             n == SentTo(w, f)
  <2>3. /\ s \in Seq(Entry) /\ t \in Seq(Entry) /\ u \in Seq(Entry) /\ u /= <<>>
        /\ n \in 0 .. Len(u) /\ Cut(s, t, u, n) /\ Len(u) \in Nat /\ Len(u) >= 1
    BY <2>1, LogIsCut
  <2>4. CASE f = dest[w]
    <3>1. n = Len(u) - 1
      <4>1. wpc[w] = "send" /\ dest[w] <= f
        BY <2>1, <2>2, <2>4
      <4> QED
        BY <4>1, Zenon DEF SentTo
    <3>2. SentTo(w, f)' = Len(u)
      <4>1. ~ (wpc'[w] = "send" /\ dest'[w] <= f)
        BY <2>1, <2>2, <2>4
      <4>2. SentTo(w, f)' = Len(u) - 0
        BY <2>1, <4>1, Zenon DEF SentTo
      <4> QED
        BY <2>3, <4>2
    <3>3. appendCh'[w][f] = Append(t, packet[w])
      BY <1>3, <2>4 DEF sendRPC, TypeOK
    <3> HIDE DEF s, t, u, n
    <3>4. n \in 0 .. Len(u) - 1 /\ n + 1 = Len(u)
      BY <2>3, <3>1
    <3>5. Cut(s, Append(t, u[Len(u)]), u, Len(u))
      BY <2>3, <3>4, CutSends
    <3> QED
      BY <2>1, <2>3, <3>2, <3>3, <3>5 DEF s, t, u
  <2>5. CASE f /= dest[w]
    <3>1. appendCh'[w][f] = t
      BY <1>3, <2>1, <2>5 DEF sendRPC, TypeOK
    <3>2. (wpc'[w] = "send" /\ dest'[w] <= f) <=> dest[w] <= f
      BY <2>1, <2>2, <2>5
    <3>3. SentTo(w, f)' = n
      BY <2>1, <3>2 DEF SentTo
    <3> QED
      BY <2>1, <2>3, <3>1, <3>3
  <2> QED
    BY <2>4, <2>5
<1>4. ASSUME NEW w \in Worker, taskStore(w), NEW f \in Follower PROVE CutAt(w, f)
  <2>1. /\ UNCHANGED <<dest, wlog, appendCh, flog>>
        /\ wpc[w] = "store" /\ wpc'[w] = "run"
    BY <1>4 DEF taskStore, followerVars, TypeOK
  <2>2. SentTo(w, f)' = SentTo(w, f)
    BY <2>1 DEF SentTo
  <2> QED
    BY <2>1, <2>2, LogIsCut
<1>5. ASSUME NEW w \in Worker, flush(w), NEW v \in Worker, NEW f \in Follower
      PROVE  CutAt(v, f)
  <2>1. CASE v = w
    BY <1>2, <1>3, <1>4, <1>5, <2>1 DEF flush
  <2>2. CASE v /= w
    BY <1>5, <2>2, OtherCuts, LogIsCut
  <2> QED
    BY <2>1, <2>2
<1>6. ASSUME NEW w \in Worker, NEW f \in Follower, followerAddEntry(w, f),
             NEW v \in Worker, NEW g \in Follower
      PROVE  CutAt(v, g)
  <2>1. wlog' = wlog /\ SentTo(v, g)' = SentTo(v, g)
    BY <1>6 DEF followerAddEntry, workerVars, SentTo
  <2>2. CASE v = w /\ g = f
    <3> DEFINE s == flog[w][f]
               t == appendCh[w][f]
               u == wlog[w]
               n == SentTo(w, f)
    <3>1. /\ t /= <<>> /\ flog'[w][f] = Append(s, Head(t)) /\ appendCh'[w][f] = Tail(t)
      BY <1>6 DEF followerAddEntry, TypeOK
    <3>2. /\ s \in Seq(Entry) /\ t \in Seq(Entry) /\ u \in Seq(Entry)
          /\ n \in 0 .. Len(u) /\ Cut(s, t, u, n)
      BY LogIsCut
    <3> HIDE DEF s, t, u, n
    <3>3. Cut(Append(s, Head(t)), Tail(t), u, n)
      BY <3>1, <3>2, CutWrites
    <3> QED
      BY <2>1, <2>2, <3>1, <3>2, <3>3 DEF u, n
  <2>3. CASE ~ (v = w /\ g = f)
    <3>1. flog'[v][g] = flog[v][g] /\ appendCh'[v][g] = appendCh[v][g]
      BY <1>6, <2>3 DEF followerAddEntry, TypeOK
    <3> QED
      BY <2>1, <3>1, LogIsCut
  <2> QED
    BY <2>2, <2>3
<1>7. ASSUME NEW w \in Worker, NEW f \in Follower, sendAck(w, f) \/ notifier(w, f),
             NEW v \in Worker, NEW g \in Follower
      PROVE  CutAt(v, g)
  <2>1. UNCHANGED <<wlog, wpc, dest, flog, appendCh>>
    BY <1>7 DEF sendAck, notifier, addVoteCount, TaskFound, TaskNotFound, commitNext,
                workerVars, followerVars
  <2>2. SentTo(v, g)' = SentTo(v, g)
    BY <2>1 DEF SentTo
  <2> QED
    BY <2>1, <2>2, LogIsCut
<1> HIDE DEF CutAt
<1>8. \A v \in Worker, f \in Follower : CutAt(v, f)
  BY <1>1, <1>5, <1>6, <1>7 DEF Next, logReceiver
<1> QED
  BY <1>8, TypeKept, PrefixFromCuts DEF CutAt

-----------------------------------------------------------------------------
(* The acknowledgements *)

\* The steps that leave the logReceivers and the acknowledgements alone
Aside(w) ==
    \/ \E b \in Batch : getLogSequenceNumber(w, b)
    \/ flush(w)
    \/ \E f \in Follower : TaskFound(w, f) \/ TaskNotFound(w, f) \/ commitNext(w, f)

LEMMA AsideFrame ==
    ASSUME NEW w \in Worker, Aside(w)
    PROVE  UNCHANGED <<fpc, flog, ackCh, votes>>
  BY DEF Aside, getLogSequenceNumber, flush, addEntry, sendRPC, taskStore, TaskFound,
         TaskNotFound, commitNext, followerVars, notifierVars

LEMMA AsideCounts ==
    ASSUME NEW w \in Worker, Aside(w), NEW v \in Worker, NEW g \in Follower
    PROVE  Counted(v, g)' = Counted(v, g)
  BY AsideFrame DEF Counted

LEMMA NextCases ==
    ASSUME Next
    PROVE  \/ \E w \in Worker : Aside(w)
           \/ \E w \in Worker, f \in Follower :
                 followerAddEntry(w, f) \/ sendAck(w, f) \/ addVoteCount(w, f)
  BY DEF Next, Aside, logReceiver, notifier

\* Writing an entry and acknowledging it do not change what is counted.
LEMMA followerAddEntryCounts ==
    ASSUME IInv, NEW w \in Worker, NEW f \in Follower, followerAddEntry(w, f)
    PROVE  /\ \A v \in Worker, g \in Follower : Counted(v, g)' = Counted(v, g)
           /\ \A v \in Worker, g \in Follower : ~ (v = w /\ g = f) => flog'[v][g] = flog[v][g]
           /\ flog[w][f] \in Seq(Entry) /\ Head(appendCh[w][f]) \in Entry
           /\ flog'[w][f] = Append(flog[w][f], Head(appendCh[w][f]))
           /\ fpc[w][f] = "recv" /\ fpc'[w][f] = "ack" /\ ackCh' = ackCh
<1>1. /\ \A v \in Worker, g \in Follower :
            ~ (v = w /\ g = f) => flog'[v][g] = flog[v][g] /\ fpc'[v][g] = fpc[v][g]
      /\ flog[w][f] \in Seq(Entry)
      /\ appendCh[w][f] \in Seq(Entry) /\ appendCh[w][f] /= <<>>
      /\ flog'[w][f] = Append(flog[w][f], Head(appendCh[w][f]))
      /\ fpc[w][f] = "recv" /\ fpc'[w][f] = "ack" /\ ackCh' = ackCh
  <2> DEFINE s == Append(flog[w][f], Head(appendCh[w][f]))
  <2>1. /\ flog \in [Worker -> [Follower -> Seq(Entry)]]
        /\ fpc \in [Worker -> [Follower -> {"recv", "ack"}]]
        /\ appendCh[w][f] \in Seq(Entry) /\ appendCh[w][f] /= <<>>
        /\ fpc[w][f] = "recv" /\ fpc' = [fpc EXCEPT ![w][f] = "ack"] /\ ackCh' = ackCh
        /\ flog' = [flog EXCEPT ![w][f] = Append(@, Head(appendCh[w][f]))]
    BY DEF IInv, TypeOK, followerAddEntry
  <2>2. flog' = [flog EXCEPT ![w][f] = s]
    BY <2>1
  <2> HIDE DEF s
  <2> QED
    BY <2>1, <2>2 DEF s
<1>2. Head(appendCh[w][f]) \in Entry
  BY <1>1
<1>3. Counted(w, f)' = Counted(w, f)
  <2>1. Len(flog'[w][f]) = Len(flog[w][f]) + 1
    BY <1>1, <1>2
  <2>2. Counted(w, f)' = Len(flog'[w][f]) - Len(ackCh[w][f]) - 1
    BY <1>1, Zenon DEF Counted
  <2>3. Counted(w, f) = Len(flog[w][f]) - Len(ackCh[w][f]) - 0
    <3>1. fpc[w][f] /= "ack"
      BY <1>1
    <3> QED
      BY <3>1, Zenon DEF Counted
  <2>4. Len(flog[w][f]) \in Nat /\ Len(ackCh[w][f]) \in Nat
    BY DEF IInv, TypeOK
  <2> DEFINE a == Len(flog[w][f])
             b == Len(ackCh[w][f])
             c == Len(flog'[w][f])
  <2> HIDE DEF a, b, c
  <2>5. a \in Nat /\ b \in Nat /\ c = a + 1
    BY <2>1, <2>4 DEF a, b, c
  <2>6. c - b - 1 = a - b - 0
    BY <2>5
  <2> QED
    BY <2>2, <2>3, <2>6 DEF a, b, c
<1>4. ASSUME NEW v \in Worker, NEW g \in Follower, ~ (v = w /\ g = f)
      PROVE  Counted(v, g)' = Counted(v, g)
  BY <1>1, <1>4 DEF Counted
<1> QED
  BY <1>1, <1>2, <1>3, <1>4

LEMMA sendAckCounts ==
    ASSUME IInv, NEW w \in Worker, NEW f \in Follower, sendAck(w, f)
    PROVE  /\ \A v \in Worker, g \in Follower : Counted(v, g)' = Counted(v, g)
           /\ \A v \in Worker, g \in Follower : ~ (v = w /\ g = f) => ackCh'[v][g] = ackCh[v][g]
           /\ ackCh'[w][f] = Append(ackCh[w][f], raeByFields(w, f))
           /\ flog' = flog /\ fpc[w][f] = "ack"
<1>1. /\ \A v \in Worker, g \in Follower :
            ~ (v = w /\ g = f) => ackCh'[v][g] = ackCh[v][g] /\ fpc'[v][g] = fpc[v][g]
      /\ ackCh[w][f] \in Seq(Lsn)
      /\ ackCh'[w][f] = Append(ackCh[w][f], raeByFields(w, f))
      /\ fpc[w][f] = "ack" /\ fpc'[w][f] = "recv" /\ flog' = flog
  <2> DEFINE n == raeByFields(w, f)
  <2>1. /\ ackCh \in [Worker -> [Follower -> Seq(Lsn)]]
        /\ fpc \in [Worker -> [Follower -> {"recv", "ack"}]]
        /\ fpc[w][f] = "ack" /\ fpc' = [fpc EXCEPT ![w][f] = "recv"] /\ flog' = flog
        /\ ackCh' = [ackCh EXCEPT ![w][f] = Append(@, n)]
    BY DEF IInv, TypeOK, sendAck
  <2> HIDE DEF n
  <2> QED
    BY <2>1 DEF n
<1>2. Counted(w, f)' = Counted(w, f)
  <2>1. Len(ackCh'[w][f]) = Len(ackCh[w][f]) + 1
    BY <1>1, AppendProperties
  <2>2. Counted(w, f) = Len(flog[w][f]) - Len(ackCh[w][f]) - 1
    BY <1>1, Zenon DEF Counted
  <2>3. Counted(w, f)' = Len(flog[w][f]) - Len(ackCh'[w][f]) - 0
    <3>1. fpc'[w][f] /= "ack"
      BY <1>1
    <3> QED
      BY <1>1, <3>1, Zenon DEF Counted
  <2>4. Len(flog[w][f]) \in Nat /\ Len(ackCh[w][f]) \in Nat
    BY DEF IInv, TypeOK
  <2> DEFINE a == Len(flog[w][f])
             b == Len(ackCh[w][f])
             c == Len(ackCh'[w][f])
  <2> HIDE DEF a, b, c
  <2>5. a \in Nat /\ b \in Nat /\ c = b + 1
    BY <2>1, <2>4 DEF a, b, c
  <2>6. a - c - 0 = a - b - 1
    BY <2>5
  <2> QED
    BY <2>2, <2>3, <2>6 DEF a, b, c
<1>3. ASSUME NEW v \in Worker, NEW g \in Follower, ~ (v = w /\ g = f)
      PROVE  Counted(v, g)' = Counted(v, g)
  BY <1>1, <1>3 DEF Counted
<1> QED
  BY <1>1, <1>2, <1>3

\* Counting a vote moves its own notifier by one and no other.
LEMMA addVoteCountCounts ==
    ASSUME IInv, NEW w \in Worker, NEW f \in Follower, addVoteCount(w, f)
    PROVE  /\ Counted(w, f)' = Counted(w, f) + 1
           /\ \A v \in Worker, g \in Follower :
                 ~ (v = w /\ g = f) =>
                     Counted(v, g)' = Counted(v, g) /\ ackCh'[v][g] = ackCh[v][g]
           /\ ackCh[w][f] \in Seq(Lsn) /\ ackCh[w][f] /= <<>>
           /\ ackCh'[w][f] = Tail(ackCh[w][f]) /\ flog' = flog
<1>1. /\ \A v \in Worker, g \in Follower :
            ~ (v = w /\ g = f) => ackCh'[v][g] = ackCh[v][g]
      /\ ackCh[w][f] \in Seq(Lsn) /\ ackCh[w][f] /= <<>>
      /\ ackCh'[w][f] = Tail(ackCh[w][f])
      /\ fpc' = fpc /\ flog' = flog
  BY DEF IInv, TypeOK, addVoteCount, followerVars
<1>2. Counted(w, f)' = Counted(w, f) + 1
  <2> DEFINE a == Len(flog[w][f])
             b == Len(ackCh[w][f])
             c == Len(ackCh'[w][f])
             d == IF fpc[w][f] = "ack" THEN 1 ELSE 0
  <2>1. a \in Nat /\ b \in Nat /\ c = b - 1
    BY <1>1 DEF IInv, TypeOK
  <2>2. d \in Nat
    OBVIOUS
  <2>3. Counted(w, f) = a - b - d /\ Counted(w, f)' = a - c - d
    BY <1>1, Zenon DEF Counted
  <2> HIDE DEF a, b, c, d
  <2> QED
    BY <2>1, <2>2, <2>3
<1>3. ASSUME NEW v \in Worker, NEW g \in Follower, ~ (v = w /\ g = f)
      PROVE  Counted(v, g)' = Counted(v, g)
  BY <1>1, <1>3 DEF Counted
<1> QED
  BY <1>1, <1>2, <1>3

LEMMA AcksAt ==
    ASSUME IInv, NEW w \in Worker, NEW f \in Follower
    PROVE  /\ ackCh[w][f] \in Seq(Lsn) /\ flog[w][f] \in Seq(Entry)
           /\ \A i \in 1 .. Len(ackCh[w][f]) :
                 ackCh[w][f][i] = flog[w][f][Counted(w, f) + i].lsn
<1>1. ackCh[w][f] \in Seq(Lsn) /\ flog[w][f] \in Seq(Entry)
  BY DEF IInv, TypeOK
<1>2. DOMAIN ackCh[w][f] = 1 .. Len(ackCh[w][f])
  BY <1>1
<1> QED
  BY <1>1, <1>2, Zenon DEF IInv, AcksInOrder

LEMMA AcksKept ==
    ASSUME IInv, Next
    PROVE  AcksInOrder'
<1> DEFINE Acks(v, g) == /\ Counted(v, g)' >= 0
                         /\ \A i \in DOMAIN ackCh'[v][g] :
                               ackCh'[v][g][i] = flog'[v][g][Counted(v, g)' + i].lsn
<1>1. ASSUME NEW v \in Worker, NEW g \in Follower, Counted(v, g)' = Counted(v, g),
             ackCh'[v][g] = ackCh[v][g], flog'[v][g] = flog[v][g]
      PROVE  Acks(v, g)
  BY <1>1, Zenon DEF IInv, AcksInOrder
<1>2. ASSUME NEW w \in Worker, Aside(w), NEW v \in Worker, NEW g \in Follower
      PROVE  Acks(v, g)
  BY <1>1, <1>2, AsideFrame, AsideCounts
<1>3. ASSUME NEW w \in Worker, NEW f \in Follower, followerAddEntry(w, f),
             NEW v \in Worker, NEW g \in Follower
      PROVE  Acks(v, g)
  <2>1. CASE ~ (v = w /\ g = f)
    BY <1>1, <1>3, <2>1, followerAddEntryCounts
  <2>2. CASE v = w /\ g = f
    <3> DEFINE log == flog[w][f]
               e == Head(appendCh[w][f])
               c == Counted(w, f)
               q == ackCh[w][f]
    <3>1. /\ log \in Seq(Entry) /\ e \in Entry /\ flog'[w][f] = Append(log, e)
          /\ Counted(w, f)' = c /\ ackCh'[w][f] = q
      BY <1>3, followerAddEntryCounts
    <3>2. /\ q \in Seq(Lsn) /\ c \in Nat /\ c + Len(q) <= Len(log)
          /\ \A i \in 1 .. Len(q) : q[i] = log[c + i].lsn
      BY CountedType, AcksAt
    <3> HIDE DEF log, e, c, q
    <3>3. \A i \in 1 .. Len(q) : c + i \in 1 .. Len(log)
      BY <3>1, <3>2
    <3>4. \A i \in 1 .. Len(q) : q[i] = Append(log, e)[c + i].lsn
      BY <3>1, <3>2, <3>3
    <3>5. DOMAIN q = 1 .. Len(q) /\ c >= 0
      BY <3>2
    <3> QED
      BY <2>2, <3>1, <3>4, <3>5
  <2> QED
    BY <2>1, <2>2
<1>4. ASSUME NEW w \in Worker, NEW f \in Follower, sendAck(w, f),
             NEW v \in Worker, NEW g \in Follower
      PROVE  Acks(v, g)
  <2>1. CASE ~ (v = w /\ g = f)
    BY <1>1, <1>4, <2>1, sendAckCounts
  <2>2. CASE v = w /\ g = f
    <3> DEFINE log == flog[w][f]
               c == Counted(w, f)
               q == ackCh[w][f]
    <3>1. /\ flog'[w][f] = log /\ Counted(w, f)' = c
          /\ ackCh'[w][f] = Append(q, log[Len(log)].lsn)
      BY <1>4, sendAckCounts DEF raeByFields
    <3>2. /\ q \in Seq(Lsn) /\ log \in Seq(Entry) /\ c \in Nat
          /\ c + Len(q) + 1 = Len(log)
          /\ \A i \in 1 .. Len(q) : q[i] = log[c + i].lsn
      BY <1>4, CountedType, sendAckCounts, AcksAt
    <3> HIDE DEF log, c, q
    <3>3. log[Len(log)] \in Entry
      BY <3>2
    <3>4. log[Len(log)].lsn \in Lsn
      BY <3>3, EntryType
    <3>5. \A i \in 1 .. Len(q) + 1 : Append(q, log[Len(log)].lsn)[i] = log[c + i].lsn
      <4>1. \A i \in 1 .. Len(q) : Append(q, log[Len(log)].lsn)[i] = log[c + i].lsn
        BY <3>2, <3>4
      <4>2. Append(q, log[Len(log)].lsn)[Len(q) + 1] = log[c + (Len(q) + 1)].lsn
        BY <3>2, <3>4
      <4>3. \A i \in 1 .. Len(q) + 1 : i \in 1 .. Len(q) \/ i = Len(q) + 1
        BY <3>2
      <4> QED
        BY <4>1, <4>2, <4>3, Zenon
    <3>6. DOMAIN Append(q, log[Len(log)].lsn) = 1 .. Len(q) + 1
      BY <3>2, <3>4
    <3> QED
      BY <2>2, <3>1, <3>2, <3>5, <3>6
  <2> QED
    BY <2>1, <2>2
<1>5. ASSUME NEW w \in Worker, NEW f \in Follower, addVoteCount(w, f),
             NEW v \in Worker, NEW g \in Follower
      PROVE  Acks(v, g)
  <2>1. CASE ~ (v = w /\ g = f)
    BY <1>1, <1>5, <2>1, addVoteCountCounts
  <2>2. CASE v = w /\ g = f
    <3> DEFINE log == flog[w][f]
               c == Counted(w, f)
               q == ackCh[w][f]
    <3>1. /\ flog'[w][f] = log /\ Counted(w, f)' = c + 1 /\ ackCh'[w][f] = Tail(q)
          /\ q \in Seq(Lsn) /\ q /= <<>>
      BY <1>5, addVoteCountCounts
    <3>2. c \in Nat /\ \A i \in 1 .. Len(q) : q[i] = log[c + i].lsn
      BY CountedType, AcksAt
    <3> HIDE DEF log, c, q
    <3>3. DOMAIN Tail(q) = 1 .. Len(q) - 1 /\ Len(q) \in Nat
      BY <3>1
    <3>4. ASSUME NEW i \in 1 .. Len(q) - 1 PROVE Tail(q)[i] = log[c + 1 + i].lsn
      <4>1. Tail(q)[i] = q[i + 1]
        BY <3>1
      <4>2. i + 1 \in 1 .. Len(q) /\ c + (i + 1) = c + 1 + i
        BY <3>2, <3>3
      <4> QED
        BY <3>2, <4>1, <4>2
    <3> QED
      BY <2>2, <3>1, <3>2, <3>3, <3>4
  <2> QED
    BY <2>1, <2>2
<1> HIDE DEF Acks
<1>6. \A v \in Worker, g \in Follower : Acks(v, g)
  BY <1>2, <1>3, <1>4, <1>5, NextCases
<1> QED
  BY <1>6 DEF AcksInOrder, Acks

-----------------------------------------------------------------------------
(* The votes *)

\* The worker's log grows by addEntry only.
LEMMA LogFrame ==
    ASSUME Next, ~ \E w \in Worker : addEntry(w)
    PROVE  wlog' = wlog
<1>1. ASSUME NEW w \in Worker, NEW b \in Batch, getLogSequenceNumber(w, b)
      PROVE  wlog' = wlog
  BY <1>1 DEF getLogSequenceNumber
<1>2. ASSUME NEW w \in Worker, sendRPC(w) \/ taskStore(w) PROVE wlog' = wlog
  BY <1>2 DEF sendRPC, taskStore
<1>3. ASSUME NEW w \in Worker, NEW f \in Follower, logReceiver(w, f) \/ notifier(w, f)
      PROVE  wlog' = wlog
  BY <1>3, OtherThreads DEF workerVars
<1> QED
  BY <1>1, <1>2, <1>3 DEF Next, flush

LEMMA SameVotes ==
    ASSUME IInv, wlog' = wlog, votes' = votes,
           \A v \in Worker, g \in Follower : Counted(v, g)' = Counted(v, g)
    PROVE  VotesByCount'
<1>1. ASSUME NEW v \in Worker, NEW i PROVE Voters(v, i)' = Voters(v, i)
  BY DEF Voters
<1> QED
  BY <1>1, Zenon DEF IInv, VotesByCount

\* Nobody has counted past the end of the log.
LEMMA NoVotersBeyond ==
    ASSUME IInv, NEW w \in Worker
    PROVE  Voters(w, Len(wlog[w]) + 1) = {}
<1>1. Len(wlog[w]) \in Nat
  BY DEF IInv, TypeOK
<1>2. ASSUME NEW f \in Follower PROVE ~ (Len(wlog[w]) + 1 <= Counted(w, f))
  <2> DEFINE a == Len(wlog[w])
             b == Len(flog[w][f])
             c == Counted(w, f)
             d == Len(ackCh[w][f])
  <2>1. a \in Nat /\ b <= a /\ c + d <= b /\ c \in Nat /\ b \in Nat /\ d \in Nat
    <3>1. b \in Nat /\ d \in Nat
      BY DEF IInv, TypeOK
    <3> QED
      BY <1>1, <3>1, CountedType
  <2> HIDE DEF a, b, c, d
  <2>2. ~ (a + 1 <= c)
    BY <2>1
  <2> QED
    BY <2>2 DEF a, c
<1> QED
  BY <1>2 DEF Voters

LEMMA VotesKept ==
    ASSUME IInv, Next
    PROVE  VotesByCount'
<1>1. ASSUME NEW w \in Worker, addEntry(w) PROVE VotesByCount'
  <2>1. Aside(w) /\ votes' = votes
    BY <1>1, AsideFrame DEF Aside, flush
  <2>2. \A v \in Worker : \A i : Voters(v, i)' = Voters(v, i)
    BY <2>1, AsideCounts DEF Voters
  <2>3. /\ \A v \in Worker \ {w} : wlog'[v] = wlog[v]
        /\ LsnsOf(wlog'[w]) = LsnsOf(wlog[w]) \cup {packet[w].lsn}
    BY <1>1, addEntryLsns
  <2>4. ASSUME NEW v \in Worker, NEW i \in DOMAIN wlog'[v]
        PROVE  votes'[wlog'[v][i].lsn] = Cardinality(Voters(v, i)')
    <3>1. CASE v /= w
      BY <2>1, <2>2, <2>3, <3>1 DEF IInv, VotesByCount
    <3>2. CASE v = w
      <4> DEFINE log == wlog[w]
                 e == packet[w]
      <4>1. /\ log \in Seq(Entry) /\ e \in Entry /\ wlog'[w] = Append(log, e)
        BY <1>1, addEntryLsns
      <4>2. CASE i \in DOMAIN log
        <5>1. wlog'[w][i] = log[i]
          BY <4>1, <4>2
        <5> QED
          BY <2>1, <2>2, <3>2, <4>2, <5>1 DEF IInv, VotesByCount
      <4>3. CASE i = Len(log) + 1
        <5>1. wlog'[w][i] = e
          BY <4>1, <4>3
        <5>2. \A u \in Worker : e.lsn \notin LsnsOf(wlog[u])
          <6>1. e.lsn \notin LsnsOf(wlog[w])
            <7>1. e.lsn \in Lsn /\ \A n \in LsnsOf(wlog[w]) : n < e.lsn
              BY <1>1, <4>1, EntryType DEF addEntry, IInv, Flushing
            <7> QED
              BY <7>1, LsnType
          <6>2. \A u \in Worker \ {w} : e.lsn \notin LsnsOf(wlog[u])
            BY <1>1 DEF addEntry, IInv, Flushing
          <6> QED
            BY <6>1, <6>2
        <5>3. votes[e.lsn] = 0
          BY <4>1, <5>2, EntryType DEF IInv, VotesByCount
        <5>4. Cardinality(Voters(w, i)) = 0
          BY <4>3, NoVotersBeyond, FS_EmptySet
        <5> QED
          BY <2>1, <2>2, <3>2, <5>1, <5>3, <5>4
      <4>4. i \in DOMAIN log \/ i = Len(log) + 1
        <5> HIDE DEF log, e
        <5>1. i \in 1 .. Len(log) + 1
          BY <3>2, <4>1
        <5> QED
          BY <4>1, <5>1
      <4> QED
        BY <4>2, <4>3, <4>4
    <3> QED
      BY <3>1, <3>2
  <2>5. ASSUME NEW n \in Lsn, \A v \in Worker : n \notin LsnsOf(wlog'[v])
        PROVE  votes'[n] = 0
    <3>1. \A v \in Worker : n \notin LsnsOf(wlog[v])
      BY <2>3, <2>5
    <3> QED
      BY <2>1, <3>1 DEF IInv, VotesByCount
  <2> QED
    BY <2>4, <2>5 DEF VotesByCount
<1>2. ASSUME NEW w \in Worker, Aside(w), ~ \E v \in Worker : addEntry(v) PROVE VotesByCount'
  BY <1>2, LogFrame, AsideFrame, AsideCounts, SameVotes
<1>3. ASSUME NEW w \in Worker, NEW f \in Follower, followerAddEntry(w, f)
      PROVE  VotesByCount'
  BY <1>3, followerAddEntryCounts, SameVotes
     DEF followerAddEntry, workerVars, notifierVars
<1>4. ASSUME NEW w \in Worker, NEW f \in Follower, sendAck(w, f)
      PROVE  VotesByCount'
  BY <1>4, sendAckCounts, SameVotes DEF sendAck, workerVars, notifierVars
<1>5. ASSUME NEW w \in Worker, NEW f \in Follower, addVoteCount(w, f)
      PROVE  VotesByCount'
  <2> DEFINE n == Head(ackCh[w][f])
  <2>0. PICK k : k \in Nat /\ k = Counted(w, f) + 1
    BY CountedType
  <2>1. /\ wlog' = wlog /\ votes' = [votes EXCEPT ![n] = @ + 1]
        /\ ackCh[w][f] /= <<>> /\ ackCh[w][f] \in Seq(Lsn)
    BY <1>5 DEF addVoteCount, workerVars, IInv, TypeOK
  <2>2. /\ k \in DOMAIN wlog[w] /\ n = wlog[w][k].lsn /\ n \in LsnsOf(wlog[w])
        /\ f \notin Voters(w, k)
    BY <2>0, <2>1, NextAck
  <2>3. n \in Lsn /\ votes'[n] = votes[n] + 1 /\ \A m \in Lsn \ {n} : votes'[m] = votes[m]
    <3>1. n \in Lsn
      BY <2>1
    <3> HIDE DEF n
    <3> QED
      BY <2>1, <3>1 DEF IInv, TypeOK
  <2>4. /\ Counted(w, f)' = Counted(w, f) + 1 /\ Counted(w, f) \in Nat
        /\ \A v \in Worker, g \in Follower :
              ~ (v = w /\ g = f) => Counted(v, g)' = Counted(v, g)
    BY <1>5, addVoteCountCounts, CountedType
  <2> HIDE DEF n
  <2>5. ASSUME NEW v \in Worker, NEW i \in DOMAIN wlog[v]
        PROVE  votes'[wlog[v][i].lsn] = Cardinality(Voters(v, i)')
    <3>1. wlog[v][i].lsn \in Lsn /\ i \in Int /\ k \in Int
      <4>1. wlog[v] \in Seq(Entry)
        BY DEF IInv, TypeOK
      <4>2. wlog[v][i] \in Entry /\ i \in Int
        BY <4>1
      <4> QED
        BY <2>0, <4>2, EntryType
    <3>2. votes[wlog[v][i].lsn] = Cardinality(Voters(v, i))
      BY DEF IInv, VotesByCount
    <3>3. CASE v = w /\ i = k
      <4>1. Voters(w, k)' = Voters(w, k) \cup {f}
        <5>1. k <= Counted(w, f)'
          BY <2>0, <2>4
        <5>2. \A g \in Follower \ {f} : Counted(w, g)' = Counted(w, g)
          BY <2>4
        <5> QED
          BY <5>1, <5>2 DEF Voters
      <4>2. Cardinality(Voters(w, k) \cup {f}) = Cardinality(Voters(w, k)) + 1
        BY <2>2, FollowerSubset DEF Voters
      <4> QED
        BY <2>2, <2>3, <3>2, <3>3, <4>1, <4>2
    <3>4. CASE ~ (v = w /\ i = k)
      <4>1. Voters(v, i)' = Voters(v, i)
        <5>1. CASE v /= w
          BY <2>4, <5>1 DEF Voters
        <5>2. CASE v = w /\ i /= k
          <6>1. i <= Counted(w, f) + 1 <=> i <= Counted(w, f)
            BY <2>0, <2>4, <3>1, <5>2
          <6> QED
            BY <2>4, <5>2, <6>1 DEF Voters
        <5> QED
          BY <3>4, <5>1, <5>2
      <4>2. wlog[v][i].lsn /= n
        <5>1. CASE v /= w
          BY <2>2, <5>1 DEF IInv, LsnOrder, LsnsOf
        <5>2. CASE v = w /\ i /= k
          BY <2>2, <5>2, OneEntryPerLsn
        <5> QED
          BY <3>4, <5>1, <5>2
      <4> QED
        BY <2>3, <3>1, <3>2, <4>1, <4>2
    <3> QED
      BY <3>3, <3>4
  <2>6. ASSUME NEW m \in Lsn, \A v \in Worker : m \notin LsnsOf(wlog[v])
        PROVE  votes'[m] = 0
    BY <2>2, <2>3, <2>6 DEF IInv, VotesByCount
  <2> QED
    BY <2>1, <2>5, <2>6 DEF VotesByCount
<1> QED
  BY <1>1, <1>2, <1>3, <1>4, <1>5, NextCases

-----------------------------------------------------------------------------
(* The tasks *)

\* All steps but the end of a flush leave open what is being flushed: an entry
\* that has just been written is in its worker's hands.
LEMMA StoredSame ==
    ASSUME IInv, Next, ~ \E w \in Worker : taskStore(w), NEW v \in Worker, NEW n
    PROVE  Stored(v, n)' <=> Stored(v, n)
<1> USE DEF IInv
<1>1. ASSUME NEW w \in Worker, NEW b \in Batch, getLogSequenceNumber(w, b)
      PROVE  Stored(v, n)' <=> Stored(v, n)
  <2>1. wlog' = wlog /\ wpc[w] = "run" /\ wpc'[w] = "append"
    BY <1>1 DEF getLogSequenceNumber, TypeOK
  <2>2. v /= w => wpc'[v] = wpc[v] /\ packet'[v] = packet[v]
    BY <1>1 DEF getLogSequenceNumber, TypeOK
  <2> QED
    BY <2>1, <2>2 DEF Stored
<1>2. ASSUME NEW w \in Worker, addEntry(w) PROVE Stored(v, n)' <=> Stored(v, n)
  <2>1. /\ packet' = packet /\ wpc[w] = "append" /\ wpc'[w] = "send"
        /\ \A u \in Worker \ {w} : wlog'[u] = wlog[u] /\ wpc'[u] = wpc[u]
        /\ LsnsOf(wlog'[w]) = LsnsOf(wlog[w]) \cup {packet[w].lsn}
    BY <1>2, addEntryLsns DEF addEntry, TypeOK
  <2>2. packet[w].lsn \notin LsnsOf(wlog[w])
    <3>1. packet[w].lsn \in Lsn /\ \A m \in LsnsOf(wlog[w]) : m < packet[w].lsn
      BY <2>1, EntryType DEF Flushing
    <3> QED
      BY <3>1, LsnType
  <2>3. CASE v = w
    BY <2>1, <2>2, <2>3 DEF Stored
  <2>4. CASE v /= w
    BY <2>1, <2>4 DEF Stored
  <2> QED
    BY <2>3, <2>4
<1>3. ASSUME NEW w \in Worker, sendRPC(w) PROVE Stored(v, n)' <=> Stored(v, n)
  <2>1. /\ packet' = packet /\ wlog' = wlog /\ wpc[w] = "send"
        /\ wpc'[w] \in {"send", "store"}
        /\ \A u \in Worker \ {w} : wpc'[u] = wpc[u]
    BY <1>3 DEF sendRPC, TypeOK
  <2> QED
    BY <2>1 DEF Stored
<1>4. ASSUME NEW w \in Worker, NEW f \in Follower, logReceiver(w, f) \/ notifier(w, f)
      PROVE  Stored(v, n)' <=> Stored(v, n)
  BY <1>4, OtherThreads DEF Stored, workerVars
<1> QED
  BY <1>1, <1>2, <1>3, <1>4 DEF Next, flush

\* The end of a flush: the batch, written before, gets out of the worker's
\* hands and into the task list.
LEMMA taskStoreStores ==
    ASSUME IInv, NEW w \in Worker, taskStore(w)
    PROVE  /\ packet[w].lsn \in LsnsOf(wlog[w]) /\ ~ Stored(w, packet[w].lsn)
           /\ \E i \in DOMAIN wlog[w] : packet[w] = wlog[w][i]
           /\ \A n : Stored(w, n)' <=> Stored(w, n) \/ n = packet[w].lsn
           /\ \A v \in Worker \ {w} : \A n : Stored(v, n)' <=> Stored(v, n)
           /\ taskList'[w] = taskList[w] \cup {packet[w]}
           /\ \A v \in Worker \ {w} : taskList'[v] = taskList[v]
           /\ wlog' = wlog
<1>1. /\ wpc[w] = "store" /\ wpc'[w] = "run" /\ wlog' = wlog /\ packet' = packet
      /\ \A v \in Worker \ {w} : wpc'[v] = wpc[v]
      /\ taskList'[w] = taskList[w] \cup {packet[w]}
      /\ \A v \in Worker \ {w} : taskList'[v] = taskList[v]
  BY DEF taskStore, IInv, TypeOK
<1>2. \E i \in DOMAIN wlog[w] : packet[w] = wlog[w][i]
  <2>1. wlog[w] \in Seq(Entry) /\ wlog[w] /= <<>> /\ packet[w] = wlog[w][Len(wlog[w])]
    BY <1>1 DEF IInv, TypeOK, Flushing
  <2>2. Len(wlog[w]) \in DOMAIN wlog[w]
    BY <2>1
  <2> QED
    BY <2>1, <2>2
<1>3. packet[w].lsn \in LsnsOf(wlog[w])
  BY <1>2 DEF LsnsOf
<1>4. \A n : Stored(w, n)' <=> n \in LsnsOf(wlog[w])
  BY <1>1 DEF Stored
<1>5. \A n : Stored(w, n) <=> n \in LsnsOf(wlog[w]) /\ packet[w].lsn /= n
  BY <1>1 DEF Stored
<1>6. \A v \in Worker \ {w} : \A n : Stored(v, n)' <=> Stored(v, n)
  BY <1>1 DEF Stored
<1> QED
  BY <1>1, <1>2, <1>3, <1>4, <1>5, <1>6

\* The task a notifier takes is the only one of its number, so none is left;
\* and the batch was not loaded before.
LEMMA TaskFoundTakes ==
    ASSUME IInv, NEW w \in Worker, NEW f \in Follower, TaskFound(w, f)
    PROVE  /\ ~ Loaded(w, ack[w][f]) /\ Loaded(w, ack[w][f])'
           /\ \A v \in Worker : \A n : ~ (v = w /\ n = ack[w][f]) =>
                 (Loaded(v, n)' <=> Loaded(v, n))
           /\ \A v \in Worker : taskList'[v] \subseteq taskList[v]
           /\ wlog' = wlog /\ ack' = ack /\ votes' = votes
<1>1. PICK t \in TasksFor(w, ack[w][f]) :
         /\ taskList' = [taskList EXCEPT ![w] = @ \ {t}]
         /\ todo' = [todo EXCEPT ![w][f] = t.xacts]
  BY DEF TaskFound
<1>2. t \in taskList[w] /\ t.lsn = ack[w][f]
  BY <1>1 DEF TasksFor
<1>3. /\ taskList'[w] = taskList[w] \ {t}
      /\ \A v \in Worker \ {w} : taskList'[v] = taskList[v]
  BY <1>1 DEF IInv, TypeOK
<1>4. /\ wlog' = wlog /\ wpc' = wpc /\ packet' = packet /\ ack' = ack /\ votes' = votes
  BY DEF TaskFound, workerVars
<1>5. \A v \in Worker : \A n : Stored(v, n)' <=> Stored(v, n)
  BY <1>4 DEF Stored
<1>6. ASSUME NEW s \in taskList[w], s.lsn = t.lsn PROVE s = t
  <2>1. PICK i \in DOMAIN wlog[w] : s = wlog[w][i]
    BY DEF IInv, TasksStored
  <2>2. PICK j \in DOMAIN wlog[w] : t = wlog[w][j]
    BY <1>2 DEF IInv, TasksStored
  <2> QED
    BY <1>6, <2>1, <2>2, OneEntryPerLsn
<1>7. TasksFor(w, ack[w][f])' = {}
  BY <1>2, <1>3, <1>4, <1>6 DEF TasksFor
<1>8. Stored(w, ack[w][f])
  BY <1>2 DEF IInv, TasksStored
<1>9. ASSUME NEW v \in Worker, NEW n, ~ (v = w /\ n = ack[w][f])
      PROVE  TasksFor(v, n)' = TasksFor(v, n)
  BY <1>2, <1>3, <1>9 DEF TasksFor
<1>10. ~ Loaded(w, ack[w][f])
  BY <1>1 DEF Loaded
<1>11. Loaded(w, ack[w][f])'
  BY <1>4, <1>5, <1>7, <1>8 DEF Loaded
<1>12. \A v \in Worker : \A n : ~ (v = w /\ n = ack[w][f]) => (Loaded(v, n)' <=> Loaded(v, n))
  BY <1>5, <1>9, Zenon DEF Loaded
<1> QED
  BY <1>3, <1>4, <1>10, <1>11, <1>12

LEMMA TaskListFrame ==
    ASSUME Next, ~ \E w \in Worker : taskStore(w),
           ~ \E w \in Worker, f \in Follower : TaskFound(w, f)
    PROVE  taskList' = taskList
<1>1. ASSUME NEW w \in Worker, NEW b \in Batch, getLogSequenceNumber(w, b)
      PROVE  taskList' = taskList
  BY <1>1 DEF getLogSequenceNumber
<1>2. ASSUME NEW w \in Worker, addEntry(w) \/ sendRPC(w) PROVE taskList' = taskList
  BY <1>2 DEF addEntry, sendRPC
<1>3. ASSUME NEW w \in Worker, NEW f \in Follower, logReceiver(w, f) PROVE taskList' = taskList
  BY <1>3 DEF logReceiver, followerAddEntry, sendAck
<1>4. ASSUME NEW w \in Worker, NEW f \in Follower, notifier(w, f) PROVE taskList' = taskList
  BY <1>4 DEF notifier, addVoteCount, TaskNotFound, commitNext
<1> QED
  BY <1>1, <1>2, <1>3, <1>4 DEF Next, flush

\* No other step changes what is loaded.
LEMMA LoadedSame ==
    ASSUME IInv, Next, ~ \E w \in Worker, f \in Follower : TaskFound(w, f),
           NEW v \in Worker, NEW n
    PROVE  Loaded(v, n)' <=> Loaded(v, n)
<1>1. ASSUME NEW w \in Worker, taskStore(w) PROVE Loaded(v, n)' <=> Loaded(v, n)
  <2>1. CASE v = w /\ n = packet[w].lsn
    <3>1. packet[w] \in TasksFor(v, n)'
      BY <1>1, <2>1, taskStoreStores DEF TasksFor
    <3> QED
      BY <1>1, <2>1, <3>1, taskStoreStores DEF Loaded
  <2>2. CASE ~ (v = w /\ n = packet[w].lsn)
    <3>1. TasksFor(v, n)' = TasksFor(v, n)
      BY <1>1, <2>2, taskStoreStores DEF TasksFor
    <3>2. Stored(v, n)' <=> Stored(v, n)
      BY <1>1, <2>2, taskStoreStores
    <3> QED
      BY <3>1, <3>2 DEF Loaded
  <2> QED
    BY <2>1, <2>2
<1>2. CASE ~ \E w \in Worker : taskStore(w)
  <2>1. taskList' = taskList
    BY <1>2, TaskListFrame
  <2> QED
    BY <1>2, <2>1, StoredSame DEF Loaded, TasksFor
<1> QED
  BY <1>1, <1>2

\* What a log holds it keeps.
LEMMA LogsGrow ==
    ASSUME IInv, Next, NEW v \in Worker
    PROVE  /\ LsnsOf(wlog[v]) \subseteq LsnsOf(wlog'[v])
           /\ \A i \in DOMAIN wlog[v] : i \in DOMAIN wlog'[v] /\ wlog'[v][i] = wlog[v][i]
<1>1. ASSUME NEW w \in Worker, addEntry(w), v = w
      PROVE  \A i \in DOMAIN wlog[v] : i \in DOMAIN wlog'[v] /\ wlog'[v][i] = wlog[v][i]
  <2> DEFINE log == wlog[w]
             e == packet[w]
  <2>1. log \in Seq(Entry) /\ e \in Entry /\ wlog'[w] = Append(log, e)
    BY <1>1, addEntryLsns
  <2> HIDE DEF log, e
  <2>2. \A i \in DOMAIN log : i \in DOMAIN Append(log, e) /\ Append(log, e)[i] = log[i]
    BY <2>1
  <2> QED
    BY <1>1, <2>1, <2>2 DEF log
<1>2. ASSUME NEW w \in Worker, addEntry(w), v /= w PROVE wlog'[v] = wlog[v]
  BY <1>2, addEntryLsns
<1>3. \A i \in DOMAIN wlog[v] : i \in DOMAIN wlog'[v] /\ wlog'[v][i] = wlog[v][i]
  BY <1>1, <1>2, LogFrame
<1> QED
  BY <1>3 DEF LsnsOf

LEMMA TasksKept ==
    ASSUME IInv, Next
    PROVE  TasksStored'
<1>1. ASSUME NEW v \in Worker, NEW t \in taskList[v]
      PROVE  Stored(v, t.lsn) /\ \E i \in DOMAIN wlog'[v] : t = wlog'[v][i]
  BY LogsGrow DEF IInv, TasksStored
<1>2. ASSUME NEW w \in Worker, taskStore(w) PROVE TasksStored'
  <2>1. ASSUME NEW v \in Worker, NEW t \in taskList'[v]
        PROVE  Stored(v, t.lsn)' /\ \E i \in DOMAIN wlog'[v] : t = wlog'[v][i]
    <3>1. CASE v = w /\ t = packet[w]
      BY <1>2, <3>1, taskStoreStores
    <3>2. CASE ~ (v = w /\ t = packet[w])
      <4>1. t \in taskList[v]
        BY <1>2, <3>2, taskStoreStores
      <4>2. Stored(v, t.lsn) => Stored(v, t.lsn)'
        BY <1>2, taskStoreStores
      <4> QED
        BY <1>1, <4>1, <4>2
    <3> QED
      BY <3>1, <3>2
  <2> QED
    BY <2>1 DEF TasksStored
<1>3. CASE ~ \E w \in Worker : taskStore(w)
  <2>1. \A v \in Worker : taskList'[v] \subseteq taskList[v]
    BY <1>3, TaskFoundTakes, TaskListFrame
  <2>2. \A v \in Worker : \A t \in taskList[v] : Stored(v, t.lsn)'
    BY <1>1, <1>3, StoredSame
  <2> QED
    BY <1>1, <2>1, <2>2 DEF TasksStored
<1> QED
  BY <1>2, <1>3

\* Votes are never taken back.
LEMMA MajorityKept ==
    ASSUME IInv, Next, NEW n \in Lsn, Majority(n)
    PROVE  Majority(n)'
<1>1. votes \in [Lsn -> 0 .. NF] /\ clusterSize \div 2 \in Nat
  BY NFIsNat DEF IInv, TypeOK, clusterSize
<1>2. ASSUME NEW w \in Worker, NEW f \in Follower, addVoteCount(w, f)
      PROVE  votes'[n] = votes[n] \/ votes'[n] = votes[n] + 1
  <2> DEFINE m == Head(ackCh[w][f])
  <2>1. votes' = [votes EXCEPT ![m] = @ + 1]
    BY <1>2 DEF addVoteCount
  <2> HIDE DEF m
  <2> QED
    BY <1>1, <2>1
<1>3. ASSUME ~ \E w \in Worker, f \in Follower : addVoteCount(w, f)
      PROVE  votes'[n] = votes[n]
  BY <1>3, NextCases, AsideFrame DEF followerAddEntry, sendAck, notifierVars
<1>4. votes'[n] = votes[n] \/ votes'[n] = votes[n] + 1
  BY <1>2, <1>3
<1> DEFINE m == votes[n]
           q == clusterSize \div 2
<1>5. m \in Nat /\ q \in Nat /\ m > q
  BY <1>1, NFIsNat DEF Majority
<1> HIDE DEF m, q
<1>6. m + 1 > q
  BY <1>5
<1> QED
  BY <1>4, <1>5, <1>6 DEF Majority, m, q, clusterSize

\* A notifier moves by its own steps.
LEMMA NotifierFrame ==
    ASSUME IInv, Next, NEW v \in Worker, NEW g \in Follower, ~ notifier(v, g)
    PROVE  /\ npc'[v][g] = npc[v][g] /\ ack'[v][g] = ack[v][g]
           /\ todo'[v][g] = todo[v][g]
<1>1. ASSUME NEW w \in Worker, NEW f \in Follower, notifier(w, f)
      PROVE  /\ npc'[v][g] = npc[v][g] /\ ack'[v][g] = ack[v][g]
             /\ todo'[v][g] = todo[v][g]
  <2>1. ~ (v = w /\ g = f)
    BY <1>1
  <2>2. CASE addVoteCount(w, f)
    <3> DEFINE n == Head(ackCh[w][f])
               p == IF votes[n] + 1 > clusterSize \div 2 THEN "load" ELSE "recv"
    <3>1. /\ npc' = [npc EXCEPT ![w][f] = p] /\ ack' = [ack EXCEPT ![w][f] = n]
          /\ todo' = todo
      BY <2>2 DEF addVoteCount
    <3> HIDE DEF n, p
    <3> QED
      BY <2>1, <3>1 DEF IInv, TypeOK
  <2>3. CASE TaskFound(w, f)
    <3>1. PICK t \in TasksFor(w, ack[w][f]) : todo' = [todo EXCEPT ![w][f] = t.xacts]
      BY <2>3 DEF TaskFound
    <3>2. npc' = [npc EXCEPT ![w][f] = "commit"] /\ ack' = ack
      BY <2>3 DEF TaskFound
    <3> QED
      BY <2>1, <3>1, <3>2 DEF IInv, TypeOK
  <2>4. CASE TaskNotFound(w, f)
    BY <2>1, <2>4 DEF TaskNotFound, IInv, TypeOK
  <2>5. CASE commitNext(w, f)
    BY <2>1, <2>5 DEF commitNext, IInv, TypeOK
  <2> QED
    BY <1>1, <2>2, <2>3, <2>4, <2>5 DEF notifier
<1>2. CASE ~ \E w \in Worker, f \in Follower : notifier(w, f)
  BY <1>2 DEF Next, getLogSequenceNumber, flush, addEntry, sendRPC, taskStore, logReceiver,
              followerAddEntry, sendAck, notifierVars
<1> QED
  BY <1>1, <1>2

\* A notifier that goes on to look for a task has just counted the vote that
\* makes a majority, for an entry of its worker's log.
LEMMA LoadsKept ==
    ASSUME IInv, Next, NEW v \in Worker, NEW g \in Follower, npc'[v][g] = "load"
    PROVE  ack'[v][g] \in LsnsOf(wlog'[v]) /\ Majority(ack[v][g])'
<1>1. CASE npc[v][g] = "load" /\ ack'[v][g] = ack[v][g]
  <2>1. PICK n : n = ack[v][g]
    OBVIOUS
  <2>2. n \in LsnsOf(wlog[v]) /\ Majority(n)
    BY <1>1, <2>1 DEF IInv, Notifying
  <2>3. n \in Lsn
    BY <2>2, OldNumbers
  <2>4. Majority(n)' /\ n \in LsnsOf(wlog'[v])
    BY <2>2, <2>3, MajorityKept, LogsGrow
  <2> QED
    BY <1>1, <2>1, <2>4 DEF Majority
<1>2. CASE addVoteCount(v, g)
  <2> DEFINE n == Head(ackCh[v][g])
  <2>1. /\ npc' = [npc EXCEPT ![v][g] =
                      IF votes[n] + 1 > clusterSize \div 2 THEN "load" ELSE "recv"]
        /\ votes' = [votes EXCEPT ![n] = @ + 1]
        /\ ack' = [ack EXCEPT ![v][g] = n] /\ wlog' = wlog
        /\ ackCh[v][g] /= <<>>
    BY <1>2 DEF addVoteCount, workerVars
  <2>2. n \in LsnsOf(wlog[v])
    BY <2>1, NextAck
  <2>3. n \in Lsn
    BY <2>2, OldNumbers
  <2> HIDE DEF n
  <2>4. votes[n] + 1 > clusterSize \div 2
    BY <2>1 DEF IInv, TypeOK
  <2>5. votes'[n] = votes[n] + 1 /\ ack'[v][g] = n
    BY <2>1, <2>3 DEF IInv, TypeOK
  <2> QED
    BY <2>1, <2>2, <2>4, <2>5 DEF Majority, clusterSize
<1>3. CASE notifier(v, g) /\ ~ addVoteCount(v, g)
  BY <1>3 DEF notifier, TaskFound, TaskNotFound, commitNext, IInv, TypeOK
<1> QED
  BY <1>1, <1>2, <1>3, NotifierFrame

LEMMA TodoKept ==
    ASSUME IInv, Next, NEW v \in Worker, NEW g \in Follower, npc'[v][g] = "commit"
    PROVE  todo'[v][g] /= <<>>
<1>1. CASE ~ notifier(v, g)
  BY <1>1, NotifierFrame DEF IInv, Notifying
<1>2. CASE addVoteCount(v, g)
  BY <1>2 DEF addVoteCount, IInv, TypeOK
<1>3. CASE TaskFound(v, g)
  <2>1. PICK t \in TasksFor(v, ack[v][g]) : todo' = [todo EXCEPT ![v][g] = t.xacts]
    BY <1>3 DEF TaskFound
  <2>2. t \in Entry
    BY <2>1 DEF TasksFor, IInv, TypeOK
  <2>3. t.xacts /= <<>>
    BY <2>2, EntryType, BatchType
  <2> QED
    BY <2>1, <2>3 DEF IInv, TypeOK
<1>4. CASE TaskNotFound(v, g)
  BY <1>4 DEF TaskNotFound, IInv, TypeOK
<1>5. CASE commitNext(v, g)
  <2> DEFINE s == todo[v][g]
  <2>1. s \in Seq(Xact) /\ s /= <<>> /\ Len(s) /= 1 /\ todo'[v][g] = Tail(s)
    BY <1>5 DEF commitNext, IInv, TypeOK, Notifying
  <2> HIDE DEF s
  <2>2. Tail(s) \in Seq(Xact) /\ Len(Tail(s)) = Len(s) - 1
    BY <2>1, HeadTailProperties
  <2>3. Len(s) \in Nat /\ Len(s) /= 0
    BY <2>1, EmptySeq, LenProperties
  <2>4. Len(Tail(s)) /= 0
    BY <2>1, <2>2, <2>3
  <2>5. Tail(s) /= <<>>
    BY <2>4, EmptySeq
  <2> QED
    BY <2>1, <2>5
<1> QED
  BY <1>1, <1>2, <1>3, <1>4, <1>5 DEF notifier

LEMMA NotifyingKept ==
    ASSUME IInv, Next
    PROVE  Notifying'
<1>1. ASSUME NEW v \in Worker, NEW n, Loaded(v, n)' PROVE Majority(n)'
  <2>1. ASSUME Loaded(v, n) PROVE Majority(n)'
    <3>1. n \in LsnsOf(wlog[v]) /\ Majority(n)
      BY <2>1 DEF IInv, Notifying, Loaded, Stored
    <3> QED
      BY <3>1, OldNumbers, MajorityKept
  <2>2. ASSUME NEW w \in Worker, NEW f \in Follower, TaskFound(w, f), ~ Loaded(v, n)
        PROVE  Majority(n)'
    <3>1. v = w /\ n = ack[w][f] /\ votes' = votes
      BY <1>1, <2>2, TaskFoundTakes
    <3>2. Majority(n)
      BY <2>2, <3>1 DEF TaskFound, IInv, Notifying
    <3> QED
      BY <3>1, <3>2 DEF Majority, clusterSize
  <2> QED
    BY <1>1, <2>1, <2>2, LoadedSame
<1> QED
  BY <1>1, LoadsKept, TodoKept DEF Notifying

-----------------------------------------------------------------------------
(* The committer *)

LEMMA OneCommitterKept ==
    ASSUME IInv, Next
    PROVE  OneCommitter'
<1>1. ASSUME NEW v \in Worker, NEW g \in Follower, npc'[v][g] = "commit", ~ TaskFound(v, g)
      PROVE  npc[v][g] = "commit" /\ ack'[v][g] = ack[v][g]
  <2>1. CASE ~ notifier(v, g)
    BY <1>1, <2>1, NotifierFrame
  <2>2. ~ addVoteCount(v, g)
    BY <1>1 DEF addVoteCount, IInv, TypeOK
  <2>3. CASE TaskNotFound(v, g) \/ commitNext(v, g)
    BY <1>1, <2>3 DEF TaskNotFound, commitNext, IInv, TypeOK
  <2> QED
    BY <1>1, <2>1, <2>2, <2>3 DEF notifier
<1>2. ASSUME NEW v \in Worker, NEW n, Loaded(v, n) PROVE Loaded(v, n)'
  BY <1>2, LoadedSame, TaskFoundTakes
<1>3. ASSUME NEW w \in Worker, NEW f \in Follower, TaskFound(w, f)
      PROVE  OneCommitter'
  <2>1. PICK n : n = ack[w][f]
    OBVIOUS
  <2>2. Loaded(w, n)' /\ ~ Loaded(w, n) /\ ack' = ack
    BY <1>3, <2>1, TaskFoundTakes
  <2>3. ASSUME NEW v \in Worker, NEW g \in Follower, npc'[v][g] = "commit", ~ (v = w /\ g = f)
        PROVE  npc[v][g] = "commit" /\ Loaded(v, ack[v][g]) /\ ~ (v = w /\ ack[v][g] = n)
    <3>1. npc' = [npc EXCEPT ![w][f] = "commit"]
      BY <1>3 DEF TaskFound
    <3>2. npc[v][g] = "commit"
      BY <2>3, <3>1 DEF IInv, TypeOK
    <3> QED
      BY <2>2, <3>2 DEF IInv, OneCommitter
  <2>4. ASSUME NEW v \in Worker, NEW g \in Follower, npc'[v][g] = "commit"
        PROVE  Loaded(v, ack[v][g])'
    <3>1. PICK m : m = ack[v][g]
      OBVIOUS
    <3>2. Loaded(v, m)'
      BY <1>2, <2>1, <2>2, <2>3, <2>4, <3>1
    <3> QED
      BY <2>2, <3>1, <3>2 DEF Loaded, Stored, TasksFor
  <2>5. ASSUME NEW v \in Worker, NEW g \in Follower, NEW h \in Follower,
               npc'[v][g] = "commit", npc'[v][h] = "commit", ack[v][h] = ack[v][g]
        PROVE  g = h
    <3>1. CASE v = w /\ (g = f \/ h = f)
      BY <2>1, <2>3, <2>5, <3>1
    <3>2. CASE ~ (v = w /\ (g = f \/ h = f))
      BY <2>3, <2>5, <3>2 DEF IInv, OneCommitter
    <3> QED
      BY <3>1, <3>2
  <2> QED
    BY <2>2, <2>4, <2>5, Zenon DEF OneCommitter
<1>4. CASE ~ \E w \in Worker, f \in Follower : TaskFound(w, f)
  <2>1. ASSUME NEW v \in Worker, NEW g \in Follower, npc'[v][g] = "commit"
        PROVE  /\ npc[v][g] = "commit" /\ ack'[v][g] = ack[v][g]
               /\ Loaded(v, ack[v][g])'
    <3>1. npc[v][g] = "commit" /\ ack'[v][g] = ack[v][g]
      BY <1>1, <1>4, <2>1
    <3>2. PICK m : m = ack[v][g]
      OBVIOUS
    <3>3. Loaded(v, m)'
      BY <1>2, <3>1, <3>2 DEF IInv, OneCommitter
    <3> QED
      BY <3>1, <3>2, <3>3 DEF Loaded, Stored, TasksFor
  <2>2. ASSUME NEW v \in Worker, NEW g \in Follower, NEW h \in Follower,
               npc'[v][g] = "commit", npc'[v][h] = "commit", ack'[v][h] = ack'[v][g]
        PROVE  g = h
    <3>1. npc[v][g] = "commit" /\ npc[v][h] = "commit" /\ ack[v][h] = ack[v][g]
      BY <2>1, <2>2
    <3> QED
      BY <3>1 DEF IInv, OneCommitter
  <2> QED
    BY <2>1, <2>2, Zenon DEF OneCommitter
<1> QED
  BY <1>3, <1>4

-----------------------------------------------------------------------------
(* What the invariant says of the followers *)

LEMMA FollowerPositions ==
    ASSUME IInv, NEW w \in Worker, NEW f \in Follower
    PROVE  /\ DOMAIN flog[w][f] = 1 .. Len(flog[w][f])
           /\ \A j \in 1 .. Len(flog[w][f]) :
                 j \in DOMAIN wlog[w] /\ flog[w][f][j] = wlog[w][j]
<1> DEFINE s == flog[w][f]
           u == wlog[w]
<1>1. s \in Seq(Entry) /\ u \in Seq(Entry)
  BY DEF IInv, TypeOK
<1>2. Len(s) <= Len(u) /\ \A j \in 1 .. Len(s) : s[j] = u[j]
  BY PrefixByPosition
<1> HIDE DEF s, u
<1>3. DOMAIN s = 1 .. Len(s) /\ \A j \in 1 .. Len(s) : j \in DOMAIN u
  BY <1>1, <1>2
<1> QED
  BY <1>2, <1>3 DEF s, u

\* Follower f holds the entry at position i when it has written that far.
LEMMA HoldsByPosition ==
    ASSUME IInv, NEW w \in Worker, NEW f \in Follower, NEW i \in DOMAIN wlog[w]
    PROVE  f \in Holders(w, wlog[w][i].lsn) <=> i \in 1 .. Len(flog[w][f])
<1>1. /\ DOMAIN flog[w][f] = 1 .. Len(flog[w][f])
      /\ \A j \in DOMAIN flog[w][f] : j \in DOMAIN wlog[w] /\ flog[w][f][j] = wlog[w][j]
  BY FollowerPositions
<1>2. ASSUME NEW j \in DOMAIN flog[w][f], flog[w][f][j].lsn = wlog[w][i].lsn
      PROVE  i = j
  BY <1>1, <1>2, OneEntryPerLsn
<1>3. wlog[w][i].lsn \in LsnsOf(flog[w][f]) <=> i \in DOMAIN flog[w][f]
  BY <1>1, <1>2 DEF LsnsOf
<1> QED
  BY <1>1, <1>3 DEF Holders

\* Its acknowledgement is still to be counted when it has not been counted
\* that far.
LEMMA UncountedByPosition ==
    ASSUME IInv, NEW w \in Worker, NEW f \in Follower, NEW i \in DOMAIN wlog[w],
           i \in 1 .. Len(flog[w][f])
    PROVE  wlog[w][i].lsn \in Uncounted(w, f) <=> ~ (i <= Counted(w, f))
<1> DEFINE log == flog[w][f]
           q == ackCh[w][f]
           c == Counted(w, f)
           n == wlog[w][i].lsn
<1>1. /\ log \in Seq(Entry) /\ q \in Seq(Lsn) /\ c \in Nat /\ c + Len(q) <= Len(log)
      /\ \A j \in 1 .. Len(q) : q[j] = log[c + j].lsn
  BY CountedType, AcksAt
<1>2. i \in 1 .. Len(log) /\ log[i] = wlog[w][i]
  BY PrefixByPosition
<1>3. ASSUME NEW j \in 1 .. Len(log), log[j].lsn = n PROVE j = i
  <2>1. j \in DOMAIN wlog[w] /\ log[j] = wlog[w][j]
    BY FollowerPositions
  <2> QED
    BY <1>3, <2>1, OneEntryPerLsn
<1>4. /\ fpc[w][f] \in {"recv", "ack"}
      /\ fpc[w][f] = "ack" => c + Len(q) + 1 = Len(log)
      /\ fpc[w][f] = "recv" => c + Len(q) = Len(log)
  BY CountedType DEF IInv, TypeOK
<1>5. Uncounted(w, f) = {q[j] : j \in DOMAIN q}
                           \cup (IF fpc[w][f] = "ack" THEN {log[Len(log)].lsn} ELSE {})
  BY DEF Uncounted, raeByFields
<1>6. n = log[i].lsn
  BY <1>2
<1> HIDE DEF log, q, c, n
<1>7. n \in {q[j] : j \in DOMAIN q} <=> c < i /\ i <= c + Len(q)
  <2>1. ASSUME NEW j \in 1 .. Len(q), q[j] = n PROVE i = c + j
    <3>1. c + j \in 1 .. Len(log)
      BY <1>1
    <3> QED
      BY <1>1, <1>3, <2>1, <3>1
  <2>2. ASSUME c < i, i <= c + Len(q) PROVE \E j \in 1 .. Len(q) : q[j] = n
    <3>1. i - c \in 1 .. Len(q) /\ c + (i - c) = i
      BY <1>1, <1>2, <2>2
    <3> QED
      BY <1>1, <1>6, <3>1
  <2>3. DOMAIN q = 1 .. Len(q)
    BY <1>1
  <2>4. ASSUME NEW j \in 1 .. Len(q), q[j] = n PROVE c < i /\ i <= c + Len(q)
    BY <1>1, <2>1, <2>4
  <2> QED
    BY <2>2, <2>3, <2>4
<1>8. CASE fpc[w][f] = "recv"
  <2>1. Uncounted(w, f) = {q[j] : j \in DOMAIN q}
    BY <1>5, <1>8
  <2>2. (c < i /\ i <= c + Len(q)) <=> ~ (i <= c)
    BY <1>1, <1>2, <1>4, <1>8
  <2> QED
    BY <1>7, <2>1, <2>2 DEF n, c
<1>9. CASE fpc[w][f] = "ack"
  <2>1. n \in Uncounted(w, f) <=> (c < i /\ i <= c + Len(q)) \/ n = log[Len(log)].lsn
    BY <1>5, <1>7, <1>9
  <2>2. n = log[Len(log)].lsn <=> i = Len(log)
    <3>1. Len(log) \in 1 .. Len(log)
      BY <1>1, <1>4, <1>9
    <3> QED
      BY <1>3, <1>6, <3>1
  <2>3. (c < i /\ i <= c + Len(q)) \/ i = Len(log) <=> ~ (i <= c)
    BY <1>1, <1>2, <1>4, <1>9
  <2> QED
    BY <2>1, <2>2, <2>3 DEF n, c
<1> QED
  BY <1>4, <1>8, <1>9

LEMMA VotesFromInvariant == IInv => VotesAreHolders
<1>1. ASSUME IInv, NEW w \in Worker, NEW i \in DOMAIN wlog[w], NEW n, n = wlog[w][i].lsn
      PROVE  {f \in Holders(w, n) : n \notin Uncounted(w, f)} = Voters(w, i)
  <2>1. ASSUME NEW f \in Follower
        PROVE  f \in Holders(w, n) /\ n \notin Uncounted(w, f) <=> i <= Counted(w, f)
    <3>1. CASE i \in 1 .. Len(flog[w][f])
      BY <1>1, <3>1, HoldsByPosition, UncountedByPosition
    <3>2. CASE i \notin 1 .. Len(flog[w][f])
      <4>1. f \notin Holders(w, n)
        BY <1>1, <3>2, HoldsByPosition
      <4>2. ~ (i <= Counted(w, f))
        <5> DEFINE a == Len(flog[w][f])
                   b == Len(ackCh[w][f])
                   c == Counted(w, f)
        <5>1. a \in Nat /\ b \in Nat /\ c \in Nat /\ c + b <= a /\ i \in Nat /\ i >= 1
          <6>1. a \in Nat /\ b \in Nat /\ i \in Nat /\ i >= 1
            BY <1>1 DEF IInv, TypeOK
          <6> QED
            BY <1>1, <6>1, CountedType
        <5> HIDE DEF b, c
        <5>2. i > a
          BY <3>2, <5>1
        <5> HIDE DEF a
        <5>3. ~ (i <= c)
          BY <5>1, <5>2
        <5> QED
          BY <5>3 DEF c
      <4> QED
        BY <4>1, <4>2
    <3> QED
      BY <3>1, <3>2
  <2> QED
    BY <2>1 DEF Holders, Voters
<1>2. ASSUME IInv, NEW w \in Worker, NEW i \in DOMAIN wlog[w]
      PROVE  votes[wlog[w][i].lsn] = Cardinality(Voters(w, i))
  BY <1>2 DEF IInv, VotesByCount
<1>3. ASSUME IInv, NEW w \in Worker, NEW n \in LsnsOf(wlog[w])
      PROVE  votes[n] = Cardinality({f \in Holders(w, n) : n \notin Uncounted(w, f)})
  <2>1. PICK i \in DOMAIN wlog[w] : n = wlog[w][i].lsn
    BY DEF LsnsOf
  <2> QED
    BY <1>1, <1>2, <1>3, <2>1
<1> QED
  BY <1>3 DEF VotesAreHolders

LEMMA DurableFromInvariant == IInv => Durable
<1>1. ASSUME IInv, NEW w \in Worker, NEW n \in LsnsOf(wlog[w]), Loaded(w, n)
      PROVE  2 * (Cardinality(Holders(w, n)) + 1) > clusterSize
  <2> DEFINE V == {f \in Holders(w, n) : n \notin Uncounted(w, f)}
             c == Cardinality(Holders(w, n))
  <2>1. IsFiniteSet(Holders(w, n)) /\ c \in Nat
    <3>1. Holders(w, n) \in SUBSET Follower
      BY DEF Holders
    <3> QED
      BY <3>1, FollowerSubset, NFIsNat
  <2>2. Cardinality(V) <= c
    BY <2>1, FS_Subset
  <2>3. votes[n] = Cardinality(V)
    BY <1>1, VotesFromInvariant DEF VotesAreHolders
  <2>4. votes[n] > (NF + 1) \div 2
    BY <1>1 DEF IInv, Notifying, Majority, clusterSize
  <2> DEFINE m == votes[n]
  <2>5. m \in Nat
    BY <1>1, OldNumbers, NFIsNat DEF IInv, TypeOK
  <2> HIDE DEF c, V, m
  <2>6. m > (NF + 1) \div 2 /\ m <= c
    BY <2>2, <2>3, <2>4 DEF m
  <2>7. 2 * (c + 1) > NF + 1
    BY <2>1, <2>5, <2>6, NFIsNat
  <2> QED
    BY <2>7 DEF c, clusterSize
<1> QED
  BY <1>1 DEF Durable

-----------------------------------------------------------------------------
(* The theorems *)

THEOREM Invariance == Spec => []IInv
<1>1. IInv /\ [Next]_vars => IInv'
  <2> SUFFICES ASSUME IInv, [Next]_vars PROVE IInv'
    OBVIOUS
  <2>1. CASE Next
    BY <2>1, TypeKept, FlushingKept, LsnOrderKept, PrefixKept, AcksKept, VotesKept,
       TasksKept, NotifyingKept, OneCommitterKept DEF IInv
  <2>2. CASE UNCHANGED vars
    <3> USE <2>2 DEF IInv, vars, workerVars, followerVars, notifierVars
    <3>1. TypeOK'
      BY DEF TypeOK
    <3>2. Flushing'
      BY DEF Flushing, LsnsOf
    <3>3. LsnOrder'
      <4>1. lsn' = lsn /\ wlog' = wlog
        OBVIOUS
      <4> QED
        BY <4>1 DEF LsnOrder
    <3>4. FollowerLogIsPrefix'
      <4>1. wlog' = wlog /\ wpc' = wpc /\ dest' = dest /\ flog' = flog /\ appendCh' = appendCh
        OBVIOUS
      <4>2. \A w \in Worker, f \in Follower : SentTo(w, f)' = SentTo(w, f)
        BY <4>1 DEF SentTo
      <4> QED
        BY <4>1, <4>2, Zenon DEF FollowerLogIsPrefix
    <3>8. AcksInOrder'
      BY DEF AcksInOrder, Counted
    <3>5. VotesByCount'
      BY DEF VotesByCount, Voters, Counted, LsnsOf
    <3>6. TasksStored'
      BY DEF TasksStored, Stored, LsnsOf
    <3>7. Notifying' /\ OneCommitter'
      BY DEF Notifying, OneCommitter, Majority, Loaded, Stored, TasksFor, LsnsOf
    <3> QED
      BY <3>1, <3>2, <3>3, <3>4, <3>5, <3>6, <3>7, <3>8
  <2> QED
    BY <2>1, <2>2
<1> QED
  BY <1>1, InitHolds, PTL DEF Spec

\* Every variable keeps its type: in particular no vote is counted twice, no
\* acknowledgement is read from an empty log and no task from an empty list.
THEOREM TypeCorrect == Spec => []TypeOK
<1>1. IInv => TypeOK
  BY DEF IInv
<1> QED
  BY <1>1, Invariance, PTL

\* The numbers of the batches are a global order that every log follows.
THEOREM NumbersInOrder == Spec => []LsnOrder
<1>1. IInv => LsnOrder
  BY DEF IInv
<1> QED
  BY <1>1, Invariance, PTL

\* A follower's copy is a prefix of the worker's log, whatever the
\* interleaving of the threads.
THEOREM CopiesArePrefixes == Spec => []FollowerLogIsPrefix
<1>1. IInv => FollowerLogIsPrefix
  BY DEF IInv
<1> QED
  BY <1>1, Invariance, PTL

\* The votes counted for an entry are followers that have written it.
THEOREM VotesAreTrue == Spec => []VotesAreHolders
  BY VotesFromInvariant, Invariance, PTL

\* A batch that is taken for commit is in the logs of a majority.
THEOREM LoadedIsDurable == Spec => []Durable
  BY DurableFromInvariant, Invariance, PTL

\* At most one notifier commits the transactions of a batch.
THEOREM CommittedOnce == Spec => []OneCommitter
<1>1. IInv => OneCommitter
  BY DEF IInv
<1> QED
  BY <1>1, Invariance, PTL
=============================================================================
