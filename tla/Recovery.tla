------------------------------ MODULE Recovery ------------------------------
(***************************************************************************)
(* Nodes that end and are started again (src/server/main.cc, status.cc,    *)
(* log.cc, logging.cc, raft.cc).  A node keeps its log file and nothing    *)
(* else: a new leader process counts its batches from 0 again, with all    *)
(* votes at 0, and a new follower process has not been told its leader.    *)
(* Connections end with the processes at their ends, but what was sent     *)
(* before can still be read, and a follower that is about to acknowledge a *)
(* batch waits until a leader listens, the old one or the next.  A thread  *)
(* that meets the end of its connection ends its whole process; a failed   *)
(* send goes unnoticed.  One worker; node 0 is the leader.                 *)
(***************************************************************************)
EXTENDS Integers, Sequences, FiniteSets, FiniteSetsExt

CONSTANTS
    NF,         \* the followers are 1 .. NF
    MaxBoot,    \* bound: MaxBoot[p] is how often node p is started
    MaxCrash,   \* bound: how many processes are interrupted
    MaxLsn      \* bound: MaxLsn[i] is the number of batches of leader process i

Node == 0 .. NF
Follower == 1 .. NF
Process == 1 .. MaxBoot[0]      \* of the leader, in the order of their start
Lsn == UNION {0 .. MaxLsn[i] - 1 : i \in Process}

ASSUME RecoveryAssumption ==
    /\ NF \in Nat \ {0}
    /\ MaxBoot \in [0 .. NF -> Nat \ {0}]
    /\ MaxLsn \in [Process -> Nat \ {0}]
    /\ MaxCrash \in Nat

VARIABLES
    up,         \* the nodes that run
    crashes,    \* the processes interrupted
    boots,      \* the number of the latest process of each node
    log,        \* log files: entries with the leader process as a ghost
    told,       \* the followers that know their leader
    peer,       \* the follower that setupLeader calls next
    lsn,        \* the counter behind getLogSequenceNumber
    dest,       \* the follower the worker sends the latest batch to next
    votes,      \* Status::votes
    append,     \* the connection of leader process i to follower f: the
                \* follower process it leads to, 0 for none, and what is on it
    rpc,        \* the logReceiver at its end: "none", "connect", "recv", "ack"
    back,       \* the connection of this logReceiver: the leader process it
                \* leads to, 0 for none, and the acknowledgements on it
    answered    \* history: the batches committed, with their leader process

fileVars == <<boots, log>>
leaderVars == <<peer, lsn, dest, votes>>
vars == <<up, crashes, fileVars, told, leaderVars, append, rpc, back, answered>>

PerConnection(v) == [i \in Process |-> [f \in Follower |-> v]]

\* All nodes have been started, as in module Startup, with empty files.
Init ==
    /\ up = Node /\ crashes = 0 /\ boots = [p \in Node |-> 1] /\ log = [p \in Node |-> <<>>]
    /\ told = {} /\ peer = 1 /\ lsn = 0 /\ dest = NF + 1
    /\ votes = [n \in Lsn |-> 0]
    /\ append = PerConnection([to |-> 0, q |-> <<>>])
    /\ rpc = PerConnection("none")
    /\ back = PerConnection([to |-> 0, q |-> <<>>])
    /\ answered = {}

Alive(p, process) == p \in up /\ boots[p] = process

\* A message sent on a connection is lost if the process at its end has ended.
send(c, alive, m) == IF alive THEN [c EXCEPT !.q = Append(@, m)] ELSE c

-----------------------------------------------------------------------------
(* Processes *)

\* mutant: the file is opened with O_TRUNC
LogTruncated(p) == <<>>

\* the constructor of Log: the file is read, and later entries are appended
Log(p) == log[p]

\* main: a process with everything but its log at the start
Boot(p) ==
    /\ p \notin up /\ boots[p] < MaxBoot[p]
    /\ up' = up \cup {p}
    /\ boots' = [boots EXCEPT ![p] = @ + 1]
    /\ log' = [log EXCEPT ![p] = Log(p)]
    /\ UNCHANGED <<crashes, told, leaderVars, append, rpc, back, answered>>

\* mutant: a follower knows its leader in the next process, too
EndTold(p) ==
    /\ up' = up \ {p}
    /\ IF p = 0
       THEN /\ peer' = 1 /\ lsn' = 0 /\ dest' = NF + 1 /\ votes' = [n \in Lsn |-> 0]
            /\ UNCHANGED <<append, back, rpc>>
       ELSE /\ rpc' = [i \in Process |-> [rpc[i] EXCEPT ![p] = "none"]]
            /\ UNCHANGED <<leaderVars, append, back>>
    /\ UNCHANGED <<fileVars, told, answered>>

\* The end of a process, with its threads, what it remembers and what is on
\* its way to it.
End(p) ==
    /\ up' = up \ {p}
    /\ IF p = 0
       THEN /\ peer' = 1 /\ lsn' = 0 /\ dest' = NF + 1 /\ votes' = [n \in Lsn |-> 0]
            /\ back' = [i \in Process |-> [f \in Follower |->
                  IF back[i][f].to = boots[0] THEN [back[i][f] EXCEPT !.q = <<>>] ELSE back[i][f]]]
            /\ UNCHANGED <<told, append, rpc>>
       ELSE /\ told' = told \ {p}
            /\ append' = [i \in Process |-> [append[i] EXCEPT ![p].q = <<>>]]
            /\ rpc' = [i \in Process |-> [rpc[i] EXCEPT ![p] = "none"]]
            /\ UNCHANGED <<leaderVars, back>>
    /\ UNCHANGED <<fileVars, answered>>

Crash(p) ==
    /\ p \in up /\ crashes < MaxCrash
    /\ crashes' = crashes + 1
    /\ End(p)

-----------------------------------------------------------------------------
(* The leader: setupLeader, then the worker *)

\* connect2raftnode waits until the follower listens
requestVote ==
    /\ 0 \in up /\ peer \in Follower /\ peer \in up
    /\ told' = told \cup {peer}
    /\ peer' = peer + 1
    /\ UNCHANGED <<up, crashes, fileVars, lsn, dest, votes, append, rpc, back, answered>>

\* loggingWork on the leader
flush ==
    /\ 0 \in up /\ peer = NF + 1 /\ dest = NF + 1 /\ lsn < MaxLsn[boots[0]]
    /\ log' = [log EXCEPT ![0] = Append(@, [by |-> boots[0], lsn |-> lsn])]
    /\ lsn' = lsn + 1
    /\ dest' = 1
    /\ UNCHANGED <<up, crashes, boots, told, peer, votes, append, rpc, back, answered>>

\* mutant: a connection that has ended is made anew
sendRPCAgain ==
    LET i == boots[0]
        f == dest
    IN
    /\ 0 \in up /\ f \in Follower /\ f \in up
    /\ append' = [append EXCEPT ![i][f] =
            IF Alive(f, @.to) THEN send(@, TRUE, lsn - 1)
                              ELSE [to |-> boots[f], q |-> <<lsn - 1>>]]
    /\ dest' = dest + 1
    /\ UNCHANGED <<up, crashes, fileVars, told, peer, lsn, votes, rpc, back, answered>>

\* The first batch makes the connection and waits until the follower listens;
\* later ones are lost if it has ended.
sendRPC ==
    LET i == boots[0]
        f == dest
    IN
    /\ 0 \in up /\ f \in Follower
    /\ append[i][f].to = 0 => f \in up
    /\ append' = [append EXCEPT ![i][f] =
            IF @.to = 0 THEN [to |-> boots[f], q |-> <<lsn - 1>>]
                        ELSE send(@, Alive(f, @.to), lsn - 1)]
    /\ dest' = dest + 1
    /\ UNCHANGED <<up, crashes, fileVars, told, peer, lsn, votes, rpc, back, answered>>

-----------------------------------------------------------------------------
(* The logReceiver of follower f for leader process i *)

\* getLeader asserts that the follower has been told: a follower process that
\* has come after the last REQUEST_VOTE ends with its first batch.
startReceiver(i, f) ==
    /\ Alive(f, append[i][f].to) /\ rpc[i][f] = "none"
    /\ IF f \in told
       THEN /\ rpc' = [rpc EXCEPT ![i][f] = "connect"]
            /\ UNCHANGED <<up, crashes, fileVars, told, leaderVars, append, back, answered>>
       ELSE End(f) /\ UNCHANGED crashes

\* whichever process of the leader listens
connectBack(i, f) ==
    /\ rpc[i][f] = "connect" /\ 0 \in up
    /\ back' = [back EXCEPT ![i][f] = [to |-> boots[0], q |-> <<>>]]
    /\ rpc' = [rpc EXCEPT ![i][f] = "recv"]
    /\ UNCHANGED <<up, crashes, fileVars, told, leaderVars, append, answered>>

followerAddEntry(i, f) ==
    /\ rpc[i][f] = "recv" /\ append[i][f].q /= <<>>
    /\ log' = [log EXCEPT ![f] = Append(@, [by |-> i, lsn |-> Head(append[i][f].q)])]
    /\ append' = [append EXCEPT ![i][f].q = Tail(@)]
    /\ rpc' = [rpc EXCEPT ![i][f] = "ack"]
    /\ UNCHANGED <<up, crashes, boots, told, leaderVars, back, answered>>

\* the entry just written; other logReceivers may have written later ones
LastOf(i, f) == log[f][Max({k \in DOMAIN log[f] : log[f][k].by = i})].lsn

\* lost if the leader process has ended
sendAck(i, f) ==
    /\ rpc[i][f] = "ack"
    /\ back' = [back EXCEPT ![i][f] = send(@, Alive(0, @.to), LastOf(i, f))]
    /\ rpc' = [rpc EXCEPT ![i][f] = "recv"]
    /\ UNCHANGED <<up, crashes, fileVars, told, leaderVars, append, answered>>

\* a short receive: the leader process has ended and all was read
loseLeader(i, f) ==
    /\ rpc[i][f] = "recv" /\ append[i][f].q = <<>> /\ ~ Alive(0, i)
    /\ End(f) /\ UNCHANGED crashes

-----------------------------------------------------------------------------
(* The notifier on the leader for the connection of logReceiver i of f *)

\* The batch has been stored as a task.  (That a vote may come before it is the
\* subject of module Replication.)
Stored(n) == n < lsn - 1 \/ (n = lsn - 1 /\ dest = NF + 1)

Majority(count) == count > (NF + 1) \div 2

\* mutant: the acknowledgement is not taken from the connection
addVoteCountKept(i, f) ==
    LET n == Head(back[i][f].q) IN
    /\ Alive(0, back[i][f].to) /\ back[i][f].q /= <<>>
    /\ votes' = [votes EXCEPT ![n] = @ + 1]
    /\ answered' = answered \cup
          (IF Majority(votes'[n]) /\ Stored(n) THEN {[by |-> boots[0], lsn |-> n]} ELSE {})
    /\ UNCHANGED <<up, crashes, fileVars, told, peer, lsn, dest, append, rpc, back>>

\* The vote counts for the batch of this number, and the batch is committed
\* when the votes are a majority.
addVoteCount(i, f) ==
    LET n == Head(back[i][f].q) IN
    /\ Alive(0, back[i][f].to) /\ back[i][f].q /= <<>>
    /\ back' = [back EXCEPT ![i][f].q = Tail(@)]
    /\ votes' = [votes EXCEPT ![n] = @ + 1]
    /\ answered' = answered \cup
          (IF Majority(votes'[n]) /\ Stored(n) THEN {[by |-> boots[0], lsn |-> n]} ELSE {})
    /\ UNCHANGED <<up, crashes, fileVars, told, peer, lsn, dest, append, rpc>>

\* mutant: the notifier receives again and again
loseFollowerNot(i, f) ==
    /\ Alive(0, back[i][f].to) /\ back[i][f].q = <<>> /\ rpc[i][f] = "none"
    /\ UNCHANGED vars

\* a short receive: the follower process has ended
loseFollower(i, f) ==
    /\ Alive(0, back[i][f].to) /\ back[i][f].q = <<>> /\ rpc[i][f] = "none"
    /\ End(0) /\ UNCHANGED crashes

-----------------------------------------------------------------------------
logReceiver(i, f) ==
    \/ startReceiver(i, f) \/ connectBack(i, f) \/ followerAddEntry(i, f)
    \/ sendAck(i, f) \/ loseLeader(i, f)

notifier(i, f) == addVoteCount(i, f) \/ loseFollower(i, f)

Next ==
    \/ \E p \in Node : Boot(p) \/ Crash(p)
    \/ requestVote \/ flush \/ sendRPC
    \/ \E i \in Process, f \in Follower : logReceiver(i, f) \/ notifier(i, f)

Spec == Init /\ [][Next]_vars

\* The threads are scheduled.  Nobody must start a node, start a batch or
\* interrupt a process.
Fairness ==
    /\ WF_vars(requestVote) /\ WF_vars(sendRPC)
    /\ \A i \in Process, f \in Follower :
          WF_vars(logReceiver(i, f)) /\ WF_vars(notifier(i, f))

FairSpec == Spec /\ Fairness

-----------------------------------------------------------------------------
(* Properties *)

Entry == [by : Process, lsn : Lsn]

TypeOK ==
    /\ up \subseteq Node /\ crashes \in 0 .. MaxCrash /\ told \subseteq up \ {0}
    /\ boots \in [Node -> Nat] /\ \A p \in Node : boots[p] \in 1 .. MaxBoot[p]
    /\ log \in [Node -> Seq(Entry)]
    /\ peer \in 1 .. NF + 1 /\ lsn \in 0 .. MaxLsn[boots[0]] /\ dest \in 1 .. NF + 1
    /\ votes \in [Lsn -> 0 .. MaxBoot[0] * NF]
    /\ append \in [Process -> [Follower -> [to : Nat, q : Seq(Lsn)]]]
    /\ rpc \in [Process -> [Follower -> {"none", "connect", "recv", "ack"}]]
    /\ back \in [Process -> [Follower -> [to : Process \cup {0}, q : Seq(Lsn)]]]
    /\ answered \subseteq Entry

Has(file, e) == \E k \in DOMAIN file : file[k] = e

\* The batches of a leader process come in order and without a repetition ...
Ordered(file) ==
    \A j, k \in DOMAIN file : j < k /\ file[j].by = file[k].by => file[j].lsn < file[k].lsn

\* ... and without a gap.
NoGap(file) ==
    \A k \in DOMAIN file : \A n \in 0 .. file[k].lsn - 1 :
        Has(file, [by |-> file[k].by, lsn |-> n])

\* A follower writes what several leader processes send it to one file, and
\* loses batches when it ends; but of each leader process it has the first
\* batches, in order and without a gap or a repetition.
PrefixPerLeader ==
    /\ \A p \in Node : Ordered(log[p]) /\ NoGap(log[p])
    /\ \A f \in Follower : \A k \in DOMAIN log[f] : Has(log[0], log[f][k])

\* an acknowledgement of another leader process may have reached leader i
Confused(i) == \E j \in Process \ {i}, f \in Follower : back[j][f].to = i

Holders(e) == {p \in Node : Has(log[p], e)}

\* Whatever ends and is started again, an answered batch is in the files of a
\* majority, unless its leader was confused by an acknowledgement of a batch
\* of another leader process.
AnsweredSurvives ==
    \A e \in answered : Confused(e.by) \/ 2 * Cardinality(Holders(e)) > NF + 1

\* A leader process that is not confused counts a vote of a follower only for a
\* batch of its own that is in the follower's file.
VotesAreTrue ==
    \A n \in Lsn : 0 \in up /\ ~ Confused(boots[0]) =>
        votes[n] <= Cardinality(Holders([by |-> boots[0], lsn |-> n]) \ {0})

\* a follower process that had connected to the leader has ended
LeaderAlone ==
    \E i \in Process, f \in Follower : Alive(0, back[i][f].to) /\ rpc[i][f] = "none"

\* the leader process that had sent a batch to follower f has ended, and f has
\* begun to read
FollowerAlone(f) ==
    \E i \in Process : rpc[i][f] \in {"recv", "ack"} /\ ~ Alive(0, i)

\* The end of a process spreads, over the connections in both directions: a
\* leader does not go on without a follower that had connected to it, nor a
\* follower without a leader.
EndSpreads == []<>(~ LeaderAlone /\ \A f \in Follower : ~ FollowerAlone(f))
=============================================================================
