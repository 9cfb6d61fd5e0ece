---------------------------- MODULE MCRaftTwoPL -----------------------------
(***************************************************************************)
(* Instances of RaftTwoPL for TLC.                                         *)
(***************************************************************************)
EXTENDS RaftTwoPL

CONSTANTS x1, x2, x3, x4, x5, c1, c2, w1, w2

Table(a, b, c, d, e) ==
    [x \in Xact |-> CASE x = x1 -> a [] x = x2 -> b [] x = x3 -> c
                      [] x = x4 -> d [] x = x5 -> e]

Keys4 == 0 .. 3
Init4 == [k \in Keys4 |-> k + 1]

\* x1 = {0, 1}, x2 = {1, 2}, x3 = {2, 3}, x4 = {3, 0}, x5 = {2}.  A worker that
\* has x1 in its batch and a worker that has x3 in its batch wait for each
\* other and for themselves when they go on to x2 and x4.
RingFrom == Table(0, 2, 2, 3, 2)
RingTo   == Table(1, 1, 3, 0, 2)
RingDiff == Table(1, 2, 3, 4, 1)

\* Amounts play no part in progress: without them there are fewer states.
NoDiff == Table(0, 0, 0, 0, 0)
NoMoney == [k \in Keys4 |-> 0]

\* one command of two requests each
Pairs == [c \in Client |-> IF c = c1 THEN <<<<x1, x2>>>> ELSE <<<<x3, x4>>>>]

\* several commands of one request each, the last of which violates the
\* assertion of transferWork
Singles == [c \in Client |-> IF c = c1 THEN <<<<x1>>, <<x2>>>>
                                       ELSE <<<<x3>>, <<x4>>, <<x5>>>>]

\* the receiver gives the clients to the workers in turn
InTurn == [c \in Client |-> IF c = c1 \/ Worker = {w1} THEN w1 ELSE w2]

Batches == UNION {[1 .. n -> Xact] : n \in 1 .. MAX_GROUP_ENTRY}
=============================================================================
