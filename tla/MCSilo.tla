------------------------------- MODULE MCSilo -------------------------------
(***************************************************************************)
(* Instances of Silo for TLC.                                              *)
(***************************************************************************)
EXTENDS Silo

CONSTANTS x1, x2, x3, x4, w1, w2, w3

Table(a, b, c, d) ==
    [x \in Xact |-> CASE x = x1 -> a [] x = x2 -> b [] x = x3 -> c [] x = x4 -> d]

Keys3 == 0 .. 2

\* values of three bytes, each of them 0 or 1
Bytes(a, b, c) == [i \in Place |-> <<a, b, c>>[i + 1]]

Digits == [w \in Worker |-> CASE w = w1 -> Bytes(1, 0, 0) [] w = w2 -> Bytes(1, 1, 0)
                              [] w = w3 -> Bytes(1, 0, 0)]
Memory3 == [k \in Keys3 |-> Bytes(0, 1, k % 2)]

\* a ring of conflicts, one request with the larger key as its source
RingFrom == Table(0, 1, 2, 1)
RingTo   == Table(1, 2, 0, 1)
RingDiff == Table(1, 2, -1, 1)
\* no amounts: the values stay as they are
NoDiff   == Table(0, 0, 0, 0)
=============================================================================
