------------------------------ MODULE MCTwoPL -------------------------------
(***************************************************************************)
(* Instances of TwoPL for TLC.  The constants of the requests are given    *)
(* here and chosen by the configuration files.                             *)
(***************************************************************************)
EXTENDS TwoPL

CONSTANTS x1, x2, x3, x4, x5

Table(a, b, c, d, e) ==
    [x \in Xact |-> CASE x = x1 -> a [] x = x2 -> b [] x = x3 -> c
                      [] x = x4 -> d [] x = x5 -> e]

Keys4 == 0 .. 3
Init4 == [k \in Keys4 |-> k + 1]

\* x1 .. x4 go around a cycle of four accounts: each conflicts with the two
\* next to it, all but x4 have the larger key as their source, and x3 and x4
\* overflow a balance when INT_MAX = 7.  x5 is a transfer from an account to
\* itself, as some lines of INPUT/input_20k are.
CycleFrom == Table(1, 2, 3, 0, 2)
CycleTo   == Table(0, 1, 2, 3, 2)
CycleDiff == Table(2, -1, 6, 5, 1)
=============================================================================
