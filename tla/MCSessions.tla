----------------------------- MODULE MCSessions ------------------------------
(***************************************************************************)
(* An instance of Sessions for TLC.                                        *)
(***************************************************************************)
EXTENDS Sessions

CONSTANTS c1, c2, c3, n1

\* two batches and a line left over; one batch; no whole batch
Files == [c \in Client |-> CASE c = c1 -> 5 [] c = c2 -> 2 [] c = c3 -> 1]

Counts == [c \in Client |-> 2]
=============================================================================
