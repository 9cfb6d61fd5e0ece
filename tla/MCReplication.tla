--------------------------- MODULE MCReplication ----------------------------
(***************************************************************************)
(* Instances of Replication for TLC.                                       *)
(***************************************************************************)
EXTENDS Replication

CONSTANTS x1, x2

\* a batch of two, so that a notifier can be caught between two commits
Pair == {<<x1, x2>>}
=============================================================================
