----------------------------- MODULE MCRecovery ------------------------------
(***************************************************************************)
(* An instance of Recovery for TLC: all nodes but the last follower are    *)
(* started twice.                                                          *)
(***************************************************************************)
EXTENDS Recovery

Boots == [p \in 0 .. NF |-> IF p = NF THEN 1 ELSE 2]
Batches == [i \in Process |-> IF i = 1 THEN 2 ELSE 1]
=============================================================================
