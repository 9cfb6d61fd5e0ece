------------------------------ MODULE MCStartup ------------------------------
(***************************************************************************)
(* An instance of Startup for TLC: two nodes of different machines, of     *)
(* which the first may become the leader and the last may lack its file.   *)
(***************************************************************************)
EXTENDS Startup

CONSTANTS c1, c2, c3

Address0 == [hostname |-> "a", port |-> 51111]
Address1 == [hostname |-> "b", port |-> 51111]

TwoNodes == <<Empty, "log/", Address0, Empty, Address1>>

\* two clients know the leader, one knows a follower
Contacts == [c \in Client |-> IF c = c2 THEN <<Address1, Address0>> ELSE <<Address0>>]

OneByAddress == [n \in 0 .. 1 |-> IF n = 1 THEN -1 ELSE n]

Emptied == [n \in 0 .. 1 |-> IF n = 1 THEN {-1, Missing} ELSE {-1}]
=============================================================================
