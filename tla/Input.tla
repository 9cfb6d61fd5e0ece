------------------------------- MODULE Input --------------------------------
(***************************************************************************)
(* The lines of an input file (src/client/createInput.cc).  The keys are   *)
(* quotients of rand() by the size of the database, not remainders, so     *)
(* that few of them are ever written, and whether all of them exist        *)
(* depends on RAND_MAX.  KVS::lock asserts that a key exists.              *)
(***************************************************************************)
EXTENDS Integers

CONSTANTS RAND_MAX, SIZ_DATABASE

\* what one call of rand() may return
rand == 0 .. RAND_MAX

Key == 0 .. SIZ_DATABASE - 1

\* from_key and to_key of a line
FromKey == {r \div SIZ_DATABASE : r \in rand}

\* what createInput may write in one line
createInput == [from : FromKey, to : FromKey, diff : {r % 1000 : r \in rand}]
=============================================================================
