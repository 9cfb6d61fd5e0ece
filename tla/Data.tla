-------------------------------- MODULE Data --------------------------------
(***************************************************************************)
(* The data of the program: the keys of the store, and the C type int in   *)
(* which balances and amounts are held.  A sum that leaves the range wraps *)
(* around: that is what the build produces (no optimisation flags).  The   *)
(* width is a parameter so that a model can reach the boundary.            *)
(***************************************************************************)
EXTENDS Integers, FiniteSetsExt

CONSTANTS
    INT_MAX,    \* 2^31 - 1 in the program
    Key         \* 0 .. SIZ_DATABASE - 1 in the program

ASSUME DataAssumption == INT_MAX \in Nat /\ Key \subseteq Nat

Modulus == 2 * (INT_MAX + 1)

Int32 == -(INT_MAX + 1) .. INT_MAX

Wrap(v) == ((v + INT_MAX + 1) % Modulus) - (INT_MAX + 1)

\* the sum of a function over a finite set
SumOver(f, S) == MapThenSumSet(LAMBDA k : f[k], S)
=============================================================================
