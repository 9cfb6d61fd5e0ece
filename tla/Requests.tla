------------------------------ MODULE Requests ------------------------------
(***************************************************************************)
(* The transfer requests of the clients: struct client_request of header.h *)
(* and what TxnExecutor::transferWork does to one before it locks anything.*)
(* A request is the name of a transaction x; its fields are functions.     *)
(***************************************************************************)
EXTENDS Data

CONSTANTS
    Xact,   \* the requests that the clients send in a run
    From,   \* client_request.from of every request
    To,     \* client_request.to
    Diff    \* client_request.diff, the amount

ASSUME RequestsAssumption ==
    /\ From \in [Xact -> Key]
    /\ To \in [Xact -> Key]
    /\ Diff \in [Xact -> Int32]

\* mutant: the keys are locked in the order of the request
Unsorted(x) == [from |-> From[x], to |-> To[x]]

(***************************************************************************)
(* transferWork sorts the two keys in place, so that from <= to, and the   *)
(* sorted request is the one that is locked, logged, replicated and        *)
(* applied.  The amount is left as it is.                                  *)
(***************************************************************************)
Sorted(x) == IF From[x] > To[x] THEN [from |-> To[x], to |-> From[x]]
                                ELSE [from |-> From[x], to |-> To[x]]

Lo(x) == Sorted(x).from
Hi(x) == Sorted(x).to

Conflict(x, y) == {From[x], To[x]} \cap {From[y], To[y]} /= {}
=============================================================================
