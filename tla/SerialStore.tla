---------------------------- MODULE SerialStore -----------------------------
(***************************************************************************)
(* What Silo promises: the transactions of all workers take effect one     *)
(* after the other, each at one instant and at most once, and each works   *)
(* on the values that the ones before it have left.                        *)
(***************************************************************************)
EXTENDS Records

CONSTANTS
    Xact,
    Debit, Credit,  \* the keys of a transfer
    Amount,         \* what it moves
    Fixed,          \* the fixed values of the threads, any of which may run it
    InitRecord

VARIABLES
    store,      \* the committed record of every key
    applied     \* the transfers that have taken effect

serialVars == <<store, applied>>

Init == store = InitRecord /\ applied = {}

Write(old, v, fixed) ==
    LET src == Source(val[v], fixed) IN Overwrite(old, src.bytes, src.size)

Transfer(x, fixed) ==
    LET d == store[Debit[x]]
        c == store[Credit[x]]
    IN  /\ x \notin applied
        /\ Debit[x] /= Credit[x]
        /\ applied' = applied \cup {x}
        /\ store' = [store EXCEPT
                        ![Debit[x]]  = Write(d, Wrap(amount[d] - Amount[x]), fixed),
                        ![Credit[x]] = Write(c, Wrap(amount[c] + Amount[x]), fixed)]

Next == \E x \in Xact, fixed \in Fixed : Transfer(x, fixed)

Spec == Init /\ [][Next]_serialVars
=============================================================================
