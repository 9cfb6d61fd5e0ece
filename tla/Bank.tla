-------------------------------- MODULE Bank --------------------------------
(***************************************************************************)
(* What the transaction layer promises, with no locks, threads or logs:    *)
(* every transfer takes effect at one instant, at most once, and moves its *)
(* amount from the key it debits to the key it credits.                    *)
(***************************************************************************)
EXTENDS Data

CONSTANTS Xact, Debit, Credit, Amount, InitValue

VARIABLES
    balance,    \* the committed value of every key
    applied     \* the transfers that have taken effect

bankVars == <<balance, applied>>

Init == balance = InitValue /\ applied = {}

Transfer(x) ==
    /\ x \notin applied
    /\ Debit[x] /= Credit[x]
    /\ applied' = applied \cup {x}
    /\ balance' = [balance EXCEPT ![Debit[x]]  = Wrap(@ - Amount[x]),
                                  ![Credit[x]] = Wrap(@ + Amount[x])]

Next == \E x \in Xact : Transfer(x)

Spec == Init /\ [][Next]_bankVars
=============================================================================
