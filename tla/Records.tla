------------------------------ MODULE Records -------------------------------
(***************************************************************************)
(* The values of the Silo build: a tuple holds VAL_SIZE bytes, which       *)
(* transferWork reads and writes as an int through a union.  A new value   *)
(* is handed to TxnExecutor::write as a string_view made from a char       *)
(* pointer, so its length is not VAL_SIZE but what strlen finds.           *)
(***************************************************************************)
EXTENDS Data

CONSTANTS
    VAL_SIZE,   \* bytes of a value: 4 in the program
    Base        \* the values of a byte: 256 in the program

ASSUME RecordsAssumption ==
    /\ VAL_SIZE \in Nat /\ VAL_SIZE >= 2
    /\ Base \in Nat /\ Base >= 2
    /\ Base ^ VAL_SIZE = Modulus

Place == 0 .. VAL_SIZE - 1

Record == [Place -> 0 .. Base - 1]

\* the union of transferWork, read as a number and as bytes (little endian)
amount == [b \in Record |-> Wrap(SumOver([i \in Place |-> b[i] * Base ^ i], Place))]

val == [v \in Int32 |-> [i \in Place |-> ((v % Modulus) \div Base ^ i) % Base]]

\* Without a zero byte strlen reads on behind the union: VAL_SIZE stands for
\* every length from there on.
strlen == [b \in Record |-> Min({i \in Place : b[i] = 0} \cup {VAL_SIZE})]

(***************************************************************************)
(* What writePhase copies for a write of b: an element of length 0 is      *)
(* taken for one of the benchmark and gets the fixed value of the thread.  *)
(***************************************************************************)
Source(b, fixed) == IF strlen[b] = 0 THEN [bytes |-> fixed, size |-> VAL_SIZE]
                                     ELSE [bytes |-> b, size |-> strlen[b]]

\* a record with the first n bytes of b copied over it
Overwrite(old, b, n) == [i \in Place |-> IF i < n THEN b[i] ELSE old[i]]
=============================================================================
