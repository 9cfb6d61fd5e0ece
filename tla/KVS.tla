-------------------------------- MODULE KVS ---------------------------------
(***************************************************************************)
(* The key-value store (src/2pl/kvs.cc): one mutex and one value per key.  *)
(* Every operation is one atomic step of the thread that calls it.  The    *)
(* mutex of a key is taken by a worker thread and given back by a notifier *)
(* thread, so a key has no owner here either: it is locked or it is not.   *)
(***************************************************************************)
EXTENDS Data

CONSTANT
    InitValue   \* the value rand() gave each key when the store was built

ASSUME InitValueAssumption == InitValue \in [Key -> 0 .. INT_MAX]

VARIABLES
    locked,     \* the keys whose mutex is held
    value       \* what the hash table holds under each key

kvsVars == <<locked, value>>

KVSInit == locked = {} /\ value = InitValue

KVSTypeOK == locked \subseteq Key /\ value \in [Key -> Int32]

\* mutant: EBUSY is taken for success
lockAnyway(k) == locked' = locked \cup {k}

\* pthread_mutex_trylock: succeeds at once or reports EBUSY, never waits
lock(k) == k \notin locked /\ locked' = locked \cup {k}

busy(k) == k \in locked

unlock(k) == locked' = locked \ {k}

index_read(k) == value[k]

index_update(k, v) == value' = [value EXCEPT ![k] = v]
=============================================================================
