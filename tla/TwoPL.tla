------------------------------- MODULE TwoPL --------------------------------
(***************************************************************************)
(* Two-phase locking (src/2pl/twopl.cc).  A worker thread calls            *)
(* TxnExecutor::transferWork to lock the two keys of a request, again and  *)
(* again until it succeeds; some time later, when the request has been     *)
(* replicated, a notifier thread calls DB::commitWork, which moves the     *)
(* money and unlocks the keys.  Requests of different workers interleave   *)
(* here at every access to the shared store.  Who calls the two functions, *)
(* and when, is the business of RaftTwoPL.                                 *)
(***************************************************************************)
EXTENDS Requests, KVS, FiniteSetsExt

VARIABLES
    phase,      \* how far each request has come
    seen        \* fromVal and toVal, the locals of commitWork

vars == <<locked, value, phase, seen>>

Phase == {"new",        \* transferWork is about to lock [from]
          "lockTo",     \* [from] is locked, [to] is next
          "release",    \* [to] was busy: [from] is given back
          "locked",     \* transferWork returned true; logged and replicated
          "readTo", "debit", "credit",      \* commitWork: next access
          "unlockFrom", "unlockTo",
          "done",       \* commitWork returned
          "aborted"}    \* the assertion of transferWork ended the process

Init ==
    /\ KVSInit
    /\ phase = [x \in Xact |-> "new"]
    /\ seen = [x \in Xact |-> [from |-> 0, to |-> 0]]

Running == \A x \in Xact : phase[x] /= "aborted"

Step(x, p, q) ==
    /\ phase[x] = p
    /\ phase' = [phase EXCEPT ![x] = q]

-----------------------------------------------------------------------------
(* transferWork *)

\* assert(req.from != req.to)
AssertFails(x) ==
    /\ From[x] = To[x]
    /\ Step(x, "new", "aborted")
    /\ UNCHANGED <<locked, value, seen>>

\* The first trylock.  When it reports EBUSY transferWork returns false at
\* once, nothing has changed and the request is tried again: no step.
LockFrom(x) ==
    /\ From[x] /= To[x]
    /\ lock(Lo(x))
    /\ Step(x, "new", "lockTo")
    /\ UNCHANGED <<value, seen>>

\* mutant: the result of the second trylock is not looked at
LockToUnchecked(x) ==
    /\ locked' = locked \cup {Hi(x)}
    /\ Step(x, "lockTo", "locked")
    /\ UNCHANGED <<value, seen>>

LockTo(x) ==
    /\ lock(Hi(x))
    /\ Step(x, "lockTo", "locked")
    /\ UNCHANGED <<value, seen>>

LockToBusy(x) ==
    /\ busy(Hi(x))
    /\ Step(x, "lockTo", "release")
    /\ UNCHANGED <<locked, value, seen>>

\* mutant: the key that was busy is given back
ReleaseTo(x) ==
    /\ unlock(Hi(x))
    /\ Step(x, "release", "new")
    /\ UNCHANGED <<value, seen>>

\* [to] lock failure: give back [from]; the worker will try again
Release(x) ==
    /\ unlock(Lo(x))
    /\ Step(x, "release", "new")
    /\ UNCHANGED <<value, seen>>

-----------------------------------------------------------------------------
(* commitWork *)

ReadFrom(x) ==
    /\ seen' = [seen EXCEPT ![x].from = index_read(Lo(x))]
    /\ Step(x, "locked", "readTo")
    /\ UNCHANGED kvsVars

ReadTo(x) ==
    /\ seen' = [seen EXCEPT ![x].to = index_read(Hi(x))]
    /\ Step(x, "readTo", "debit")
    /\ UNCHANGED kvsVars

\* mutant: [from] is unlocked as soon as it is updated
UpdateFromUnlocking(x) ==
    /\ index_update(Lo(x), Wrap(seen[x].from - Diff[x]))
    /\ unlock(Lo(x))
    /\ Step(x, "debit", "credit")
    /\ UNCHANGED seen

UpdateFrom(x) ==
    /\ index_update(Lo(x), Wrap(seen[x].from - Diff[x]))
    /\ Step(x, "debit", "credit")
    /\ UNCHANGED <<locked, seen>>

\* mutant: the sum does not wrap around
UpdateToWide(x) ==
    /\ index_update(Hi(x), seen[x].to + Diff[x])
    /\ Step(x, "credit", "unlockFrom")
    /\ UNCHANGED <<locked, seen>>

UpdateTo(x) ==
    /\ index_update(Hi(x), Wrap(seen[x].to + Diff[x]))
    /\ Step(x, "credit", "unlockFrom")
    /\ UNCHANGED <<locked, seen>>

UnlockFrom(x) ==
    /\ unlock(Lo(x))
    /\ Step(x, "unlockFrom", "unlockTo")
    /\ UNCHANGED <<value, seen>>

UnlockTo(x) ==
    /\ unlock(Hi(x))
    /\ Step(x, "unlockTo", "done")
    /\ UNCHANGED <<value, seen>>

-----------------------------------------------------------------------------
transferWork(x) ==
    AssertFails(x) \/ LockFrom(x) \/ LockTo(x) \/ LockToBusy(x) \/ Release(x)

commitWork(x) ==
    \/ ReadFrom(x) \/ ReadTo(x) \/ UpdateFrom(x) \/ UpdateTo(x)
    \/ UnlockFrom(x) \/ UnlockTo(x)

\* a failed assertion ends every thread of the process
Next == Running /\ \E x \in Xact : transferWork(x) \/ commitWork(x)

Spec == Init /\ [][Next]_vars

\* Worker and notifier threads never block in either function (trylock does
\* not wait), so a request that has a step to take is eventually scheduled.
\* That commitWork is called at all is assumed here, and is the subject of
\* Replication.
Fairness == \A x \in Xact : WF_vars(Running /\ (transferWork(x) \/ commitWork(x)))

FairSpec == Spec /\ Fairness

-----------------------------------------------------------------------------
(* Properties *)

TypeOK ==
    /\ KVSTypeOK
    /\ phase \in [Xact -> Phase]
    /\ seen \in [Xact -> [from : Int32, to : Int32]]

\* the keys a request has locked and not yet unlocked
Held(x) ==
    CASE phase[x] \in {"lockTo", "release"} -> {Lo(x)}
      [] phase[x] \in {"locked", "readTo", "debit", "credit", "unlockFrom"}
                                            -> {Lo(x), Hi(x)}
      [] phase[x] = "unlockTo"              -> {Hi(x)}
      [] OTHER                              -> {}

\* A mutex has no owner, and it is unlocked by another thread than the one
\* that locked it: still, a key is locked exactly while one request holds it,
\* so no path of transferWork or commitWork leaks a lock, unlocks a key that
\* is someone else's, or lets two requests into the same key.
LockDiscipline ==
    /\ locked = UNION {Held(x) : x \in Xact}
    /\ \A x, y \in Xact : x /= y => Held(x) \cap Held(y) = {}

\* What commitWork has read is still what the store holds, until it is
\* overwritten by commitWork itself: no other request writes in between.
NoLostUpdate ==
    \A x \in Xact :
        /\ phase[x] \in {"readTo", "debit"} => value[Lo(x)] = seen[x].from
        /\ phase[x] \in {"debit", "credit"} => value[Hi(x)] = seen[x].to
        /\ phase[x] = "credit" => value[Lo(x)] = Wrap(seen[x].from - Diff[x])

\* The committed value of a key: between its two updates commitWork has
\* debited one key and not yet credited the other, and still hides it.
CommittedView ==
    [k \in Key |->
        IF \E x \in Xact : phase[x] = "credit" /\ Lo(x) = k
        THEN LET x == CHOOSE x \in Xact : phase[x] = "credit" /\ Lo(x) = k
             IN  seen[x].from
        ELSE value[k]]

Applied == {x \in Xact : phase[x] \in {"unlockFrom", "unlockTo", "done"}}

Total(f) == SumOver(f, Key)

\* Transfers move money, they do not create it: the sum of the committed
\* balances never changes, up to the overflow of the C type.
MoneyConserved == Wrap(Total(CommittedView)) = Wrap(Total(InitValue))

\* Each request takes effect at one instant (its second index_update), at
\* most once, on a state that no other request is in the middle of changing.
\* The key debited is the smaller of the two.
TheBank == INSTANCE Bank WITH
    Debit <- [x \in Xact |-> Lo(x)], Credit <- [x \in Xact |-> Hi(x)],
    Amount <- Diff, balance <- CommittedView, applied <- Applied

ImplementsBank == TheBank!Spec

\* Sorting the keys before locking is what makes retrying safe: with trylock
\* nobody waits for anybody, but unsorted requests could give way to each
\* other for ever.  Every request is eventually locked, applied and unlocked.
EventuallyCommitted == \A x \in Xact : <>(phase[x] = "done")

\* README.md: an input line is "source ID, destination ID, amount".  When all
\* requests are through, every balance has lost what left it as a source and
\* gained what reached it as a destination.
BalancesAsRequested ==
    (\A x \in Xact : phase[x] = "done") =>
        \A k \in Key :
            value[k] = Wrap(InitValue[k]
                - MapThenSumSet(LAMBDA x : Diff[x], {x \in Xact : From[x] = k})
                + MapThenSumSet(LAMBDA x : Diff[x], {x \in Xact : To[x] = k}))
=============================================================================
