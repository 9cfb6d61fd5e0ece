---------------------------- MODULE TwoPLProofs -----------------------------
(***************************************************************************)
(* Proofs about TwoPL for every set of keys and requests: type             *)
(* correctness, the lock discipline, the absence of lost updates, the      *)
(* refinement of Bank, that money is conserved, and why requests do not    *)
(* give way to each other in a circle.  The inductive invariant adds one   *)
(* conjunct to the properties that TLC checks: a request that has got past *)
(* the assertion of transferWork has two different keys.                   *)
(***************************************************************************)
EXTENDS TwoPL, DataProofs, TLAPS

DistinctKeys ==
    \A x \in Xact : phase[x] \notin {"new", "aborted"} => From[x] /= To[x]

IInv == TypeOK /\ DistinctKeys /\ LockDiscipline /\ NoLostUpdate

-----------------------------------------------------------------------------
(* The data *)

\* Sorting a request keeps its keys: both are keys of the store, and they
\* differ when the request's keys do.
LEMMA SortedKeys ==
    ASSUME NEW x \in Xact
    PROVE  /\ Lo(x) \in Key /\ Hi(x) \in Key
           /\ From[x] /= To[x] => Lo(x) /= Hi(x)
  BY RequestsAssumption DEF Lo, Hi, Sorted

-----------------------------------------------------------------------------
(* What a step of one request does to the locks *)

\* The keys held depend on the phase of the request alone.
LEMMA HeldByPhase ==
    ASSUME NEW x \in Xact, TypeOK
    PROVE  /\ phase[x] = "new" => Held(x) = {}
           /\ phase[x] = "lockTo" => Held(x) = {Lo(x)}
           /\ phase[x] = "release" => Held(x) = {Lo(x)}
           /\ phase[x] \in {"locked", "readTo", "debit", "credit", "unlockFrom"}
                 => Held(x) = {Lo(x), Hi(x)}
           /\ phase[x] = "unlockTo" => Held(x) = {Hi(x)}
           /\ phase[x] = "done" => Held(x) = {}
           /\ phase[x] = "aborted" => Held(x) = {}
  BY DEF Held, TypeOK, Phase

\* A step of x moves x alone.
LEMMA StepFrame ==
    ASSUME NEW x \in Xact, NEW p, NEW q \in Phase, TypeOK, Step(x, p, q)
    PROVE  /\ phase[x] = p /\ phase'[x] = q
           /\ phase' \in [Xact -> Phase]
           /\ \A y \in Xact : y /= x => phase'[y] = phase[y] /\ Held(y)' = Held(y)
  BY DEF Step, TypeOK, Held

\* Locking a key that is free, unlocking a key one holds, and touching no
\* lock at all keep the discipline.
LEMMA LockKeeps ==
    ASSUME LockDiscipline, NEW x \in Xact, NEW k, k \notin locked,
           \A y \in Xact : y /= x => Held(y)' = Held(y),
           Held(x)' = Held(x) \cup {k}, locked' = locked \cup {k}
    PROVE  LockDiscipline'
  BY DEF LockDiscipline

LEMMA UnlockKeeps ==
    ASSUME LockDiscipline, NEW x \in Xact, NEW k, k \in Held(x),
           \A y \in Xact : y /= x => Held(y)' = Held(y),
           Held(x)' = Held(x) \ {k}, locked' = locked \ {k}
    PROVE  LockDiscipline'
  BY DEF LockDiscipline

LEMMA SameLocksKeep ==
    ASSUME LockDiscipline, NEW x \in Xact,
           \A y \in Xact : y /= x => Held(y)' = Held(y),
           Held(x)' = Held(x), locked' = locked
    PROVE  LockDiscipline'
  BY DEF LockDiscipline

-----------------------------------------------------------------------------
(* The inductive invariant *)

LEMMA InitHolds == Init => IInv
<1> SUFFICES ASSUME Init PROVE IInv
  OBVIOUS
<1> USE DEF Init, KVSInit
<1>1. 0 \in Int32
  BY DataAssumption DEF Int32
<1>2. value \in [Key -> Int32]
  BY InitValueAssumption, Int32IsInt
<1>3. TypeOK
  BY <1>1, <1>2 DEF TypeOK, KVSTypeOK, Phase
<1>4. \A x \in Xact : Held(x) = {}
  BY <1>3, HeldByPhase
<1>5. LockDiscipline
  BY <1>4 DEF LockDiscipline
<1> QED
  BY <1>3, <1>5 DEF IInv, DistinctKeys, NoLostUpdate

\* What the steps of transferWork do: they leave the values alone, and a
\* request that reaches "locked" comes from one whose keys differ.
LEMMA transferWorkKeeps ==
    ASSUME IInv, NEW x \in Xact, transferWork(x)
    PROVE  IInv'
<1> USE DEF IInv
<1>0. \A y \in Xact : Lo(y) \in Key /\ Hi(y) \in Key
  BY SortedKeys
<1>1. CASE AssertFails(x)
  <2>1. Step(x, "new", "aborted") /\ "aborted" \in Phase
    BY <1>1 DEF AssertFails, Phase
  <2>2. TypeOK'
    BY <1>1, <2>1, StepFrame DEF AssertFails, TypeOK, KVSTypeOK
  <2>3. Held(x) = {} /\ Held(x)' = {}
    BY <2>1, <2>2, StepFrame DEF Held
  <2>4. LockDiscipline'
    BY <1>1, <2>1, <2>3, StepFrame, SameLocksKeep DEF AssertFails
  <2>5. DistinctKeys' /\ NoLostUpdate'
    BY <1>1, <2>1, StepFrame DEF AssertFails, DistinctKeys, NoLostUpdate
  <2> QED
    BY <2>2, <2>4, <2>5
<1>2. CASE LockFrom(x)
  <2>1. Step(x, "new", "lockTo") /\ "lockTo" \in Phase
    BY <1>2 DEF LockFrom, Phase
  <2>2. TypeOK'
    BY <1>0, <1>2, <2>1, StepFrame DEF LockFrom, lock, TypeOK, KVSTypeOK
  <2>3. Held(x) = {} /\ Held(x)' = {Lo(x)}
    BY <2>1, <2>2, StepFrame DEF Held
  <2>4. LockDiscipline'
    BY <1>2, <2>1, <2>3, StepFrame, LockKeeps DEF LockFrom, lock
  <2>5. DistinctKeys' /\ NoLostUpdate'
    BY <1>2, <2>1, StepFrame DEF LockFrom, DistinctKeys, NoLostUpdate
  <2> QED
    BY <2>2, <2>4, <2>5
<1>3. CASE LockTo(x)
  <2>1. Step(x, "lockTo", "locked") /\ "locked" \in Phase
    BY <1>3 DEF LockTo, Phase
  <2>2. TypeOK'
    BY <1>0, <1>3, <2>1, StepFrame DEF LockTo, lock, TypeOK, KVSTypeOK
  <2>3. Held(x) = {Lo(x)} /\ Held(x)' = {Lo(x)} \cup {Hi(x)}
    BY <2>1, <2>2, StepFrame DEF Held
  <2>4. LockDiscipline'
    BY <1>3, <2>1, <2>3, StepFrame, LockKeeps DEF LockTo, lock
  <2>5. DistinctKeys' /\ NoLostUpdate'
    BY <1>3, <2>1, StepFrame DEF LockTo, DistinctKeys, NoLostUpdate
  <2> QED
    BY <2>2, <2>4, <2>5
<1>4. CASE LockToBusy(x)
  <2>1. Step(x, "lockTo", "release") /\ "release" \in Phase
    BY <1>4 DEF LockToBusy, Phase
  <2>2. TypeOK'
    BY <1>4, <2>1, StepFrame DEF LockToBusy, TypeOK, KVSTypeOK
  <2>3. Held(x) = {Lo(x)} /\ Held(x)' = {Lo(x)}
    BY <2>1, <2>2, StepFrame DEF Held
  <2>4. LockDiscipline'
    BY <1>4, <2>1, <2>3, StepFrame, SameLocksKeep DEF LockToBusy
  <2>5. DistinctKeys' /\ NoLostUpdate'
    BY <1>4, <2>1, StepFrame DEF LockToBusy, DistinctKeys, NoLostUpdate
  <2> QED
    BY <2>2, <2>4, <2>5
<1>5. CASE Release(x)
  <2>1. Step(x, "release", "new") /\ "new" \in Phase
    BY <1>5 DEF Release, Phase
  <2>2. TypeOK'
    BY <1>5, <2>1, StepFrame DEF Release, unlock, TypeOK, KVSTypeOK
  <2>3. Held(x) = {Lo(x)} /\ Held(x)' = {}
    BY <2>1, <2>2, StepFrame DEF Held
  <2>4. LockDiscipline'
    BY <1>5, <2>1, <2>3, StepFrame, UnlockKeeps DEF Release, unlock
  <2>5. DistinctKeys' /\ NoLostUpdate'
    BY <1>5, <2>1, StepFrame DEF Release, DistinctKeys, NoLostUpdate
  <2> QED
    BY <2>2, <2>4, <2>5
<1> QED
  BY <1>1, <1>2, <1>3, <1>4, <1>5 DEF transferWork

\* What one request does to a key it holds is invisible to the others: their
\* keys are not among its own.
LEMMA OthersKeys ==
    ASSUME IInv, NEW x \in Xact, NEW y \in Xact, x /= y,
           phase[y] \in {"readTo", "debit", "credit"}
    PROVE  /\ Lo(y) \notin Held(x) /\ Hi(y) \notin Held(x)
           /\ Lo(y) /= Hi(y)
<1>1. Held(y) = {Lo(y), Hi(y)}
  BY HeldByPhase DEF IInv
<1>2. From[y] /= To[y]
  BY DEF IInv, DistinctKeys
<1> QED
  BY <1>1, <1>2, SortedKeys DEF IInv, LockDiscipline

\* The arithmetic of commitWork stays in the type.
LEMMA SumTypes ==
    ASSUME TypeOK, NEW x \in Xact
    PROVE  /\ Wrap(seen[x].from - Diff[x]) \in Int32
           /\ Wrap(seen[x].to + Diff[x]) \in Int32
<1>1. seen[x].from \in Int /\ seen[x].to \in Int /\ Diff[x] \in Int
  BY Int32IsInt, RequestsAssumption DEF TypeOK
<1>2. seen[x].from - Diff[x] \in Int /\ seen[x].to + Diff[x] \in Int
  BY <1>1
<1> QED
  BY <1>2, WrapType

\* What the steps of commitWork do: the two keys are locked when they are
\* read and when they are written, so that the reads stay current.
LEMMA commitWorkKeeps ==
    ASSUME IInv, NEW x \in Xact, commitWork(x)
    PROVE  IInv'
<1> USE DEF IInv
<1>0. /\ \A y \in Xact : Lo(y) \in Key /\ Hi(y) \in Key
      /\ \A y \in Xact : From[y] /= To[y] => Lo(y) /= Hi(y)
  BY SortedKeys
<1>1. CASE ReadFrom(x)
  <2>1. Step(x, "locked", "readTo") /\ "readTo" \in Phase
    BY <1>1 DEF ReadFrom, Phase
  <2>2. TypeOK'
    BY <1>0, <1>1, <2>1, StepFrame
    DEF ReadFrom, index_read, kvsVars, TypeOK, KVSTypeOK
  <2>3. Held(x) = {Lo(x), Hi(x)} /\ Held(x)' = Held(x)
    BY <2>1, <2>2, StepFrame DEF Held
  <2>4. LockDiscipline'
    BY <1>1, <2>1, <2>3, StepFrame, SameLocksKeep DEF ReadFrom, kvsVars
  <2>5. DistinctKeys'
    BY <2>1, StepFrame DEF DistinctKeys
  <2>6. NoLostUpdate'
    BY <1>1, <2>1, StepFrame
    DEF ReadFrom, index_read, kvsVars, TypeOK, NoLostUpdate
  <2> QED
    BY <2>2, <2>4, <2>5, <2>6
<1>2. CASE ReadTo(x)
  <2>1. Step(x, "readTo", "debit") /\ "debit" \in Phase
    BY <1>2 DEF ReadTo, Phase
  <2>2. TypeOK'
    BY <1>0, <1>2, <2>1, StepFrame
    DEF ReadTo, index_read, kvsVars, TypeOK, KVSTypeOK
  <2>3. Held(x) = {Lo(x), Hi(x)} /\ Held(x)' = Held(x)
    BY <2>1, <2>2, StepFrame DEF Held
  <2>4. LockDiscipline'
    BY <1>2, <2>1, <2>3, StepFrame, SameLocksKeep DEF ReadTo, kvsVars
  <2>5. DistinctKeys'
    BY <2>1, StepFrame DEF DistinctKeys
  <2>6. NoLostUpdate'
    BY <1>2, <2>1, StepFrame
    DEF ReadTo, index_read, kvsVars, TypeOK, NoLostUpdate
  <2> QED
    BY <2>2, <2>4, <2>5, <2>6
<1>3. CASE UpdateFrom(x)
  <2>1. Step(x, "debit", "credit") /\ "credit" \in Phase
    BY <1>3 DEF UpdateFrom, Phase
  <2>2. TypeOK'
    BY <1>0, <1>3, <2>1, StepFrame, SumTypes
    DEF UpdateFrom, index_update, TypeOK, KVSTypeOK
  <2>3. Held(x) = {Lo(x), Hi(x)} /\ Held(x)' = Held(x)
    BY <2>1, <2>2, StepFrame DEF Held
  <2>4. LockDiscipline'
    BY <1>3, <2>1, <2>3, StepFrame, SameLocksKeep DEF UpdateFrom
  <2>5. DistinctKeys'
    BY <2>1, StepFrame DEF DistinctKeys
  <2>6. Lo(x) /= Hi(x)
    BY <1>0, <2>1, StepFrame DEF DistinctKeys
  <2>7. NoLostUpdate'
    BY <1>0, <1>3, <2>1, <2>3, <2>6, StepFrame, OthersKeys
    DEF UpdateFrom, index_update, TypeOK, KVSTypeOK, NoLostUpdate
  <2> QED
    BY <2>2, <2>4, <2>5, <2>7
<1>4. CASE UpdateTo(x)
  <2>1. Step(x, "credit", "unlockFrom") /\ "unlockFrom" \in Phase
    BY <1>4 DEF UpdateTo, Phase
  <2>2. TypeOK'
    BY <1>0, <1>4, <2>1, StepFrame, SumTypes
    DEF UpdateTo, index_update, TypeOK, KVSTypeOK
  <2>3. Held(x) = {Lo(x), Hi(x)} /\ Held(x)' = Held(x)
    BY <2>1, <2>2, StepFrame DEF Held
  <2>4. LockDiscipline'
    BY <1>4, <2>1, <2>3, StepFrame, SameLocksKeep DEF UpdateTo
  <2>5. DistinctKeys'
    BY <2>1, StepFrame DEF DistinctKeys
  <2>6. NoLostUpdate'
    BY <1>0, <1>4, <2>1, <2>3, StepFrame, OthersKeys
    DEF UpdateTo, index_update, TypeOK, KVSTypeOK, NoLostUpdate
  <2> QED
    BY <2>2, <2>4, <2>5, <2>6
<1>5. CASE UnlockFrom(x)
  <2>1. Step(x, "unlockFrom", "unlockTo") /\ "unlockTo" \in Phase
    BY <1>5 DEF UnlockFrom, Phase
  <2>2. TypeOK'
    BY <1>5, <2>1, StepFrame DEF UnlockFrom, unlock, TypeOK, KVSTypeOK
  <2>3. Lo(x) /= Hi(x)
    BY <1>0, <2>1, StepFrame DEF DistinctKeys
  <2>4. Held(x) = {Lo(x), Hi(x)} /\ Held(x)' = Held(x) \ {Lo(x)}
    BY <2>1, <2>2, <2>3, StepFrame DEF Held
  <2>5. LockDiscipline'
    BY <1>5, <2>1, <2>4, StepFrame, UnlockKeeps DEF UnlockFrom, unlock
  <2>6. DistinctKeys' /\ NoLostUpdate'
    BY <1>5, <2>1, StepFrame DEF UnlockFrom, DistinctKeys, NoLostUpdate
  <2> QED
    BY <2>2, <2>5, <2>6
<1>6. CASE UnlockTo(x)
  <2>1. Step(x, "unlockTo", "done") /\ "done" \in Phase
    BY <1>6 DEF UnlockTo, Phase
  <2>2. TypeOK'
    BY <1>6, <2>1, StepFrame DEF UnlockTo, unlock, TypeOK, KVSTypeOK
  <2>3. Held(x) = {Hi(x)} /\ Held(x)' = {}
    BY <2>1, <2>2, StepFrame DEF Held
  <2>4. LockDiscipline'
    BY <1>6, <2>1, <2>3, StepFrame, UnlockKeeps DEF UnlockTo, unlock
  <2>5. DistinctKeys' /\ NoLostUpdate'
    BY <1>6, <2>1, StepFrame DEF UnlockTo, DistinctKeys, NoLostUpdate
  <2> QED
    BY <2>2, <2>4, <2>5
<1> QED
  BY <1>1, <1>2, <1>3, <1>4, <1>5, <1>6 DEF commitWork

LEMMA StutterKeeps == IInv /\ UNCHANGED vars => IInv'
<1> SUFFICES ASSUME IInv, UNCHANGED vars PROVE IInv'
  OBVIOUS
<1>1. \A x \in Xact : Held(x)' = Held(x)
  BY DEF vars, Held
<1>2. TypeOK' /\ DistinctKeys' /\ NoLostUpdate'
  BY DEF vars, IInv, TypeOK, KVSTypeOK, DistinctKeys, NoLostUpdate
<1>3. LockDiscipline'
  BY <1>1 DEF vars, IInv, LockDiscipline
<1> QED
  BY <1>2, <1>3 DEF IInv

\* The inductive invariant holds in every state of every behaviour.
THEOREM Invariance == Spec => []IInv
<1>1. IInv /\ [Next]_vars => IInv'
  BY transferWorkKeeps, commitWorkKeeps, StutterKeeps DEF Next
<1> QED
  BY InitHolds, <1>1, PTL DEF Spec

-----------------------------------------------------------------------------
(* The safety properties *)

\* Every balance and every value that commitWork has read stays in the range
\* of the C type, and every phase is one of those of the two functions.
THEOREM TypeCorrect == Spec => []TypeOK
  BY Invariance, PTL DEF IInv

\* A key is locked exactly while one request holds it (twopl.cc): no lock is
\* leaked and none is given to two requests.
THEOREM LockDisciplineHolds == Spec => []LockDiscipline
  BY Invariance, PTL DEF IInv

\* What commitWork read is current until it overwrites it itself.
THEOREM NoLostUpdateHolds == Spec => []NoLostUpdate
  BY Invariance, PTL DEF IInv

-----------------------------------------------------------------------------
(* The refinement of Bank *)

\* The request, if any, whose debit of k is not yet followed by its credit.
HalfDone(x, k) == phase[x] = "credit" /\ Lo(x) = k

\* What CommittedView says of a key: the value that a half-done request read,
\* or else the value in the store.
ViewOf(k) ==
    /\ \A x \in Xact : HalfDone(x, k) => CommittedView[k] = seen[x].from
    /\ (\A x \in Xact : ~ HalfDone(x, k)) => CommittedView[k] = value[k]

\* At most one request is half done on a key, so that its committed value is
\* well defined.
LEMMA ViewAt == IInv => \A k \in Key : ViewOf(k)
<1> SUFFICES ASSUME IInv, NEW k \in Key PROVE ViewOf(k)
  OBVIOUS
<1>1. ASSUME NEW x \in Xact, HalfDone(x, k)
      PROVE  CommittedView[k] = seen[x].from
  <2>1. \A y \in Xact : HalfDone(y, k) => k \in Held(y)
    BY HeldByPhase DEF IInv, HalfDone
  <2>2. \A y \in Xact : HalfDone(y, k) => y = x
    BY <1>1, <2>1 DEF IInv, LockDiscipline
  <2>3. x = CHOOSE y \in Xact : phase[y] = "credit" /\ Lo(y) = k
    BY <1>1, <2>2 DEF HalfDone
  <2> QED
    BY <1>1, <2>3 DEF CommittedView, HalfDone
<1> QED
  BY <1>1 DEF CommittedView, HalfDone, ViewOf

LEMMA ViewAtNext == (IInv => \A k \in Key : ViewOf(k))'
  BY ViewAt, PTL

\* While a request holds a key no other request is half done on it.
LEMMA HeldIsWhole ==
    ASSUME IInv, NEW x \in Xact, NEW k \in Held(x), NEW y \in Xact, x /= y
    PROVE  ~ HalfDone(y, k)
  BY HeldByPhase DEF IInv, LockDiscipline, HalfDone

LEMMA SameWrap == ASSUME NEW v PROVE TheBank!Wrap(v) = Wrap(v)
  BY DEF TheBank!Wrap, TheBank!Modulus, Wrap, Modulus

\* The committed view and the applied requests are functions of the half-done
\* requests, the values of the keys and the phases.
LEMMA ViewUnchanged ==
    ASSUME IInv, IInv',
           \A k \in Key :
              \/ \E x \in Xact : /\ HalfDone(x, k) /\ HalfDone(x, k)'
                                 /\ seen'[x] = seen[x]
              \/ /\ \A x \in Xact : ~ HalfDone(x, k) /\ ~ HalfDone(x, k)'
                 /\ value'[k] = value[k]
    PROVE  CommittedView' = CommittedView
<1>1. ASSUME NEW k \in Key PROVE CommittedView'[k] = CommittedView[k]
  BY <1>1, ViewAt, ViewAtNext DEF ViewOf
<1> QED
  BY <1>1 DEF CommittedView

\* The initial state is an initial state of Bank.
LEMMA BankInit == Init => TheBank!Init
<1> SUFFICES ASSUME Init PROVE TheBank!Init
  OBVIOUS
<1>1. IInv /\ \A x \in Xact : phase[x] = "new"
  BY InitHolds DEF Init
<1>2. \A k \in Key : CommittedView[k] = InitValue[k]
  BY <1>1, ViewAt DEF HalfDone, ViewOf, Init, KVSInit
<1>3. CommittedView = InitValue
  BY <1>2, InitValueAssumption DEF CommittedView
<1> QED
  BY <1>1, <1>3 DEF TheBank!Init, Applied

\* Every step that is not one of the two updates is a stutter of Bank: the
\* half-done requests, what they read, and the values are the same.
LEMMA BankStutter ==
    ASSUME IInv, IInv', NEW x \in Xact, NEW p, NEW q \in Phase, Step(x, p, q),
           value' = value, \A y \in Xact : y /= x => seen'[y] = seen[y],
           p /= "credit", q /= "credit",
           p \in {"unlockFrom", "unlockTo", "done"}
              <=> q \in {"unlockFrom", "unlockTo", "done"}
    PROVE  UNCHANGED TheBank!bankVars
<1>1. /\ phase[x] = p /\ phase'[x] = q
      /\ \A y \in Xact : y /= x => phase'[y] = phase[y]
  BY StepFrame DEF IInv
<1>2. \A y \in Xact, k \in Key : HalfDone(y, k)' <=> HalfDone(y, k)
  BY <1>1 DEF HalfDone
<1>3. \A y \in Xact, k \in Key : HalfDone(y, k) => y /= x
  BY <1>1 DEF HalfDone
<1>4. CommittedView' = CommittedView
  BY <1>2, <1>3, ViewUnchanged
<1>5. Applied' = Applied
  BY <1>1 DEF Applied
<1> QED
  BY <1>4, <1>5 DEF TheBank!bankVars

\* The debit is hidden: the committed value of [from] is what was read.
LEMMA BankDebit ==
    ASSUME IInv, IInv', NEW x \in Xact, UpdateFrom(x)
    PROVE  UNCHANGED TheBank!bankVars
<1>1. Step(x, "debit", "credit") /\ seen' = seen
  BY DEF UpdateFrom
<1>2. /\ phase[x] = "debit" /\ phase'[x] = "credit"
      /\ \A y \in Xact : y /= x => phase'[y] = phase[y]
  BY <1>1, StepFrame DEF IInv, Phase
<1>3. Lo(x) \in Held(x) /\ value[Lo(x)] = seen[x].from
  BY <1>2, HeldByPhase DEF IInv, NoLostUpdate
<1>4. \A k \in Key : k /= Lo(x) => value'[k] = value[k]
  BY DEF UpdateFrom, index_update, IInv, TypeOK, KVSTypeOK
<1>5. \A y \in Xact : ~ HalfDone(y, Lo(x))
  BY <1>2, <1>3, HeldIsWhole DEF HalfDone
<1>6. \A k \in Key : CommittedView'[k] = CommittedView[k]
  <2> SUFFICES ASSUME NEW k \in Key PROVE CommittedView'[k] = CommittedView[k]
    OBVIOUS
  <2>1. CASE k = Lo(x)
    <3>1. CommittedView[k] = seen[x].from
      BY <1>3, <1>5, <2>1, ViewAt DEF ViewOf
    <3>2. HalfDone(x, k)'
      BY <1>2, <2>1 DEF HalfDone
    <3> QED
      BY <1>1, <3>1, <3>2, ViewAtNext DEF ViewOf
  <2>2. CASE k /= Lo(x)
    <3>1. \A y \in Xact : HalfDone(y, k)' <=> HalfDone(y, k)
      BY <1>2, <2>2 DEF HalfDone
    <3> QED
      BY <1>1, <1>4, <2>2, <3>1, ViewAt, ViewAtNext DEF ViewOf
  <2> QED
    BY <2>1, <2>2
<1>7. CommittedView' = CommittedView
  BY <1>6 DEF CommittedView
<1>8. Applied' = Applied
  BY <1>2 DEF Applied
<1> QED
  BY <1>7, <1>8 DEF TheBank!bankVars

\* The second index_update is the instant of the transfer.
LEMMA BankTransfer ==
    ASSUME IInv, IInv', NEW x \in Xact, UpdateTo(x)
    PROVE  TheBank!Transfer(x)
<1>1. Step(x, "credit", "unlockFrom") /\ seen' = seen
  BY DEF UpdateTo
<1>2. /\ phase[x] = "credit" /\ phase'[x] = "unlockFrom"
      /\ \A y \in Xact : y /= x => phase'[y] = phase[y]
  BY <1>1, StepFrame DEF IInv, Phase
<1>3. /\ Held(x) = {Lo(x), Hi(x)} /\ Lo(x) \in Key /\ Hi(x) \in Key
      /\ Lo(x) /= Hi(x)
  BY <1>2, HeldByPhase, SortedKeys DEF IInv, DistinctKeys
<1>4. /\ value[Lo(x)] = Wrap(seen[x].from - Diff[x])
      /\ value[Hi(x)] = seen[x].to
  BY <1>2 DEF IInv, NoLostUpdate
<1>5. value' = [value EXCEPT ![Hi(x)] = Wrap(seen[x].to + Diff[x])]
  BY DEF UpdateTo, index_update
<1>6. HalfDone(x, Lo(x)) /\ ~ HalfDone(x, Hi(x))
  BY <1>2, <1>3 DEF HalfDone
<1>7. \A y \in Xact : y /= x => ~ HalfDone(y, Lo(x)) /\ ~ HalfDone(y, Hi(x))
  BY <1>3, HeldIsWhole
<1>8. \A y \in Xact, k \in Key :
         HalfDone(y, k)' <=> HalfDone(y, k) /\ y /= x
  BY <1>2 DEF HalfDone
<1>9. CommittedView[Lo(x)] = seen[x].from /\ CommittedView[Hi(x)] = seen[x].to
  BY <1>3, <1>4, <1>6, <1>7, ViewAt DEF ViewOf
<1>10. CommittedView'[Lo(x)] = Wrap(seen[x].from - Diff[x])
  BY <1>3, <1>4, <1>5, <1>7, <1>8, ViewAtNext DEF ViewOf, IInv, TypeOK, KVSTypeOK
<1>11. CommittedView'[Hi(x)] = Wrap(seen[x].to + Diff[x])
  BY <1>3, <1>5, <1>7, <1>8, ViewAtNext DEF ViewOf, IInv, TypeOK, KVSTypeOK
<1>12. ASSUME NEW k \in Key, k /= Lo(x), k /= Hi(x)
       PROVE  CommittedView'[k] = CommittedView[k]
  <2>1. value'[k] = value[k]
    BY <1>5, <1>12 DEF IInv, TypeOK, KVSTypeOK
  <2>2. ~ HalfDone(x, k)
    BY <1>12 DEF HalfDone
  <2> QED
    BY <1>1, <1>8, <2>1, <2>2, ViewAt, ViewAtNext DEF ViewOf
<1>13. CommittedView' = [CommittedView EXCEPT
                           ![Lo(x)] = Wrap(CommittedView[Lo(x)] - Diff[x]),
                           ![Hi(x)] = Wrap(CommittedView[Hi(x)] + Diff[x])]
  BY <1>3, <1>9, <1>10, <1>11, <1>12 DEF CommittedView
<1>14. x \notin Applied /\ Applied' = Applied \cup {x}
  BY <1>2 DEF Applied
<1> QED
  BY <1>3, <1>13, <1>14, SameWrap DEF TheBank!Transfer

\* Each step of TwoPL is a step or a stutter of Bank.
LEMMA BankStep == IInv /\ IInv' /\ [Next]_vars => [TheBank!Next]_(TheBank!bankVars)
<1> SUFFICES ASSUME IInv, IInv', [Next]_vars
             PROVE  TheBank!Next \/ UNCHANGED TheBank!bankVars
  OBVIOUS
<1>1. ASSUME NEW x \in Xact, transferWork(x)
      PROVE  UNCHANGED TheBank!bankVars
  BY <1>1, BankStutter
  DEF transferWork, AssertFails, LockFrom, LockTo, LockToBusy, Release, Phase
<1>2. ASSUME NEW x \in Xact, ReadFrom(x) \/ ReadTo(x)
      PROVE  UNCHANGED TheBank!bankVars
  <2>1. \A y \in Xact : y /= x => seen'[y] = seen[y]
    BY <1>2 DEF ReadFrom, ReadTo, IInv, TypeOK
  <2> QED
    BY <1>2, <2>1, BankStutter DEF ReadFrom, ReadTo, kvsVars, Phase
<1>3. ASSUME NEW x \in Xact, UnlockFrom(x) \/ UnlockTo(x)
      PROVE  UNCHANGED TheBank!bankVars
  BY <1>3, BankStutter DEF UnlockFrom, UnlockTo, Phase
<1>4. ASSUME NEW x \in Xact, UpdateTo(x) PROVE TheBank!Next
  BY <1>4, BankTransfer DEF TheBank!Next
<1>5. CASE UNCHANGED vars
  BY <1>5 DEF vars, TheBank!bankVars, CommittedView, Applied
<1> QED
  BY <1>1, <1>2, <1>3, <1>4, <1>5, BankDebit DEF Next, commitWork

\* Two-phase locking implements Bank (twopl.cc): whatever the interleaving,
\* every transfer takes effect atomically and at most once.
THEOREM Refinement == Spec => ImplementsBank
  BY BankInit, Invariance, BankStep, PTL DEF Spec, ImplementsBank, TheBank!Spec

-----------------------------------------------------------------------------
(* Money *)

\* What one key gains is what the other loses, up to multiples of the width.
LEMMA TransferConserves ==
    ASSUME IsFiniteSet(Key), NEW f \in [Key -> Int], NEW a \in Key, NEW b \in Key,
           a /= b, NEW d \in Int,
           NEW h \in [Key -> Int], h[a] = Wrap(f[a] - d), h[b] = Wrap(f[b] + d),
           \A k \in Key : k /= a /\ k /= b => h[k] = f[k]
    PROVE  Wrap(Total(h)) = Wrap(Total(f))
<1> DEFINE va == h[a]
           vb == h[b]
           g == [f EXCEPT ![a] = va]
<1>1. f[a] - d \in Int /\ f[b] + d \in Int
  OBVIOUS
<1>2. va \in Int /\ vb \in Int
  OBVIOUS
<1>3. PICK p \in Int : va = f[a] - d + p * Modulus
  BY <1>1, WrapByWidth
<1>4. PICK q \in Int : vb = f[b] + d + q * Modulus
  BY <1>1, WrapByWidth
<1>5. /\ g \in [Key -> Int] /\ g[a] = va /\ g[b] = f[b]
      /\ \A k \in Key : k /= a => g[k] = f[k]
      /\ \A k \in Key : k /= b => h[k] = g[k]
  OBVIOUS
<1> HIDE DEF g
<1>6. Total(g) = Total(f) - f[a] + va
  BY <1>5, SumUpdate DEF Total
<1>7. Total(f) \in Int
  BY SumType DEF Total
<1>8. Total(h) = Total(g) - g[b] + vb
  BY <1>5, SumUpdate DEF Total
<1> HIDE DEF va, vb
<1>9. Modulus \in Int /\ p * Modulus \in Int /\ q * Modulus \in Int
  BY WidthIsPositive
<1>10. Total(h) = Total(f) + (p * Modulus + q * Modulus)
  <2> DEFINE tf == Total(f)
             th == Total(h)
             tg == Total(g)
  <2>1. f[a] \in Int /\ f[b] \in Int /\ tf \in Int
    BY <1>7
  <2>2. th = tg - f[b] + vb /\ tg = tf - f[a] + va
    BY <1>5, <1>6, <1>8
  <2> HIDE DEF tf, tg, th
  <2>3. th = tf + (p * Modulus + q * Modulus)
    BY <1>3, <1>4, <1>9, <2>1, <2>2
  <2> QED
    BY <2>3 DEF tf, th
<1>11. p * Modulus + q * Modulus = (p + q) * Modulus /\ p + q \in Int
  <2> DEFINE m == Modulus
  <2>1. m \in Int
    BY <1>9
  <2> HIDE DEF m
  <2>2. p * m + q * m = (p + q) * m
    BY <2>1
  <2> QED
    BY <2>2 DEF m
<1> QED
  BY <1>7, <1>10, <1>11, WrapIgnoresWidth

\* The committed balances are numbers of the C type.
LEMMA ViewType == IInv => CommittedView \in [Key -> Int]
<1> SUFFICES ASSUME IInv, NEW k \in Key PROVE CommittedView[k] \in Int
  BY DEF CommittedView
<1>1. ASSUME NEW x \in Xact, HalfDone(x, k)
      PROVE  CommittedView[k] \in Int
  <2>1. CommittedView[k] = seen[x].from
    BY <1>1, ViewAt DEF ViewOf
  <2> QED
    BY <2>1, Int32IsInt DEF IInv, TypeOK
<1>2. CASE \A x \in Xact : ~ HalfDone(x, k)
  <2>1. CommittedView[k] = value[k]
    BY <1>2, ViewAt DEF ViewOf
  <2> QED
    BY <2>1, Int32IsInt DEF IInv, TypeOK, KVSTypeOK
<1> QED
  BY <1>1, <1>2

\* Transfers move money and do not create it (twopl.cc): however the steps of
\* the requests interleave, and wherever the sums overflow, the total of the
\* committed balances stays what it was, modulo the width of the C type.
THEOREM MoneyIsConserved ==
    ASSUME IsFiniteSet(Key)
    PROVE  Spec => []MoneyConserved
<1>1. Init => MoneyConserved
  BY BankInit DEF TheBank!Init, MoneyConserved
<1>2. IInv /\ IInv' /\ [Next]_vars /\ MoneyConserved => MoneyConserved'
  <2> SUFFICES ASSUME IInv, IInv', [Next]_vars, MoneyConserved
               PROVE  MoneyConserved'
    OBVIOUS
  <2>1. ASSUME NEW x \in Xact, TheBank!Transfer(x)
        PROVE  MoneyConserved'
    <3> DEFINE a == Lo(x)
               b == Hi(x)
    <3>1. /\ a /= b
          /\ CommittedView' = [CommittedView EXCEPT
                                 ![a] = Wrap(CommittedView[a] - Diff[x]),
                                 ![b] = Wrap(CommittedView[b] + Diff[x])]
      BY <2>1, SameWrap DEF TheBank!Transfer
    <3>2. a \in Key /\ b \in Key /\ Diff[x] \in Int
      BY SortedKeys, RequestsAssumption, Int32IsInt
    <3> HIDE DEF a, b
    <3>3. PICK f : f = CommittedView
      OBVIOUS
    <3>4. f \in [Key -> Int]
      BY <3>3, ViewType
    <3>5. PICK h : h = CommittedView'
      OBVIOUS
    <3>6. h = [f EXCEPT ![a] = Wrap(f[a] - Diff[x]), ![b] = Wrap(f[b] + Diff[x])]
      BY <3>1, <3>3, <3>5
    <3>7. f[a] - Diff[x] \in Int /\ f[b] + Diff[x] \in Int
      BY <3>2, <3>4
    <3>8. /\ h \in [Key -> Int] /\ h[a] = Wrap(f[a] - Diff[x]) /\ h[b] = Wrap(f[b] + Diff[x])
          /\ \A k \in Key : k /= a /\ k /= b => h[k] = f[k]
      BY <3>1, <3>2, <3>4, <3>6, <3>7, WrapType, Int32IsInt
    <3>9. Wrap(Total(h)) = Wrap(Total(f))
      BY <3>1, <3>2, <3>4, <3>8, TransferConserves
    <3> QED
      BY <3>3, <3>5, <3>9 DEF MoneyConserved, Total
  <2>2. CASE UNCHANGED TheBank!bankVars
    BY <2>2 DEF TheBank!bankVars, MoneyConserved, Total
  <2> QED
    BY <2>1, <2>2, BankStep DEF TheBank!Next
<1> QED
  BY <1>1, <1>2, Invariance, PTL DEF Spec

-----------------------------------------------------------------------------
(* Giving way *)

HasFirst(x) == phase[x] \in {"lockTo", "release"}

HasBoth(x) ==
    phase[x] \in {"locked", "readTo", "debit", "credit", "unlockFrom", "unlockTo"}

\* A request gives its first key back only to one that has got both of its keys
\* or holds a larger one.
GivesWayUpwards ==
    \A x \in Xact : phase[x] = "lockTo" /\ busy(Hi(x)) =>
        \E y \in Xact :
            /\ Hi(x) \in Held(y)
            /\ HasBoth(y) \/ (HasFirst(y) /\ Lo(y) > Lo(x))

\* When requests have their first key and none has both, one of them finds its
\* second key free.
SomebodyGetsOn ==
    (\E x \in Xact : HasFirst(x)) /\ (\A x \in Xact : ~ HasBoth(x)) =>
        \E x \in Xact : HasFirst(x) /\ ~ busy(Hi(x))

\* whoever holds the second key of a request
LEMMA HolderIsAbove ==
    ASSUME IInv, NEW x \in Xact, HasFirst(x), busy(Hi(x))
    PROVE  \E y \in Xact :
              /\ Hi(x) \in Held(y)
              /\ HasBoth(y) \/ (HasFirst(y) /\ Lo(y) > Lo(x))
<1>1. PICK y \in Xact : Hi(x) \in Held(y)
  BY DEF IInv, LockDiscipline, busy
<1>2. HasBoth(y) \/ (HasFirst(y) /\ Hi(x) = Lo(y))
  BY <1>1, HeldByPhase DEF HasBoth, HasFirst, Held
<1>3. Lo(x) < Hi(x)
  <2>1. From[x] /= To[x]
    BY DEF IInv, DistinctKeys, HasFirst
  <2>2. From[x] \in Nat /\ To[x] \in Nat
    BY RequestsAssumption, DataAssumption
  <2> QED
    BY <2>1, <2>2 DEF Lo, Hi, Sorted
<1> QED
  BY <1>1, <1>2, <1>3

\* transferWork gives way only upwards, because it has sorted the keys: requests
\* that give way to each other never form a circle, and as long as none has got
\* both keys some request can get on, whatever the threads do.  This is what
\* EventuallyCommitted needs besides a fair schedule.
THEOREM GivingWayEnds ==
    /\ Spec => []GivesWayUpwards
    /\ IsFiniteSet(Xact) => (Spec => []SomebodyGetsOn)
<1>1. IInv => GivesWayUpwards
  BY HolderIsAbove DEF GivesWayUpwards, HasFirst
<1>2. ASSUME IsFiniteSet(Xact) PROVE IInv => SomebodyGetsOn
  <2> SUFFICES ASSUME IInv, \E x \in Xact : HasFirst(x), \A x \in Xact : ~ HasBoth(x)
               PROVE  \E x \in Xact : HasFirst(x) /\ ~ busy(Hi(x))
    BY DEF SomebodyGetsOn
  <2> DEFINE H == {x \in Xact : HasFirst(x)}
             f == [x \in H |-> Lo(x)]
  <2>1. IsFiniteSet(H) /\ H /= {}
    BY <1>2, FS_Subset
  <2>2. \A x \in H : f[x] = Lo(x) /\ f[x] \in Nat
    BY SortedKeys, DataAssumption
  <2>3. PICK x \in H : \A y \in H : f[y] <= f[x]
    <3> HIDE DEF H, f
    <3> QED
      BY <2>1, <2>2, LargestIs
  <2>4. ASSUME busy(Hi(x)) PROVE FALSE
    <3>1. PICK y \in Xact : HasFirst(y) /\ Lo(y) > Lo(x)
      BY <2>4, HolderIsAbove
    <3>2. f[y] <= f[x]
      BY <2>3, <3>1
    <3> QED
      BY <2>2, <3>1, <3>2
  <2> QED
    BY <2>4
<1>3. Spec => []GivesWayUpwards
  BY <1>1, Invariance, PTL
<1>4. ASSUME IsFiniteSet(Xact) PROVE Spec => []SomebodyGetsOn
  BY <1>2, <1>4, Invariance, PTL
<1> QED
  BY <1>3, <1>4
=============================================================================
