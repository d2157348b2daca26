--------------------------- MODULE Spinlock_proofs ---------------------------
(***************************************************************************)
(* The spinlock for every set of processors and every batch size.          *)
(***************************************************************************)
EXTENDS Spinlock, FiniteSetTheorems, TLAPS

(* What a step needs to know of the state before it: besides the           *)
(* properties, that a processor about to store has loaded the current      *)
(* value, and that a processor inside its loop has increments left.        *)
LockInv ==
    /\ LockTypeOK
    /\ MutualExclusion
    /\ WordTellsOwner
    /\ NoLostIncrement
    /\ \A c \in CPU : at[c] = "store" => reg[c] = shared
    /\ \A c \in CPU : at[c] # "out" => work[c] < BATCH

(* The increments made are finitely many. *)
LEMMA StoredFinite == IsFiniteSet(Stored)
<1>1. IsFiniteSet(1 .. BATCH)
  BY FS_Interval, SpinlockAssumption
<1>2. IsFiniteSet(CPU \X (1 .. BATCH))
  BY <1>1, FS_Product, SpinlockAssumption
<1>3. Stored \in SUBSET (CPU \X (1 .. BATCH))
  BY DEF Stored
<1> QED
  BY <1>2, <1>3, FS_Subset

(* The lock starts free, with nothing stored. *)
LEMMA LockInitSound == LockInit => LockInv
<1> SUFFICES ASSUME LockInit PROVE LockInv
  OBVIOUS
<1> USE SpinlockAssumption
<1>1. LockTypeOK
  BY DEF LockInit, LockTypeOK, Places
<1>2. Holders = {}
  BY DEF LockInit, Holders, Critical
<1>3. Stored = {}
  BY DEF LockInit, Stored
<1>4. NoLostIncrement
  BY <1>3, FS_EmptySet DEF LockInit, NoLostIncrement
<1> QED
  BY <1>1, <1>2, <1>4 DEF LockInv, LockInit, MutualExclusion, WordTellsOwner

(* A step that neither stores nor releases leaves the stored increments    *)
(* alone.                                                                  *)
LEMMA StoredUnchanged ==
    ASSUME LockTypeOK, work' = work, NEW c \in CPU, NEW place,
           at' = [at EXCEPT ![c] = place], at[c] # "release", place # "release"
    PROVE  Stored' = Stored
<1>1. \A d \in CPU : at'[d] = "release" <=> at[d] = "release"
  BY DEF LockTypeOK
<1> QED
  BY <1>1 DEF Stored

(* One step of one processor preserves the invariant. *)
LEMMA LockStepSound ==
    ASSUME LockInv, NEW c \in CPU, StartBatch(c) \/ LockStep(c)
    PROVE  LockInv'
<1> USE SpinlockAssumption
<1>1. CASE StartBatch(c)
  <2>1. Stored' = Stored
    BY <1>1, StoredUnchanged DEF LockInv, StartBatch
  <2>2. Holders' = Holders
    BY <1>1 DEF LockInv, LockTypeOK, StartBatch, Holders, Critical
  <2>3. LockTypeOK'
    BY <1>1 DEF LockInv, LockTypeOK, StartBatch, Places
  <2> QED
    BY <1>1, <2>1, <2>2, <2>3 DEF LockInv, LockTypeOK, MutualExclusion, WordTellsOwner, NoLostIncrement, StartBatch
<1>2. CASE TryAcquire(c)
  <2>1. Stored' = Stored
    BY <1>2, StoredUnchanged DEF LockInv, TryAcquire
  <2>2. Holders' = IF word = 0 THEN Holders \cup {c} ELSE Holders
    BY <1>2 DEF LockInv, LockTypeOK, TryAcquire, Holders, Critical
  <2>3. LockTypeOK'
    BY <1>2 DEF LockInv, LockTypeOK, TryAcquire, Places, Critical
  <2>4. MutualExclusion'
    BY <2>2 DEF LockInv, LockTypeOK, MutualExclusion, WordTellsOwner
  <2>5. WordTellsOwner'
    BY <1>2, <2>2 DEF LockInv, LockTypeOK, WordTellsOwner, TryAcquire
  <2> QED
    BY <1>2, <2>1, <2>3, <2>4, <2>5 DEF LockInv, LockTypeOK, NoLostIncrement, TryAcquire
<1>3. CASE Observe(c)
  <2>1. Stored' = Stored
    BY <1>3, StoredUnchanged DEF LockInv, Observe
  <2>2. Holders' = Holders
    BY <1>3 DEF LockInv, LockTypeOK, Observe, Holders, Critical
  <2>3. LockTypeOK'
    BY <1>3 DEF LockInv, LockTypeOK, Observe, Places
  <2> QED
    BY <1>3, <2>1, <2>2, <2>3 DEF LockInv, LockTypeOK, MutualExclusion, WordTellsOwner, NoLostIncrement, Observe
<1>4. CASE Load(c)
  <2>1. Stored' = Stored
    BY <1>4, StoredUnchanged DEF LockInv, Load
  <2>2. Holders' = Holders
    BY <1>4 DEF LockInv, LockTypeOK, Load, Holders, Critical
  <2>3. LockTypeOK'
    BY <1>4 DEF LockInv, LockTypeOK, Load, Places, Critical
  <2> QED
    BY <1>4, <2>1, <2>2, <2>3 DEF LockInv, LockTypeOK, MutualExclusion, WordTellsOwner, NoLostIncrement, Load
<1>5. CASE Store(c)
  <2>1. Holders' = Holders
    BY <1>5 DEF LockInv, LockTypeOK, Store, Holders, Critical
  <2>2. LockTypeOK'
    BY <1>5 DEF LockInv, LockTypeOK, Store, Places, Critical
  <2>3. <<c, work[c] + 1>> \notin Stored
    BY <1>5 DEF Stored, Store, LockInv, LockTypeOK
  <2>4. Stored' = Stored \cup {<<c, work[c] + 1>>}
    <3>1. \A d \in CPU : d # c => at'[d] = at[d]
      BY <1>5 DEF Store, LockInv, LockTypeOK
    <3>2. at'[c] = "release" /\ at[c] = "store" /\ work' = work
      BY <1>5 DEF Store, LockInv, LockTypeOK
    <3>3. work[c] \in Nat /\ work[c] + 1 \in 1 .. BATCH
      BY <1>5 DEF Store, LockInv, LockTypeOK
    <3>4. \A i \in 1 .. BATCH : i <= work[c] + 1 <=> i <= work[c] \/ i = work[c] + 1
      BY <3>3
    <3>5. ASSUME NEW d \in CPU, NEW i \in 1 .. BATCH
          PROVE  <<d, i>> \in Stored' <=> <<d, i>> \in Stored \/ (d = c /\ i = work[c] + 1)
      <4>1. CASE d = c
        BY <4>1, <3>2, <3>4 DEF Stored, LockInv, LockTypeOK
      <4>2. CASE d # c
        BY <4>2, <3>1, <3>2 DEF Stored
      <4> QED BY <4>1, <4>2
    <3> QED
      BY <3>3, <3>5 DEF Stored
  <2>5. NoLostIncrement'
    <3>1. Cardinality(Stored') = Cardinality(Stored) + 1
      BY <2>3, <2>4, StoredFinite, FS_AddElement
    <3>2. reg[c] = shared
      BY <1>5 DEF LockInv, Store
    <3> QED
      BY <3>1, <3>2, <1>5 DEF LockInv, NoLostIncrement, Store
  <2>6. \A d \in CPU : at'[d] # "store"
    BY <1>5 DEF LockInv, LockTypeOK, MutualExclusion, Holders, Critical, Store
  <2> QED
    BY <1>5, <2>1, <2>2, <2>5, <2>6 DEF LockInv, LockTypeOK, MutualExclusion, WordTellsOwner, Store
<1>6. CASE Release(c)
  <2>1. Holders = {c}
    BY <1>6 DEF LockInv, MutualExclusion, Holders, Critical, Release
  <2>2. Holders' = {}
    <3>1. \A d \in CPU : d # c => at'[d] = at[d] /\ d \notin Holders
      BY <1>6, <2>1 DEF LockInv, LockTypeOK, Release
    <3>2. at'[c] \in {"try", "out"}
      BY <1>6 DEF LockInv, LockTypeOK, Release
    <3> QED
      BY <3>1, <3>2 DEF Holders, Critical
  <2>3. LockTypeOK'
    BY <1>6 DEF LockInv, LockTypeOK, Release, Places
  <2>4. Stored' = Stored
    <3>1. \A d \in CPU : d # c => at'[d] = at[d] /\ work'[d] = work[d]
      BY <1>6 DEF LockInv, LockTypeOK, Release
    <3>2. work'[c] = work[c] + 1 /\ at[c] = "release" /\ at'[c] # "release" /\ work[c] \in Nat
      BY <1>6 DEF LockInv, LockTypeOK, Release
    <3>3. ASSUME NEW d \in CPU, NEW i \in 1 .. BATCH
          PROVE  <<d, i>> \in Stored' <=> <<d, i>> \in Stored
      <4>1. CASE d = c
        BY <4>1, <3>2 DEF Stored
      <4>2. CASE d # c
        BY <4>2, <3>1 DEF Stored
      <4> QED BY <4>1, <4>2
    <3> QED
      BY <3>3 DEF Stored
  <2>5. \A d \in CPU : at'[d] # "store"
    BY <2>2 DEF Holders, Critical
  <2>6. \A d \in CPU : at'[d] # "out" => work'[d] < BATCH
    BY <1>6 DEF LockInv, LockTypeOK, Release
  <2> QED
    BY <1>6, <2>2, <2>3, <2>4, <2>5, <2>6 DEF LockInv, MutualExclusion, WordTellsOwner, NoLostIncrement, Release
<1> QED
  BY <1>1, <1>2, <1>3, <1>4, <1>5, <1>6 DEF LockStep

(* spinlock_init before another round of batches preserves it too. *)
LEMMA RestartSound == LockInv /\ Restart => LockInv'
<1> SUFFICES ASSUME LockInv, Restart PROVE LockInv'
  OBVIOUS
<1> USE SpinlockAssumption
<1>1. LockTypeOK'
  BY DEF LockInv, LockTypeOK, Restart
<1>2. Holders' = {}
  BY DEF Restart, Holders, Critical
<1>3. Stored' = {}
  BY DEF Restart, Stored
<1>4. NoLostIncrement'
  BY <1>3, FS_EmptySet DEF Restart, NoLostIncrement
<1> QED
  BY <1>1, <1>2, <1>4 DEF LockInv, Restart, MutualExclusion, WordTellsOwner

(* The invariant holds in every reachable state. *)
THEOREM LockInvariance == LockSpec => []LockInv
<1>1. LockInv /\ UNCHANGED lockVars => LockInv'
  BY DEF LockInv, LockTypeOK, MutualExclusion, WordTellsOwner, NoLostIncrement, Holders, Stored, lockVars
<1>2. LockInv /\ LockNext => LockInv'
  BY LockStepSound, RestartSound DEF LockNext
<1> QED
  BY LockInitSound, <1>1, <1>2, PTL DEF LockSpec

(* Two processors are never both past a successful try of spinlock_acquire *)
(* and before their spinlock_release.                                      *)
THEOREM LockExcludes == LockSpec => []MutualExclusion
<1>1. LockInv => MutualExclusion
  BY DEF LockInv
<1> QED
  BY LockInvariance, <1>1, PTL

(* A failed spinlock_try_acquire, which writes 1 too, never leaves the     *)
(* lock taken without an owner, and no release frees another's lock.       *)
THEOREM WordIsOwnership == LockSpec => []WordTellsOwner
<1>1. LockInv => WordTellsOwner
  BY DEF LockInv
<1> QED
  BY LockInvariance, <1>1, PTL

(* The ordinary load and store under the lock lose no increment. *)
THEOREM IncrementsKept == LockSpec => []NoLostIncrement
<1>1. LockInv => NoLostIncrement
  BY DEF LockInv
<1> QED
  BY LockInvariance, <1>1, PTL

(* After all batches the shared word is the number of processors times the *)
(* batch size, the value the contention test asks for.                     *)
THEOREM TotalIsExact == LockSpec => []ExactTotal
<1>1. LockInv => ExactTotal
  <2> SUFFICES ASSUME LockInv, Finished PROVE shared = Cardinality(CPU) * BATCH
    BY DEF ExactTotal
  <2>1. Stored = CPU \X (1 .. BATCH)
    BY SpinlockAssumption DEF Stored, Finished
  <2>2. IsFiniteSet(1 .. BATCH) /\ Cardinality(1 .. BATCH) = BATCH
    BY FS_Interval, SpinlockAssumption
  <2>3. Cardinality(CPU \X (1 .. BATCH)) = Cardinality(CPU) * BATCH
    BY <2>2, FS_Product, SpinlockAssumption
  <2> QED
    BY <2>1, <2>3 DEF LockInv, NoLostIncrement
<1> QED
  BY LockInvariance, <1>1, PTL
=============================================================================
