------------------------------ MODULE Spinlock ------------------------------
(***************************************************************************)
(* The spinlock of os/kernel/sync.vnt under its one workload: every        *)
(* processor adds 1 to a shared word BATCH times with an ordinary load and *)
(* an ordinary store, each time between spinlock_acquire and               *)
(* spinlock_release (the loops of smp_handle_ipi and of                    *)
(* smp_spinlock_contention_self_test).                                     *)
(*                                                                         *)
(* An exchange is one step, because XCHG locks the bus; the load and the   *)
(* store of the protected word are two.                                    *)
(***************************************************************************)
EXTENDS Naturals, FiniteSets

CONSTANTS
    CPU,      \* the processors that take part
    BATCH     \* increments per processor (1000 in the code)

ASSUME SpinlockAssumption == IsFiniteSet(CPU) /\ BATCH \in Nat \ {0}

VARIABLES
    word,     \* the u64 at vntos_sync_test_lock
    at,       \* what each processor does next
    reg,      \* the value each processor loaded from the shared word
    shared,   \* state slot 313
    work      \* increments each processor has completed in this batch

lockVars == <<word, at, reg, shared, work>>

Critical == {"load", "store", "release"}
Places == {"out", "try", "spin"} \cup Critical

LockInit ==
    /\ word = 0
    /\ at = [c \in CPU |-> "out"]
    /\ reg = [c \in CPU |-> 0]
    /\ shared = 0
    /\ work = [c \in CPU |-> 0]

(* The loop header of a batch, with its counter still at zero. *)
StartBatch(c) ==
    /\ at[c] = "out" /\ work[c] = 0
    /\ at' = [at EXCEPT ![c] = "try"]
    /\ UNCHANGED <<word, reg, shared, work>>

(* Mutant: a plain read and a later write in place of the exchange. *)
TryByReading(c) ==
    /\ at[c] \in {"try", "spin"}
    /\ IF at[c] = "try" THEN word = 0 /\ at' = [at EXCEPT ![c] = "spin"] /\ word' = word
       ELSE word' = 1 /\ at' = [at EXCEPT ![c] = "load"]
    /\ UNCHANGED <<reg, shared, work>>

(* spinlock_try_acquire inside spinlock_acquire: the exchange writes 1     *)
(* whoever holds the lock.                                                 *)
TryAcquire(c) ==
    /\ at[c] = "try"
    /\ word' = 1
    /\ at' = [at EXCEPT ![c] = IF word = 0 THEN "load" ELSE "spin"]
    /\ UNCHANGED <<reg, shared, work>>

(* The inner loop of spinlock_acquire ends when it reads 0; a read of 1    *)
(* changes nothing.                                                        *)
Observe(c) ==
    /\ at[c] = "spin" /\ word = 0
    /\ at' = [at EXCEPT ![c] = "try"]
    /\ UNCHANGED <<word, reg, shared, work>>

Load(c) ==
    /\ at[c] = "load"
    /\ reg' = [reg EXCEPT ![c] = shared]
    /\ at' = [at EXCEPT ![c] = "store"]
    /\ UNCHANGED <<word, shared, work>>

Store(c) ==
    /\ at[c] = "store"
    /\ shared' = reg[c] + 1
    /\ at' = [at EXCEPT ![c] = "release"]
    /\ UNCHANGED <<word, reg, work>>

(* Mutant: the lock is not given back. *)
ReleaseNotHeld(c) ==
    /\ at[c] = "release"
    /\ work' = [work EXCEPT ![c] = @ + 1]
    /\ at' = [at EXCEPT ![c] = IF work[c] + 1 < BATCH THEN "try" ELSE "out"]
    /\ UNCHANGED <<word, reg, shared>>

(* spinlock_release and the end of the loop body. *)
Release(c) ==
    /\ at[c] = "release"
    /\ word' = 0
    /\ work' = [work EXCEPT ![c] = @ + 1]
    /\ at' = [at EXCEPT ![c] = IF work[c] + 1 < BATCH THEN "try" ELSE "out"]
    /\ UNCHANGED <<reg, shared>>

LockStep(c) == TryAcquire(c) \/ Observe(c) \/ Load(c) \/ Store(c) \/ Release(c)

(* The next contention test: spinlock_init and a fresh counter, while no   *)
(* processor uses the lock.                                                *)
Restart ==
    /\ \A c \in CPU : at[c] = "out"
    /\ word' = 0
    /\ shared' = 0
    /\ work' = [c \in CPU |-> 0]
    /\ UNCHANGED <<at, reg>>

LockNext == Restart \/ \E c \in CPU : StartBatch(c) \/ LockStep(c)

LockSpec == LockInit /\ [][LockNext]_lockVars
-----------------------------------------------------------------------------
LockTypeOK ==
    /\ word \in {0, 1}
    /\ at \in [CPU -> Places]
    /\ reg \in [CPU -> Nat]
    /\ shared \in Nat
    /\ work \in [CPU -> 0 .. BATCH]

Holders == {c \in CPU : at[c] \in Critical}

(* At most one processor is between a successful exchange in               *)
(* spinlock_try_acquire and its spinlock_release.                          *)
MutualExclusion == \A c, d \in Holders : c = d

(* The word says 1 exactly while a processor owns the lock: a failing      *)
(* spinlock_try_acquire, which also writes 1, never leaves an unowned lock *)
(* taken, and no spinlock_release frees somebody else's lock.              *)
WordTellsOwner == word = 1 <=> Holders # {}

(* The increments that have reached the shared word. *)
Stored ==
    {t \in CPU \X (1 .. BATCH) :
        t[2] <= work[t[1]] + (IF at[t[1]] = "release" THEN 1 ELSE 0)}

(* No increment of the shared word is lost although it is made of an       *)
(* ordinary load and an ordinary store.                                    *)
NoLostIncrement == shared = Cardinality(Stored)

Finished == \A c \in CPU : at[c] = "out" /\ work[c] = BATCH

(* When every processor has run its batch the shared word holds the total  *)
(* that smp_spinlock_contention_self_test compares it with.                *)
ExactTotal == Finished => shared = Cardinality(CPU) * BATCH
=============================================================================
