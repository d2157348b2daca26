--------------------------- MODULE PhysMem_proofs ---------------------------
(***************************************************************************)
(* Proofs about the page-frame allocator, for every size of memory, every  *)
(* memory map and every sequence of calls.                                 *)
(*                                                                         *)
(* Sound(b, m) is the inductive invariant: allocator state m is consistent *)
(* with boot information b.  Each operation of phys.vnt is shown to        *)
(* preserve it, so that a function that calls several of them              *)
(* (phys_self_test) preserves it by composition.  ScanInv is the loop      *)
(* invariant of the searches.                                              *)
(***************************************************************************)
EXTENDS PhysSearch, FiniteSetTheorems, TLAPS

AllocatorType ==
  [usable : SUBSET Allocatable, allocated : SUBSET Frames, reserved : SUBSET Frames,
   total : Nat, free : Int, cursor : Allocatable \cup {0}]

Sound(b, m) ==
  /\ m \in AllocatorType
  /\ m.usable \subseteq UsableFrames(b.regions)
  /\ m.total = Cardinality(m.usable)
  /\ m.free = Cardinality(FreeFrames(m))
  /\ m.reserved \subseteq m.allocated
  /\ m.allocated \subseteq m.usable \cup BootFrames(b)
  /\ BootFrames(b) \cap m.usable \subseteq m.reserved
  /\ m.cursor \in Allocatable \/ m.usable = {}

-----------------------------------------------------------------------------
(* Facts about frames, minima and addresses.                               *)

\* The frames, and any set of them, are finite.
LEMMA FramesFinite ==
  /\ IsFiniteSet(Frames) /\ IsFiniteSet(Allocatable)
  /\ Allocatable \subseteq Frames /\ Frames \subseteq Nat
  /\ \A f \in Allocatable : LOW <= f
  /\ \A S \in SUBSET Frames : IsFiniteSet(S) /\ Cardinality(S) \in Nat
<1>1. IsFiniteSet(Frames) /\ IsFiniteSet(Allocatable)
  BY PhysAssumption, FS_Interval DEF Frames, Allocatable
<1>2. /\ Allocatable \subseteq Frames /\ Frames \subseteq Nat
      /\ \A f \in Allocatable : LOW <= f
  <2>1. LOW \in Nat /\ LIMIT \in Nat
    BY PhysAssumption
  <2>. QED  BY <2>1 DEF Frames, Allocatable
<1>. QED  BY <1>1, <1>2, FS_Subset, FS_CardinalityType

\* A non-empty set of naturals has a minimum.
LEMMA MinInSet ==
  ASSUME NEW S \in SUBSET Nat, S # {}
  PROVE  Min(S) \in S /\ \A y \in S : Min(S) <= y
<1>1. \A a, b \in Nat : <<a, b>> \in OpToRel(<, Nat) <=> a < b
  BY DEF OpToRel
<1>2. PICK x \in S : \A y \in S : ~(<<y, x>> \in OpToRel(<, Nat))
  BY NatLessThanWellFounded, WFMin
<1>3. \A y \in S : ~(y < x)
  BY <1>1, <1>2, Zenon
<1>4. \A y \in S : x <= y
  BY <1>3
<1>. QED  BY <1>4 DEF Min

\* The next-fit search returns a candidate, and none only if there is none.
LEMMA NextFitSound ==
  ASSUME NEW m, NEW C \in SUBSET Allocatable
  PROVE  /\ NextFit(m, C) = 0 <=> C = {}
         /\ C # {} => NextFit(m, C) \in C
<1>. DEFINE above == {f \in C : f >= StartOf(m)}
<1>1. C \subseteq Nat /\ above \subseteq Nat /\ above \subseteq C /\ 0 \notin C
  <2>1. LOW \in Nat \ {0} /\ LIMIT \in Nat
    BY PhysAssumption
  <2>2. Allocatable \subseteq Nat /\ 0 \notin Allocatable
    BY <2>1 DEF Allocatable
  <2>. QED  BY <2>2
<1>2. above # {} => Min(above) \in above
  BY <1>1, MinInSet
<1>3. C # {} => Min(C) \in C
  BY <1>1, MinInSet
<1>. HIDE DEF above
<1>4. NextFit(m, C) = IF C = {} THEN 0 ELSE IF above # {} THEN Min(above) ELSE Min(C)
  BY DEF NextFit, above
<1>. QED  BY <1>1, <1>2, <1>3, <1>4

\* Division with remainder, by a positive divisor.
LEMMA DivisionFacts ==
  ASSUME NEW d \in Nat, d > 0, NEW x \in Nat
  PROVE  /\ x \div d \in Nat /\ (x \div d) * d <= x /\ x < (x \div d) * d + d
         /\ (x * d) \div d = x /\ (x * d) % d = 0
<1>1. x \div d \in Nat /\ (x \div d) * d <= x /\ x < (x \div d) * d + d
  OBVIOUS
<1>2. (x * d) \div d = x
  OBVIOUS
<1>3. (x * d) % d = 0
  OBVIOUS
<1>. QED  BY <1>1, <1>2, <1>3

-----------------------------------------------------------------------------
(* Every operation preserves Sound.                                        *)

LEMMA TakeSound ==
  ASSUME NEW b, NEW m, Sound(b, m), NEW first \in Allocatable, NEW n \in Nat \ {0},
         first .. first + n - 1 \subseteq FreeFrames(m)
  PROVE  /\ Sound(b, Take(m, first, n))
         /\ FreeFrames(Take(m, first, n)) = FreeFrames(m) \ (first .. first + n - 1)
<1>. DEFINE run == first .. first + n - 1
            t == Take(m, first, n)
<1>1. /\ m \in AllocatorType /\ run \subseteq m.usable
      /\ run \subseteq Allocatable /\ run \cap m.allocated = {}
  BY DEF Sound, FreeFrames
<1>2. first \in Int /\ n \in Int /\ LOW \in Int /\ LIMIT \in Int /\ first >= LOW
  BY PhysAssumption DEF Allocatable
<1>3. /\ t.usable = m.usable /\ t.reserved = m.reserved /\ t.total = m.total
      /\ t.allocated = m.allocated \cup run
      /\ t.free = m.free - n
      /\ t.cursor = IF first + n >= LIMIT THEN LOW ELSE first + n
  BY <1>1 DEF Take, AllocatorType
<1>4. t.cursor \in Allocatable
  BY <1>2, <1>3, PhysAssumption DEF Allocatable
<1>5. t \in AllocatorType
  <2>1. run \subseteq Frames
    BY <1>1, FramesFinite
  <2>2. m.free - n \in Int
    BY <1>1, <1>2 DEF AllocatorType
  <2>. QED  BY <1>1, <1>4, <2>1, <2>2 DEF Take, AllocatorType
<1>6. FreeFrames(t) = FreeFrames(m) \ run
  BY <1>3 DEF FreeFrames
<1>7. t.free = Cardinality(FreeFrames(t))
  <2>1. FreeFrames(m) \in SUBSET Frames
    BY FramesFinite DEF FreeFrames
  <2>2. /\ IsFiniteSet(FreeFrames(m)) /\ Cardinality(FreeFrames(m)) \in Nat
    BY <2>1, FramesFinite
  <2>3. Cardinality(run) = n
    BY <1>2, FS_Interval
  <2>4. FreeFrames(m) \cap run = run
    OBVIOUS
  <2>5. Cardinality(FreeFrames(m) \ run) = Cardinality(FreeFrames(m)) - Cardinality(run)
    BY <2>2, <2>4, FS_Difference
  <2>. QED  BY <1>3, <1>6, <2>3, <2>5 DEF Sound
<1>. QED  BY <1>1, <1>3, <1>4, <1>5, <1>6, <1>7 DEF Sound

\* A single page: phys_alloc_page.
LEMMA AllocPageSound ==
  ASSUME NEW b, NEW m, Sound(b, m)
  PROVE  /\ Sound(b, AllocPage(m))
         /\ PageFound(m) = 0 <=> FreeFrames(m) = {}
         /\ PageFound(m) # 0 => /\ PageFound(m) \in FreeFrames(m)
                                /\ AllocPage(m) = Take(m, PageFound(m), 1)
<1>1. FreeFrames(m) \in SUBSET Allocatable
  BY DEF FreeFrames
<1>2. /\ PageFound(m) = 0 <=> FreeFrames(m) = {}
      /\ FreeFrames(m) # {} => PageFound(m) \in FreeFrames(m)
  BY <1>1, NextFitSound DEF PageFound
<1>3. CASE PageFound(m) = 0
  <2>1. AllocPage(m) = [m EXCEPT !.cursor = StartOf(m)]
    BY <1>3 DEF AllocPage
  <2>2. StartOf(m) \in Allocatable
    BY PhysAssumption DEF StartOf, Allocatable
  <2>. QED  BY <1>2, <1>3, <2>1, <2>2 DEF Sound, AllocatorType, FreeFrames
<1>4. CASE PageFound(m) # 0
  <2>. DEFINE p == PageFound(m)
  <2>1. p \in FreeFrames(m) /\ p \in Allocatable /\ p \in Int
    BY <1>1, <1>2, <1>4 DEF Allocatable
  <2>2. p .. p + 1 - 1 \subseteq FreeFrames(m)
    BY <2>1
  <2>3. AllocPage(m) = Take(m, p, 1)
    BY <1>4 DEF AllocPage
  <2>. QED  BY <1>2, <2>1, <2>2, <2>3, TakeSound
<1>. QED  BY <1>3, <1>4

\* A run of pages: phys_alloc_contiguous_pages.
LEMMA AllocRunSound ==
  ASSUME NEW b, NEW m, Sound(b, m), NEW n \in Nat
  PROVE  /\ Sound(b, AllocRun(m, n)) /\ RunFound(m, n) \in Nat
         /\ RunFound(m, n) # 0 =>
              /\ RunFound(m, n) \in Allocatable /\ n \in Nat \ {0}
              /\ RunFound(m, n) .. RunFound(m, n) + n - 1 \subseteq FreeFrames(m)
              /\ AllocRun(m, n) = Take(m, RunFound(m, n), n)
<1>. DEFINE r == RunFound(m, n)
<1>1. CASE n \notin 1 .. LIMIT - LOW
  BY <1>1 DEF AllocRun, RunFound
<1>2. CASE n \in 1 .. LIMIT - LOW /\ r = 0
  <2>1. AllocRun(m, n) = [m EXCEPT !.cursor = StartOf(m)]
    BY <1>2 DEF AllocRun
  <2>2. StartOf(m) \in Allocatable
    BY PhysAssumption DEF StartOf, Allocatable
  <2>. QED  BY <1>2, <2>1, <2>2 DEF Sound, AllocatorType, FreeFrames
<1>3. CASE n \in 1 .. LIMIT - LOW /\ r # 0
  <2>1. FreeRuns(m, n) \in SUBSET Allocatable
    BY DEF FreeRuns
  <2>2. r \in FreeRuns(m, n)
    BY <1>3, <2>1, NextFitSound DEF RunFound
  <2>3. r \in Allocatable /\ r .. r + n - 1 \subseteq FreeFrames(m)
    BY <2>2 DEF FreeRuns
  <2>4. AllocRun(m, n) = Take(m, r, n)
    BY <1>3 DEF AllocRun
  <2>5. n \in Nat \ {0}
    BY <1>3
  <2>6. r \in Nat
    BY <2>3, FramesFinite
  <2>. QED  BY <2>3, <2>4, <2>5, <2>6, TakeSound
<1>. QED  BY <1>1, <1>2, <1>3

\* A free that is refused leaves the allocator alone.
LEMMA FreeRefused ==
  ASSUME NEW m, NEW a, NEW n, ~FreeAccepted(m, a, n)
  PROVE  FreePages(m, a, n) = m
BY Zenon DEF FreePages

\* What an accepted free does.
LEMMA FreeGives ==
  ASSUME NEW m \in AllocatorType, NEW a, NEW n, FreeAccepted(m, a, n)
  PROVE  LET first == a \div FRAME
         IN FreePages(m, a, n) =
              [usable |-> m.usable, allocated |-> m.allocated \ (first .. first + n - 1),
               reserved |-> m.reserved, total |-> m.total, free |-> m.free + n,
               cursor |-> IF m.cursor \notin Allocatable \/ first < m.cursor
                          THEN first ELSE m.cursor]
BY Zenon DEF FreePages, AllocatorType

\* phys_free_page and phys_free_contiguous_pages.
LEMMA FreePagesSound ==
  ASSUME NEW b, NEW m, Sound(b, m), NEW a \in Nat, NEW n \in Nat
  PROVE  Sound(b, FreePages(m, a, n))
<1>. DEFINE first == a \div FRAME
            run == first .. first + n - 1
            t == FreePages(m, a, n)
<1>1. CASE ~FreeAccepted(m, a, n)
  BY <1>1, FreeRefused
<1>2. CASE FreeAccepted(m, a, n)
  <2>1. first \in Nat
    BY PhysAssumption, DivisionFacts
  <2>2. /\ m \in AllocatorType /\ n > 0
        /\ run \subseteq m.usable /\ run \subseteq m.allocated /\ run \cap m.reserved = {}
    BY <1>2 DEF FreeAccepted, Sound
  <2>3. first \in Allocatable
    <3>1. first \in run
      BY <2>1, <2>2
    <3>. QED  BY <2>2, <3>1 DEF AllocatorType
  <2>4. /\ t.usable = m.usable /\ t.reserved = m.reserved /\ t.total = m.total
        /\ t.allocated = m.allocated \ run
        /\ t.free = m.free + n
        /\ t.cursor = IF m.cursor \notin Allocatable \/ first < m.cursor
                      THEN first ELSE m.cursor
    BY <1>2, <2>2, FreeGives
  <2>5. t.cursor \in Allocatable
    BY <2>3, <2>4
  <2>6. t \in AllocatorType
    <3>1. m.free + n \in Int
      BY <2>2 DEF AllocatorType
    <3>. QED  BY <1>2, <2>2, <2>4, <2>5, <3>1, FreeGives DEF AllocatorType
  <2>7. FreeFrames(t) = FreeFrames(m) \cup run /\ FreeFrames(m) \cap run = {}
    BY <2>2, <2>4 DEF FreeFrames, AllocatorType
  <2>8. t.free = Cardinality(FreeFrames(t))
    <3>1. FreeFrames(m) \in SUBSET Frames
      BY FramesFinite DEF FreeFrames
    <3>2. /\ IsFiniteSet(FreeFrames(m)) /\ Cardinality(FreeFrames(m)) \in Nat
      BY <3>1, FramesFinite
    <3>3. IsFiniteSet(run) /\ Cardinality(run) = n
      <4>. HIDE DEF first
      <4>1. first \in Int /\ first + n - 1 \in Int /\ ~(first > first + n - 1)
        BY <2>1, <2>2
      <4>. QED  BY <4>1, FS_Interval
    <3>4. Cardinality(FreeFrames(m) \cup run)
            = Cardinality(FreeFrames(m)) + Cardinality(run) - Cardinality({})
      BY <2>7, <3>2, <3>3, FS_Union, ZenonT(30)
    <3>5. Cardinality({}) = 0
      BY FS_EmptySet
    <3>. QED  BY <2>4, <2>7, <3>2, <3>3, <3>4, <3>5 DEF Sound
  <2>. QED  BY <2>2, <2>4, <2>5, <2>6, <2>8 DEF Sound
<1>. QED  BY <1>1, <1>2

\* phys_reserve_allocated_page.
LEMMA ReservePageSound ==
  ASSUME NEW b, NEW m, Sound(b, m), NEW a \in Nat
  PROVE  Sound(b, ReservePage(m, a))
<1>1. CASE ~ReserveAccepted(m, a)
  BY <1>1 DEF ReservePage
<1>2. CASE ReserveAccepted(m, a)
  <2>. DEFINE f == a \div FRAME
  <2>1. f \in m.usable /\ f \in m.allocated
    BY <1>2 DEF ReserveAccepted
  <2>. HIDE DEF f
  <2>2. ReservePage(m, a) = [m EXCEPT !.reserved = m.reserved \cup {f}]
    BY <1>2 DEF ReservePage, f
  <2>. QED  BY <2>1, <2>2 DEF Sound, AllocatorType, FreeFrames
<1>. QED  BY <1>1, <1>2

\* The self-test's calls, one after the other.
LEMMA MemtestSound ==
  ASSUME NEW b, NEW m, Sound(b, m)
  PROVE  Sound(b, Memtest(m))
<1>. DEFINE page == PageFound(m)
            taken == AllocPage(m)
            given == FreePages(taken, page * FRAME, 1)
            again == FreePages(given, page * FRAME, 1)
            kernel == FreePages(again, LOW * FRAME, 1)
            run == RunFound(kernel, 2)
            runTaken == AllocRun(kernel, 2)
            runGiven == FreePages(runTaken, run * FRAME, 2)
            last == FreePages(runGiven, run * FRAME, 2)
<1>1. Sound(b, taken) /\ page \in Nat
  <2>1. FreeFrames(m) \subseteq Nat
    BY FramesFinite DEF FreeFrames
  <2>. QED  BY <2>1, AllocPageSound
<1>2. FRAME \in Nat /\ LOW \in Nat
  BY PhysAssumption
<1>3. page * FRAME \in Nat /\ LOW * FRAME \in Nat
  <2>. HIDE DEF page
  <2>. QED  BY <1>1, <1>2
<1>4. Sound(b, given)
  BY <1>1, <1>3, FreePagesSound
<1>5. Sound(b, again)
  BY <1>3, <1>4, FreePagesSound
<1>6. Sound(b, kernel)
  BY <1>3, <1>5, FreePagesSound
<1>7. Sound(b, runTaken) /\ run \in Nat
  <2>1. 2 \in Nat
    OBVIOUS
  <2>. QED  BY <1>6, <2>1, AllocRunSound, Zenon
<1>8. run * FRAME \in Nat
  <2>. HIDE DEF run
  <2>. QED  BY <1>2, <1>7
<1>9. Sound(b, runGiven)
  BY <1>7, <1>8, FreePagesSound
<1>10. Sound(b, last)
  BY <1>8, <1>9, FreePagesSound
<1>11. MemtestTrace(m).last = last
  BY DEF MemtestTrace
<1>. QED  BY <1>1, <1>10, <1>11 DEF Memtest

\* phys_init.
LEMMA PhysInitSound ==
  ASSUME NEW b \in BootMaps
  PROVE  Sound(b, PhysInit(b))
<1>1. UsableFrames(b.regions) \in SUBSET Allocatable
  BY DEF UsableFrames, Inside
<1>2. BootFrames(b) \in SUBSET Frames
  BY DEF BootFrames, KernelFrames, InfoFrames
<1>3. CASE b.regions = {}
  <2>1. PhysInit(b) = Unmanaged
    BY <1>3 DEF PhysInit
  <2>2. FreeFrames(Unmanaged) = {}
    BY DEF FreeFrames, Unmanaged
  <2>3. Cardinality({}) = 0
    BY FS_EmptySet
  <2>. QED  BY <2>1, <2>2, <2>3 DEF Sound, Unmanaged, AllocatorType
<1>4. CASE b.regions # {}
  <2>. DEFINE u == UsableFrames(b.regions)
              k == BootFrames(b)
              free == {f \in u : LOW <= f /\ f \notin k}
              m == PhysInit(b)
  <2>. HIDE DEF u, k
  <2>1. m = [usable |-> u, allocated |-> k, reserved |-> k, total |-> Cardinality(u),
             free |-> Cardinality(free), cursor |-> LOW]
    BY <1>4 DEF PhysInit, u, k
  <2>2. u \in SUBSET Allocatable /\ k \in SUBSET Frames
    BY <1>1, <1>2 DEF u, k
  <2>. HIDE DEF m
  <2>3. FreeFrames(m) = free
    <3>1. m.usable = u /\ m.allocated = k
      BY <2>1
    <3>. QED  BY <2>2, <3>1, FramesFinite DEF FreeFrames
  <2>4. Cardinality(u) \in Nat /\ Cardinality(free) \in Nat
    BY <2>2, FramesFinite
  <2>5. LOW \in Allocatable
    BY PhysAssumption DEF Allocatable
  <2>. HIDE DEF free
  <2>6. m \in AllocatorType
    BY <2>1, <2>2, <2>4, <2>5 DEF AllocatorType
  <2>. QED  BY <2>1, <2>2, <2>3, <2>5, <2>6 DEF Sound, u, k, m
<1>. QED  BY <1>3, <1>4

-----------------------------------------------------------------------------
(* The theorems.                                                           *)

Inv == boot \in BootMaps /\ Sound(boot, mem)

\* The calls that search for nothing, and the self-test, keep the invariant.
LEMMA OtherCallsSound ==
  ASSUME Inv, OtherCalls
  PROVE  Inv'
<1>. USE DEF Inv, Call
<1>0. FRAME \in Nat /\ LIMIT \in Nat /\ LIMIT * FRAME \in Nat
  BY PhysAssumption
<1>1. ASSUME NEW a \in 0 .. LIMIT * FRAME, NEW n \in 0 .. LIMIT,
             Call(FreePages(mem, a, n))
      PROVE  Inv'
  <2>1. a \in Nat /\ n \in Nat
    BY <1>0
  <2>. QED  BY <1>1, <2>1, FreePagesSound
<1>2. ASSUME NEW a \in 0 .. LIMIT * FRAME, Call(ReservePage(mem, a))  PROVE Inv'
  <2>1. a \in Nat
    BY <1>0
  <2>. QED  BY <1>2, <2>1, ReservePageSound
<1>3. CASE Call(Memtest(mem))
  BY <1>3, MemtestSound
<1>. QED  BY <1>1, <1>2, <1>3 DEF OtherCalls

\* Sound is an invariant of the allocator.
THEOREM Invariance == Spec => []Inv
<1>1. Init => Inv
  BY PhysInitSound DEF Init, Inv
<1>2. Inv /\ [Next]_vars => Inv'
  <2>. SUFFICES ASSUME Inv, [Next]_vars  PROVE Inv'
    OBVIOUS
  <2>1. CASE Call(AllocPage(mem))
    BY <2>1, AllocPageSound DEF Inv, Call
  <2>2. ASSUME NEW n \in 0 .. LIMIT, Call(AllocRun(mem, n))  PROVE Inv'
    <3>1. n \in Nat
      BY PhysAssumption
    <3>. QED  BY <2>2, <3>1, AllocRunSound DEF Inv, Call
  <2>3. CASE OtherCalls
    BY <2>3, OtherCallsSound
  <2>4. CASE UNCHANGED vars
    BY <2>4 DEF vars, Inv
  <2>. QED  BY <2>1, <2>2, <2>3, <2>4 DEF Next
<1>. QED  BY <1>1, <1>2, PTL DEF Spec

\* The types of the bitmaps, the counters and the cursor.
THEOREM TypeCorrect == Spec => []TypeOK
<1>1. Inv => TypeOK
  BY DEF Inv, Sound, TypeOK, AllocatorType
<1>. QED  BY <1>1, Invariance, PTL

\* The cached free counter never drifts from the bitmaps, whatever the
\* sequence of allocations, frees, reservations and self-tests.
THEOREM CountersNeverDrift == Spec => []FreeCountExact
<1>1. Inv => FreeCountExact
  BY DEF Inv, Sound, FreeCountExact
<1>. QED  BY <1>1, Invariance, PTL

\* No scan can hand out a reserved frame, although phys_alloc_try_frame does
\* not look at the reserved bitmap.
THEOREM ReservedNeverHandedOut == Spec => []ReservedIsAllocated
<1>1. Inv => ReservedIsAllocated
  BY DEF Inv, Sound, ReservedIsAllocated
<1>. QED  BY <1>1, Invariance, PTL

\* Whatever is allocated is usable memory or was reserved at boot.
THEOREM AllocationsBacked == Spec => []AllocatedIsBacked
<1>1. Inv => AllocatedIsBacked
  BY DEF Inv, Sound, AllocatedIsBacked
<1>. QED  BY <1>1, Invariance, PTL

\* The kernel image and the boot information are never handed out, by either
\* search and after any sequence of allocations and frees.
THEOREM KernelImageSafe == Spec => []BootFramesKept
<1>1. Inv => BootFramesKept
  BY DEF Inv, Sound, BootFramesKept, FreeFrames
<1>. QED  BY <1>1, Invariance, PTL

-----------------------------------------------------------------------------
(* The self-test leaves no trace but the cursor.                           *)

OnlyCursorMoved(m, t) == t = [m EXCEPT !.cursor = t.cursor]

\* Freeing what was just taken undoes the taking; a second free is refused.
LEMMA TakeThenGive ==
  ASSUME NEW b, NEW m, Sound(b, m), NEW first \in Allocatable, NEW n \in Nat \ {0},
         first .. first + n - 1 \subseteq FreeFrames(m)
  PROVE  LET t == FreePages(Take(m, first, n), first * FRAME, n) IN
         OnlyCursorMoved(m, t) /\ FreePages(t, first * FRAME, n) = t
<1>. DEFINE run == first .. first + n - 1
            a == first * FRAME
            taken == Take(m, first, n)
            t == FreePages(taken, a, n)
<1>1. first \in Nat /\ FRAME \in Nat /\ FRAME > 0 /\ LOW \in Nat /\ LIMIT \in Nat
  BY PhysAssumption, FramesFinite
<1>2. a \div FRAME = first /\ a % FRAME = 0 /\ a \in Nat
  BY <1>1, DivisionFacts
<1>3. LOW <= first /\ first < LIMIT
  BY <1>1 DEF Allocatable
<1>4. LOW * FRAME <= a /\ a < LIMIT * FRAME
  BY <1>1, <1>3
<1>5. m \in AllocatorType /\ run \subseteq Allocatable /\ run \subseteq m.usable
      /\ run \cap m.allocated = {} /\ run \cap m.reserved = {}
  BY DEF Sound, FreeFrames
<1>6. first \in run /\ first + n - 1 \in run
  BY <1>1
<1>7. first + n <= LIMIT
  BY <1>1, <1>5, <1>6 DEF Allocatable
<1>. HIDE DEF a
<1>8. taken \in AllocatorType
  BY TakeSound DEF Sound
<1>9. /\ taken.usable = m.usable /\ taken.reserved = m.reserved /\ taken.total = m.total
      /\ taken.allocated = m.allocated \cup run /\ taken.free = m.free - n
  BY <1>5 DEF Take, AllocatorType
<1>. HIDE DEF taken, run
<1>10. FreeAccepted(taken, a, n)
  BY <1>2, <1>4, <1>5, <1>7, <1>9 DEF FreeAccepted, run
<1>11. /\ t.usable = m.usable /\ t.reserved = m.reserved /\ t.total = m.total
       /\ t.allocated = (m.allocated \cup run) \ run /\ t.free = (m.free - n) + n
       /\ t = [usable |-> m.usable, allocated |-> t.allocated, reserved |-> m.reserved,
               total |-> m.total, free |-> t.free, cursor |-> t.cursor]
  <2>. DEFINE cursor == IF taken.cursor \notin Allocatable \/ first < taken.cursor
                        THEN first ELSE taken.cursor
  <2>1. t = [usable |-> taken.usable, allocated |-> taken.allocated \ run,
             reserved |-> taken.reserved, total |-> taken.total, free |-> taken.free + n,
             cursor |-> cursor]
    BY <1>2, <1>8, <1>10, FreeGives DEF run
  <2>. HIDE DEF t, cursor
  <2>. QED  BY <1>9, <2>1
<1>12. t.allocated = m.allocated
  BY <1>5, <1>11
<1>13. t.free = m.free
  BY <1>5, <1>11 DEF AllocatorType
<1>14. OnlyCursorMoved(m, t)
  <2>. HIDE DEF t
  <2>. QED  BY <1>5, <1>11, <1>12, <1>13 DEF OnlyCursorMoved, AllocatorType
<1>15. ~FreeAccepted(t, a, n)
  BY <1>2, <1>5, <1>6, <1>12 DEF FreeAccepted, run
<1>. QED  BY <1>14, <1>15, FreeRefused DEF a, taken

\* A multiple of the divisor is below x exactly as the rounded quotients say.
LEMMA Rounding ==
  ASSUME NEW d \in Nat, d > 0, NEW x \in Nat, NEW f \in Nat
  PROVE  /\ f < x \div d => (f + 1) * d <= x
         /\ (x \div d <= f) <=> (x < (f + 1) * d)
         /\ f < (x + d - 1) \div d <=> f * d < x
<1>1. ASSUME NEW y \in Nat  PROVE (y \div d <= f) <=> (y < (f + 1) * d)
  <2>. DEFINE q == y \div d
  <2>1. q \in Nat /\ q * d <= y /\ y < q * d + d
    BY DivisionFacts
  <2>. HIDE DEF q
  <2>2. ASSUME q <= f  PROVE y < (f + 1) * d
    <3>1. q * d <= f * d
      BY <2>1, <2>2
    <3>. QED  BY <2>1, <3>1
  <2>3. ASSUME f < q  PROVE (f + 1) * d <= y
    <3>1. (f + 1) * d <= q * d
      BY <2>1, <2>3
    <3>. QED  BY <2>1, <3>1
  <2>4. f < q \/ q <= f
    BY <2>1
  <2>5. (f + 1) * d \in Nat
    OBVIOUS
  <2>. QED  BY <2>1, <2>2, <2>3, <2>4, <2>5 DEF q
<1>2. x \div d \in Nat /\ (x + d - 1) \in Nat /\ (x + d - 1) \div d \in Nat
  BY DivisionFacts
<1>3. (f + 1) * d = f * d + d /\ f * d \in Nat
  OBVIOUS
<1>4. f < (x + d - 1) \div d <=> ~((x + d - 1) \div d <= f)
  BY <1>2
<1>5. f < x \div d <=> ~(x \div d <= f)
  BY <1>2
<1>. QED  BY <1>1, <1>2, <1>3, <1>4, <1>5

\* The first frame of the kernel image is a boot frame.
LEMMA KernelStartIsBootFrame ==
  ASSUME NEW b \in BootMaps
  PROVE  LOW \in BootFrames(b)
<1>1. LOW \in Nat /\ LIMIT \in Nat /\ LOW < LIMIT /\ FRAME \in Nat /\ FRAME > 0
  BY PhysAssumption
<1>2. b.kernel_end \in Nat /\ LOW * FRAME < b.kernel_end
  BY PhysAssumption
<1>3. LOW < Ceil(b.kernel_end)
  BY <1>1, <1>2, Rounding DEF Ceil
<1>. QED  BY <1>1, <1>3 DEF BootFrames, KernelFrames, Frames

\* memtest changes neither the bitmaps nor the counters.
LEMMA MemtestOnlyMovesCursor ==
  ASSUME NEW b \in BootMaps, NEW m, Sound(b, m)
  PROVE  OnlyCursorMoved(m, Memtest(m))
<1>. DEFINE page == PageFound(m)
            taken == AllocPage(m)
            given == FreePages(taken, page * FRAME, 1)
            again == FreePages(given, page * FRAME, 1)
            kernel == FreePages(again, LOW * FRAME, 1)
            run == RunFound(kernel, 2)
            runTaken == AllocRun(kernel, 2)
            runGiven == FreePages(runTaken, run * FRAME, 2)
            last == FreePages(runGiven, run * FRAME, 2)
<1>1. CASE page = 0
  BY <1>1 DEF Memtest, AllocPage, OnlyCursorMoved, Sound, AllocatorType
<1>2. CASE page # 0
  <2>1. Memtest(m) = last
    BY <1>2 DEF Memtest, MemtestTrace
  <2>2. page \in FreeFrames(m) /\ taken = Take(m, page, 1)
    BY <1>2, AllocPageSound
  <2>3. page \in Allocatable /\ page .. page + 1 - 1 \subseteq FreeFrames(m)
    <3>1. page \in Allocatable /\ page \in Nat
      BY <2>2, FramesFinite DEF FreeFrames
    <3>. QED  BY <2>2, <3>1
  <2>4. OnlyCursorMoved(m, given) /\ again = given
    BY <2>2, <2>3, TakeThenGive
  <2>5. Sound(b, given)
    <3>1. Sound(b, taken)
      BY AllocPageSound
    <3>2. page \in Nat /\ FRAME \in Nat
      BY <2>3, PhysAssumption, FramesFinite
    <3>3. page * FRAME \in Nat
      <4>. HIDE DEF page
      <4>. QED  BY <3>2
    <3>. QED  BY <3>1, <3>3, FreePagesSound
  <2>6. kernel = given
    <3>1. (LOW * FRAME) \div FRAME = LOW
      BY PhysAssumption, DivisionFacts
    <3>2. LOW \in given.usable => LOW \in given.reserved
      BY <2>5, KernelStartIsBootFrame DEF Sound
    <3>3. LOW \in LOW .. LOW + 1 - 1
      BY PhysAssumption
    <3>4. ~FreeAccepted(given, LOW * FRAME, 1)
      BY <3>1, <3>2, <3>3 DEF FreeAccepted
    <3>5. FreePages(given, LOW * FRAME, 1) = given
      BY <3>4, FreeRefused, Zenon
    <3>. QED  BY <2>4, <3>5, Zenon
  <2>7. run = RunFound(given, 2) /\ runTaken = AllocRun(given, 2)
    BY <2>6
  <2>. HIDE DEF given, run, runTaken
  <2>8. CASE run = 0
    <3>1. OnlyCursorMoved(given, runTaken)
      BY <2>5, <2>7, <2>8 DEF AllocRun, OnlyCursorMoved, Sound, AllocatorType
    <3>2. LOW \in Nat /\ LOW > 0 /\ FRAME \in Nat /\ FRAME > 0
      BY PhysAssumption
    <3>3. ~(LOW * FRAME <= run * FRAME)
      BY <2>8, <3>2
    <3>4. \A x : FreePages(x, run * FRAME, 2) = x
      <4>1. \A x : ~FreeAccepted(x, run * FRAME, 2)
        BY <3>3, Zenon DEF FreeAccepted
      <4>. QED  BY <4>1, FreeRefused, Zenon
    <3>. QED  BY <2>1, <2>4, <3>1, <3>4 DEF OnlyCursorMoved
  <2>9. CASE run # 0
    <3>1. 2 \in Nat /\ 2 \in Nat \ {0}
      OBVIOUS
    <3>2. /\ run \in Allocatable /\ run .. run + 2 - 1 \subseteq FreeFrames(given)
          /\ runTaken = Take(given, run, 2)
      BY <2>5, <2>7, <2>9, <3>1, AllocRunSound, Zenon
    <3>3. OnlyCursorMoved(given, runGiven) /\ last = runGiven
      BY <2>5, <3>1, <3>2, TakeThenGive, Zenon
    <3>. QED  BY <2>1, <2>4, <3>3 DEF OnlyCursorMoved
  <2>. QED  BY <2>8, <2>9
<1>. QED  BY <1>1, <1>2

\* memtest restores the bitmaps and the counters in every reachable state.
THEOREM MemtestHarmless == Spec => []MemtestRestores
<1>1. Inv => MemtestRestores
  <2>. SUFFICES ASSUME Inv  PROVE MemtestRestores
    OBVIOUS
  <2>1. OnlyCursorMoved(mem, Memtest(mem)) /\ mem \in AllocatorType
    BY MemtestOnlyMovesCursor DEF Inv, Sound
  <2>. DEFINE t == Memtest(mem)
  <2>2. t = [mem EXCEPT !.cursor = t.cursor]
    BY <2>1 DEF OnlyCursorMoved
  <2>. HIDE DEF t
  <2>3. [t EXCEPT !.cursor = mem.cursor] = mem
    BY <2>1, <2>2 DEF AllocatorType
  <2>. QED  BY <2>3 DEF MemtestRestores, t
<1>. QED  BY <1>1, Invariance, PTL

-----------------------------------------------------------------------------
\* A reserved page stays reserved and allocated through every call.
THEOREM ReservationsPermanent == Spec => ReservedForever
<1>1. ASSUME Inv, Inv', [Next]_vars
      PROVE  mem.reserved \subseteq mem'.reserved /\ mem.reserved \subseteq mem'.allocated
  <2>. USE DEF Call
  <2>0. mem \in AllocatorType /\ mem'.reserved \subseteq mem'.allocated
    BY <1>1 DEF Inv, Sound
  <2>1. CASE Call(AllocPage(mem))
    BY <2>0, <2>1 DEF AllocPage, Take, AllocatorType
  <2>2. ASSUME NEW n \in 0 .. LIMIT, Call(AllocRun(mem, n))
        PROVE  mem.reserved \subseteq mem'.reserved
    BY <2>0, <2>2 DEF AllocRun, Take, AllocatorType
  <2>3. ASSUME NEW a \in 0 .. LIMIT * FRAME, NEW n \in 0 .. LIMIT,
               Call(FreePages(mem, a, n))
        PROVE  mem.reserved \subseteq mem'.reserved
    <3>1. CASE FreeAccepted(mem, a, n)
      BY <2>0, <2>3, <3>1, FreeGives
    <3>2. CASE ~FreeAccepted(mem, a, n)
      BY <2>3, <3>2, FreeRefused
    <3>. QED  BY <3>1, <3>2
  <2>4. ASSUME NEW a \in 0 .. LIMIT * FRAME, Call(ReservePage(mem, a))
        PROVE  mem.reserved \subseteq mem'.reserved
    BY <2>0, <2>4 DEF ReservePage, AllocatorType
  <2>5. CASE Call(Memtest(mem))
    <3>1. OnlyCursorMoved(mem, Memtest(mem))
      BY <1>1, MemtestOnlyMovesCursor DEF Inv
    <3>. QED  BY <2>0, <2>5, <3>1 DEF OnlyCursorMoved, AllocatorType
  <2>6. CASE UNCHANGED vars
    BY <2>0, <2>6 DEF vars
  <2>7. mem.reserved \subseteq mem'.reserved
    BY <1>1, <2>1, <2>2, <2>3, <2>4, <2>5, <2>6 DEF Next, OtherCalls
  <2>. QED  BY <2>0, <2>7
<1>2. Inv /\ Inv' /\ [Next]_vars
        => [mem.reserved \subseteq mem'.reserved /\ mem.reserved \subseteq mem'.allocated]_vars
  BY <1>1
<1>. QED  BY <1>2, Invariance, PTL DEF Spec, ReservedForever

\* The end of a region, clamped to the window.
LEMMA EndOfFacts ==
  ASSUME NEW r, r.base \in Nat, r.length \in Nat
  PROVE  /\ EndOf(r) \in Nat
         /\ EndOf(r) <= r.base + r.length /\ EndOf(r) <= LIMIT * FRAME
         /\ EndOf(r) = r.base + r.length \/ EndOf(r) = LIMIT * FRAME
<1>1. LIMIT * FRAME \in Nat /\ r.base + r.length \in Nat
  BY PhysAssumption
<1>. DEFINE S == {r.base + r.length, LIMIT * FRAME}
<1>2. S \in SUBSET Nat /\ S # {}
  BY <1>1
<1>3. Min(S) \in S /\ \A y \in S : Min(S) <= y
  BY <1>2, MinInSet
<1>. QED  BY <1>1, <1>3 DEF EndOf

\* Usable frames consist of RAM only, for every memory map.
LEMMA UsableFramesAreRam ==
  ASSUME NEW b \in BootMaps, NEW f \in UsableFrames(b.regions),
         NEW byte \in f * FRAME .. (f + 1) * FRAME - 1
  PROVE  /\ \E r \in b.regions : r.type = 1 /\ byte \in r.base .. r.base + r.length - 1
         /\ \A r \in b.regions : r.type # 1 => byte \notin r.base .. r.base + r.length - 1
<1>0. /\ FRAME \in Nat /\ FRAME > 0 /\ LIMIT \in Nat
      /\ \A r \in b.regions : r.base \in Nat /\ r.length \in Nat
  BY PhysAssumption
<1>1. /\ \E r \in b.regions : r.type = 1 /\ InWindow(r) /\ f \in Inside(r)
      /\ \A r \in b.regions : r.type # 1 /\ InWindow(r) => f \notin Touched(r)
  <2>. DEFINE ram == {x \in b.regions : x.type = 1 /\ InWindow(x)}
              other == {x \in b.regions : x.type # 1 /\ InWindow(x)}
  <2>1. f \in UNION {Inside(r) : r \in ram} /\ f \notin UNION {Touched(r) : r \in other}
    BY DEF UsableFrames
  <2>2. (\E r \in ram : f \in Inside(r)) /\ ~(\E r \in other : f \in Touched(r))
    <3>. HIDE DEF ram, other
    <3>. QED  BY <2>1, Zenon
  <2>. QED  BY <2>2
<1>2. f \in Allocatable /\ f \in Frames /\ f \in Nat
  BY <1>1, FramesFinite DEF Inside
<1>3. /\ f * FRAME \in Nat /\ (f + 1) * FRAME \in Nat /\ byte \in Nat
      /\ f * FRAME <= byte /\ byte < (f + 1) * FRAME
  BY <1>0, <1>2
<1>4. (f + 1) * FRAME <= LIMIT * FRAME /\ LIMIT * FRAME \in Nat
  <2>1. f + 1 <= LIMIT
    BY <1>0, <1>2 DEF Frames
  <2>. QED  BY <1>0, <1>2, <2>1
<1>5. PICK r \in b.regions : r.type = 1 /\ InWindow(r) /\ f \in Inside(r)
  BY <1>1
<1>6. byte \in r.base .. r.base + r.length - 1
  <2>1. r.base \in Nat /\ r.length \in Nat
    BY <1>0, <1>5
  <2>2. EndOf(r) \in Nat /\ EndOf(r) <= r.base + r.length
    BY <2>1, EndOfFacts
  <2>3. Ceil(r.base) <= f /\ f < EndOf(r) \div FRAME
    BY <1>5 DEF Inside
  <2>4. Ceil(r.base) \in Nat
    BY <1>0, <2>1, DivisionFacts DEF Ceil
  <2>5. ~(f < Ceil(r.base))
    BY <1>2, <2>3, <2>4
  <2>6. ~(f * FRAME < r.base)
    BY <1>0, <1>2, <2>1, <2>5, Rounding DEF Ceil
  <2>7. (f + 1) * FRAME <= EndOf(r)
    BY <1>0, <1>2, <2>2, <2>3, Rounding
  <2>. QED  BY <1>3, <2>1, <2>2, <2>6, <2>7
<1>7. ASSUME NEW s \in b.regions, s.type # 1, byte \in s.base .. s.base + s.length - 1
      PROVE  FALSE
  <2>1. s.base \in Nat /\ s.length \in Nat
    BY <1>0
  <2>2. s.base <= byte /\ byte < s.base + s.length
    BY <1>3, <1>7, <2>1
  <2>3. InWindow(s)
    BY <1>3, <1>4, <2>1, <2>2 DEF InWindow
  <2>4. EndOf(s) \in Nat /\ (EndOf(s) = s.base + s.length \/ EndOf(s) = LIMIT * FRAME)
    BY <2>1, EndOfFacts
  <2>5. f * FRAME < EndOf(s)
    BY <1>3, <1>4, <2>1, <2>2, <2>4
  <2>6. f < Ceil(EndOf(s))
    BY <1>0, <1>2, <2>4, <2>5, Rounding DEF Ceil
  <2>7. s.base < (f + 1) * FRAME
    BY <1>3, <2>1, <2>2
  <2>8. s.base \div FRAME <= f
    BY <1>0, <1>2, <2>1, <2>7, Rounding
  <2>9. f \in Touched(s)
    BY <1>2, <2>6, <2>8 DEF Touched
  <2>. QED  BY <1>1, <1>7, <2>3, <2>9
<1>. QED  BY <1>5, <1>6, <1>7

\* No allocation ever covers memory that the memory map does not call RAM.
THEOREM OnlyRamIsUsable == Spec => []UsableIsRam
<1>1. Inv => UsableIsRam
  BY UsableFramesAreRam DEF Inv, Sound, UsableIsRam
<1>. QED  BY <1>1, Invariance, PTL

-----------------------------------------------------------------------------
(* The searches, one iteration at a time.                                  *)

ScanType ==
  [loop : 0 .. 2, page : BOOLEAN, count : Nat, first : Nat, start : Nat]

\* The loop invariant: what has been scanned holds no candidate.
Scanned ==
  /\ scan.start \in Allocatable /\ mem.cursor = scan.start
  /\ scan.count \in 1 .. LIMIT - LOW /\ (scan.page => scan.count = 1)
  /\ scan.loop = 1 =>
       /\ scan.start <= scan.first
       /\ \A f \in Candidates : scan.start <= f => scan.first <= f
  /\ scan.loop = 2 =>
       /\ LOW <= scan.first
       /\ \A f \in Candidates : f < scan.start /\ scan.first <= f

ScanInv == Inv /\ scan \in ScanType /\ (scan.loop # 0 => Scanned)

\* Candidates are allocatable, and the last frame of each lies in memory.
LEMMA CandidateFacts ==
  ASSUME Inv, scan \in ScanType, Scanned
  PROVE  \A f \in Candidates :
           /\ f \in Allocatable /\ f + scan.count <= LIMIT
           /\ f .. f + scan.count - 1 \subseteq FreeFrames(mem)
<1>1. LOW \in Nat /\ LIMIT \in Nat
  BY PhysAssumption
<1>2. CASE scan.page
  <2>1. scan.count = 1 /\ Candidates = FreeFrames(mem)
    BY <1>2 DEF Scanned, Candidates
  <2>2. ASSUME NEW f \in FreeFrames(mem)
        PROVE  f \in Allocatable /\ f + 1 <= LIMIT /\ f .. f + 1 - 1 \subseteq FreeFrames(mem)
    <3>1. f \in Allocatable
      BY DEF FreeFrames
    <3>2. f \in Int /\ f + 1 <= LIMIT
      BY <1>1, <3>1 DEF Allocatable
    <3>. QED  BY <3>1, <3>2
  <2>. QED  BY <2>1, <2>2
<1>3. CASE ~scan.page
  <2>1. Candidates = FreeRuns(mem, scan.count)
    BY <1>3 DEF Candidates
  <2>. QED  BY <2>1 DEF FreeRuns
<1>. QED  BY <1>2, <1>3 DEF ScanType

\* Conversely, a run of free frames is a candidate: nothing free is reserved.
LEMMA FreeRunIsCandidate ==
  ASSUME Inv, scan \in ScanType, Scanned, NEW f \in Allocatable,
         f + scan.count <= LIMIT, f .. f + scan.count - 1 \subseteq FreeFrames(mem)
  PROVE  f \in Candidates
<1>1. \A g \in FreeFrames(mem) : g \notin mem.reserved
  BY DEF Inv, Sound, FreeFrames
<1>2. CASE scan.page
  <2>1. scan.count = 1 /\ Candidates = FreeFrames(mem)
    BY <1>2 DEF Scanned, Candidates
  <2>2. f \in f .. f + 1 - 1
    BY FramesFinite
  <2>. QED  BY <2>1, <2>2
<1>3. CASE ~scan.page
  <2>1. Candidates = FreeRuns(mem, scan.count)
    BY <1>3 DEF Candidates
  <2>. QED  BY <1>1, <2>1 DEF FreeRuns
<1>. QED  BY <1>2, <1>3 DEF ScanType

\* Next fit picks a candidate that no other precedes, seen from the cursor.
LEMMA NextFitIs ==
  ASSUME NEW m, NEW C \in SUBSET Allocatable, NEW x \in C,
         \/ StartOf(m) <= x /\ \A f \in C : StartOf(m) <= f => x <= f
         \/ \A f \in C : ~(StartOf(m) <= f) /\ x <= f
  PROVE  NextFit(m, C) = x
<1>. DEFINE above == {f \in C : f >= StartOf(m)}
<1>1. C \subseteq Nat /\ above \in SUBSET Nat /\ above \subseteq C /\ StartOf(m) \in Nat
  BY FramesFinite, PhysAssumption DEF StartOf, Allocatable
<1>2. above # {} => Min(above) \in above /\ \A y \in above : Min(above) <= y
  BY <1>1, MinInSet
<1>3. Min(C) \in C /\ \A y \in C : Min(C) <= y
  BY <1>1, MinInSet
<1>4. NextFit(m, C) = IF above # {} THEN Min(above) ELSE Min(C)
  BY DEF NextFit
<1>5. CASE StartOf(m) <= x /\ \A f \in C : StartOf(m) <= f => x <= f
  <2>1. x \in above
    BY <1>1, <1>5
  <2>2. Min(above) <= x /\ x <= Min(above) /\ Min(above) \in Nat /\ x \in Nat
    BY <1>1, <1>2, <1>5, <2>1
  <2>. HIDE DEF above
  <2>. QED  BY <1>4, <2>1, <2>2
<1>6. CASE \A f \in C : ~(StartOf(m) <= f) /\ x <= f
  <2>1. above = {}
    BY <1>1, <1>6
  <2>2. Min(C) <= x /\ x <= Min(C) /\ Min(C) \in Nat /\ x \in Nat
    BY <1>1, <1>3, <1>6
  <2>. HIDE DEF above
  <2>. QED  BY <1>4, <2>1, <2>2
<1>. QED  BY <1>5, <1>6

\* What a finished search should have done.
Sought == IF scan.page THEN AllocPage(mem) ELSE AllocRun(mem, scan.count)

\* The reference result of the search, in terms of its candidates.
LEMMA SoughtIs ==
  ASSUME Inv, scan \in ScanType, Scanned
  PROVE  /\ StartOf(mem) = scan.start
         /\ Sought = IF NextFit(mem, Candidates) = 0 THEN mem
                     ELSE Take(mem, NextFit(mem, Candidates), scan.count)
<1>1. StartOf(mem) = scan.start /\ mem.cursor = scan.start
  BY DEF Scanned, StartOf
<1>2. [mem EXCEPT !.cursor = StartOf(mem)] = mem
  BY <1>1 DEF Inv, Sound, AllocatorType
<1>3. CASE scan.page
  BY <1>1, <1>2, <1>3 DEF Sought, AllocPage, PageFound, Candidates, Scanned
<1>4. CASE ~scan.page
  BY <1>1, <1>2, <1>4 DEF Sought, AllocRun, RunFound, Candidates, Scanned
<1>. QED  BY <1>1, <1>3, <1>4 DEF ScanType

\* The frame a scan stops at is the next fit.
LEMMA FoundIsNextFit ==
  ASSUME ScanInv, scan.loop # 0, scan.first \in Candidates
  PROVE  /\ NextFit(mem, Candidates) = scan.first
         /\ scan.first \in Allocatable /\ scan.count \in Nat \ {0}
         /\ scan.first .. scan.first + scan.count - 1 \subseteq FreeFrames(mem)
<1>1. Inv /\ scan \in ScanType /\ Scanned /\ (scan.loop = 1 \/ scan.loop = 2)
  BY DEF ScanInv, ScanType
<1>2. \A f \in Candidates :
        f \in Allocatable /\ f .. f + scan.count - 1 \subseteq FreeFrames(mem)
  BY <1>1, CandidateFacts
<1>3. StartOf(mem) = scan.start
  BY <1>1, SoughtIs
<1>4. Candidates \in SUBSET Allocatable /\ Allocatable \subseteq Nat /\ scan.start \in Nat
  BY <1>1, <1>2, FramesFinite DEF ScanType
<1>5. \/ scan.start <= scan.first
         /\ \A f \in Candidates : scan.start <= f => scan.first <= f
      \/ \A f \in Candidates : ~(scan.start <= f) /\ scan.first <= f
  <2>1. CASE scan.loop = 1
    BY <1>1, <2>1 DEF Scanned
  <2>2. CASE scan.loop = 2
    <3>1. \A f \in Candidates : f < scan.start /\ scan.first <= f
      BY <1>1, <2>2 DEF Scanned
    <3>. QED  BY <1>4, <3>1
  <2>. QED  BY <1>1, <2>1, <2>2
<1>6. NextFit(mem, Candidates) = scan.first
  <2>. DEFINE First(C, x) ==
         \/ StartOf(mem) <= x /\ \A f \in C : StartOf(mem) <= f => x <= f
         \/ \A f \in C : ~(StartOf(mem) <= f) /\ x <= f
  <2>1. \A C \in SUBSET Allocatable : \A x \in C : First(C, x) => NextFit(mem, C) = x
    BY NextFitIs
  <2>2. First(Candidates, scan.first)
    BY <1>3, <1>5, Zenon
  <2>. HIDE DEF First
  <2>. QED  BY <1>4, <2>1, <2>2, Zenon
<1>7. scan.count \in Nat \ {0}
  BY <1>1 DEF Scanned, ScanType
<1>. QED  BY <1>2, <1>6, <1>7

\* When the second loop has ended there is no candidate.
LEMMA NothingLeft ==
  ASSUME ScanInv, scan.loop = 2, ~MoreToScan
  PROVE  Candidates = {}
<1>1. Inv /\ scan \in ScanType /\ Scanned
  BY DEF ScanInv
<1>2. ASSUME NEW f \in Candidates  PROVE FALSE
  <2>1. f \in Allocatable /\ f + scan.count <= LIMIT
    BY <1>1, CandidateFacts
  <2>2. f < scan.start /\ scan.first <= f
    BY <1>1 DEF Scanned
  <2>3. f \in Nat /\ scan.first \in Nat /\ scan.start \in Nat /\ scan.count \in Nat /\ LIMIT \in Nat
    BY <1>1, <2>1, FramesFinite, PhysAssumption DEF ScanType
  <2>4. scan.first + scan.count <= LIMIT /\ scan.first < scan.start
    BY <2>1, <2>2, <2>3
  <2>. QED  BY <2>4 DEF MoreToScan
<1>. QED  BY <1>2

\* A search ends in what PhysMem says of the whole call.
LEMMA SearchEnds ==
  ASSUME ScanInv, TakeFound \/ FindNothing
  PROVE  mem' = Sought /\ scan.loop # 0 /\ UNCHANGED boot
<1>1. Inv /\ scan \in ScanType /\ (scan.loop # 0 => Scanned)
  BY DEF ScanInv
<1>2. CASE TakeFound
  <2>1. scan.loop # 0 /\ scan.first \in Candidates
        /\ mem' = Take(mem, scan.first, scan.count) /\ UNCHANGED boot
    BY <1>2 DEF TakeFound
  <2>2. NextFit(mem, Candidates) = scan.first /\ scan.first # 0
    BY <2>1, FoundIsNextFit, FramesFinite, PhysAssumption
  <2>. QED  BY <1>1, <2>1, <2>2, SoughtIs
<1>3. CASE FindNothing
  <2>1. scan.loop = 2 /\ ~MoreToScan /\ mem' = mem /\ UNCHANGED boot
    BY <1>3 DEF FindNothing, vars
  <2>2. Candidates = {}
    BY <2>1, NothingLeft
  <2>3. NextFit(mem, Candidates) = 0
    BY <2>2 DEF NextFit
  <2>. QED  BY <1>1, <2>1, <2>3, SoughtIs
<1>. QED  BY <1>2, <1>3

\* The loop invariant holds at every step of a search.
LEMMA ScanStep ==
  ASSUME ScanInv, [SearchNext]_searchVars
  PROVE  ScanInv'
<1>0. Inv /\ scan \in ScanType /\ (scan.loop # 0 => Scanned)
  BY DEF ScanInv
<1>1. LOW \in Nat /\ LIMIT \in Nat /\ LOW < LIMIT
  BY PhysAssumption
<1>2. ASSUME NEW page \in BOOLEAN, NEW n \in 1 .. LIMIT - LOW, page => n = 1,
             BeginSearch(page, n)
      PROVE  ScanInv'
  <2>. DEFINE start == StartOf(mem)
  <2>1. start \in Allocatable /\ start \in Nat /\ n \in Nat
    BY <1>1 DEF StartOf, Allocatable
  <2>2. /\ mem' = [mem EXCEPT !.cursor = start] /\ boot' = boot
        /\ scan' = [loop |-> 1, page |-> page, count |-> n, first |-> start, start |-> start]
    BY <1>2 DEF BeginSearch
  <2>. HIDE DEF start
  <2>3. Inv'
    BY <1>0, <2>1, <2>2 DEF Inv, Sound, AllocatorType, FreeFrames
  <2>4. scan' \in ScanType
    BY <2>1, <2>2 DEF ScanType
  <2>5. mem'.cursor = start
    BY <1>0, <2>2 DEF Inv, Sound, AllocatorType
  <2>6. Scanned'
    BY <1>2, <2>1, <2>2, <2>5 DEF Scanned
  <2>. QED  BY <2>3, <2>4, <2>6 DEF ScanInv
<1>3. CASE TakeFound
  <2>1. scan.loop # 0 /\ scan.first \in Candidates /\ scan' = NoSearch
        /\ mem' = Take(mem, scan.first, scan.count) /\ boot' = boot
    BY <1>3 DEF TakeFound
  <2>2. Sound(boot, Take(mem, scan.first, scan.count))
    BY <1>0, <2>1, FoundIsNextFit, TakeSound DEF Inv
  <2>3. Inv'
    BY <1>0, <2>1, <2>2 DEF Inv
  <2>. QED  BY <2>1, <2>3 DEF ScanInv, NoSearch, ScanType
<1>4. CASE LookFurther
  <2>1. /\ scan.loop # 0 /\ scan.first \notin Candidates
        /\ scan' = [scan EXCEPT !.first = scan.first + 1] /\ mem' = mem /\ boot' = boot
    BY <1>4 DEF LookFurther, vars
  <2>2. /\ scan'.loop = scan.loop /\ scan'.page = scan.page /\ scan'.count = scan.count
        /\ scan'.start = scan.start /\ scan'.first = scan.first + 1 /\ scan' \in ScanType
    BY <1>0, <2>1 DEF ScanType
  <2>3. Candidates' = Candidates
    BY <2>1, <2>2 DEF Candidates, FreeFrames, FreeRuns
  <2>4. \A f \in Candidates : f \in Nat
    BY <1>0, <2>1, CandidateFacts, FramesFinite
  <2>5. ASSUME NEW f \in Candidates, scan.first <= f  PROVE scan.first + 1 <= f
    BY <1>0, <2>1, <2>4, <2>5 DEF ScanType
  <2>6. Scanned /\ scan.first \in Nat /\ scan.start \in Nat
    BY <1>0, <2>1 DEF ScanType
  <2>7. Scanned'
    BY <1>1, <2>1, <2>2, <2>3, <2>5, <2>6 DEF Scanned
  <2>8. Inv'
    BY <1>0, <2>1 DEF Inv
  <2>. QED  BY <2>2, <2>7, <2>8 DEF ScanInv
<1>5. CASE WrapAround
  <2>1. /\ scan.loop = 1 /\ ~MoreToScan
        /\ scan' = [scan EXCEPT !.loop = 2, !.first = LOW] /\ mem' = mem /\ boot' = boot
    BY <1>5 DEF WrapAround, vars
  <2>2. /\ scan'.loop = 2 /\ scan'.page = scan.page /\ scan'.count = scan.count
        /\ scan'.start = scan.start /\ scan'.first = LOW /\ scan' \in ScanType
    <3>1. scan = [loop |-> scan.loop, page |-> scan.page, count |-> scan.count,
                  first |-> scan.first, start |-> scan.start]
      BY <1>0 DEF ScanType
    <3>2. scan' = [loop |-> 2, page |-> scan.page, count |-> scan.count,
                   first |-> LOW, start |-> scan.start]
      BY <2>1, <3>1
    <3>3. scan.page \in BOOLEAN /\ scan.count \in Nat /\ scan.start \in Nat
      BY <1>0 DEF ScanType
    <3>. QED  BY <1>1, <3>2, <3>3 DEF ScanType
  <2>3. Candidates' = Candidates
    BY <2>1, <2>2 DEF Candidates, FreeFrames, FreeRuns
  <2>4. Scanned /\ LIMIT < scan.first + scan.count
    BY <1>0, <1>1, <2>1 DEF MoreToScan, ScanType
  <2>5. ASSUME NEW f \in Candidates  PROVE f < scan.start /\ LOW <= f
    <3>1. f \in Allocatable /\ f + scan.count <= LIMIT
      BY <1>0, <2>4, CandidateFacts
    <3>2. scan.start <= f => scan.first <= f
      BY <2>1, <2>4 DEF Scanned
    <3>3. f \in Nat /\ LOW <= f /\ scan.first \in Nat /\ scan.count \in Nat /\ scan.start \in Nat
      BY <1>0, <3>1, FramesFinite DEF ScanType
    <3>. QED  BY <1>1, <2>4, <3>1, <3>2, <3>3
  <2>6. Scanned'
    BY <1>1, <2>1, <2>2, <2>3, <2>4, <2>5 DEF Scanned
  <2>7. Inv'
    BY <1>0, <2>1 DEF Inv
  <2>. QED  BY <2>2, <2>6, <2>7 DEF ScanInv
<1>6. CASE FindNothing
  BY <1>0, <1>6 DEF FindNothing, vars, ScanInv, Inv, NoSearch, ScanType
<1>7. CASE OtherCall
  BY <1>0, <1>7, OtherCallsSound DEF OtherCall, ScanInv
<1>8. CASE UNCHANGED searchVars
  BY <1>0, <1>8 DEF searchVars, ScanInv, Inv, Scanned, Candidates, FreeFrames, FreeRuns
<1>9. CASE SearchPage
  <2>1. 1 \in 1 .. LIMIT - LOW
    BY <1>1
  <2>. QED  BY <1>2, <1>9, <2>1 DEF SearchPage
<1>10. CASE SearchRun
  BY <1>2, <1>10 DEF SearchRun
<1>. QED  BY <1>3, <1>4, <1>5, <1>6, <1>7, <1>8, <1>9, <1>10 DEF SearchNext

\* What has been scanned never holds a candidate.
THEOREM ScanInvariance == SearchSpec => []ScanInv
<1>1. SearchInit => ScanInv
  BY PhysInitSound DEF SearchInit, Init, ScanInv, Inv, NoSearch, ScanType
<1>2. ScanInv /\ [SearchNext]_searchVars => ScanInv'
  BY ScanStep
<1>. QED  BY <1>1, <1>2, PTL DEF SearchSpec

\* The loops of phys_alloc_page and phys_alloc_contiguous_pages end at the
\* next fit, and with nothing only if no run of that length is free anywhere.
THEOREM SearchMissesNothing == SearchSpec => SearchExact
<1>. DEFINE Miss == ~\E f \in Allocatable :
                       /\ f + scan.count <= LIMIT
                       /\ f .. f + scan.count - 1 \subseteq FreeFrames(mem)
<1>1. ASSUME ScanInv, [SearchNext]_searchVars, scan.loop # 0, scan'.loop = 0
      PROVE  mem' = Sought /\ (mem' = mem => Miss)
  <2>0. Inv /\ scan \in ScanType /\ Scanned
    BY <1>1 DEF ScanInv
  <2>1. TakeFound \/ FindNothing
    <3>1. ~SearchPage /\ ~SearchRun /\ ~OtherCall
      BY <1>1 DEF SearchPage, SearchRun, OtherCall, BeginSearch
    <3>2. ~LookFurther /\ ~UNCHANGED searchVars
      BY <1>1, <2>0 DEF LookFurther, searchVars, ScanType
    <3>3. ASSUME WrapAround  PROVE FALSE
      <4>1. scan' = [scan EXCEPT !.loop = 2, !.first = LOW]
        BY <3>3 DEF WrapAround
      <4>2. scan'.loop = 2
        BY <2>0, <4>1 DEF ScanType
      <4>. QED  BY <1>1, <4>2
    <3>. QED  BY <1>1, <3>1, <3>2, <3>3 DEF SearchNext
  <2>2. mem' = Sought
    BY <1>1, <2>1, SearchEnds
  <2>3. CASE TakeFound
    <3>1. mem' = Take(mem, scan.first, scan.count) /\ scan.first \in Candidates
      BY <2>3 DEF TakeFound
    <3>2. /\ scan.first \in Allocatable /\ scan.count \in Nat \ {0}
          /\ scan.first .. scan.first + scan.count - 1 \subseteq FreeFrames(mem)
      BY <1>1, <3>1, FoundIsNextFit
    <3>3. scan.first \in scan.first .. scan.first + scan.count - 1
      <4>1. scan.first \in Nat
        BY <2>0 DEF ScanType
      <4>. QED  BY <3>2, <4>1
    <3>4. mem'.allocated = mem.allocated \cup (scan.first .. scan.first + scan.count - 1)
      BY <2>0, <3>1 DEF Take, Inv, Sound, AllocatorType
    <3>5. mem' # mem
      BY <3>2, <3>3, <3>4 DEF FreeFrames
    <3>. QED  BY <2>2, <3>5
  <2>4. CASE FindNothing
    <3>1. Candidates = {}
      BY <1>1, <2>4, NothingLeft DEF FindNothing
    <3>2. Miss
      BY <2>0, <3>1, FreeRunIsCandidate
    <3>. QED  BY <2>2, <3>2
  <2>. QED  BY <2>1, <2>3, <2>4
<1>2. ScanInv /\ [SearchNext]_searchVars
        => [scan.loop # 0 /\ scan'.loop = 0 =>
              /\ mem' = IF scan.page THEN AllocPage(mem) ELSE AllocRun(mem, scan.count)
              /\ mem' = mem => Miss]_searchVars
  BY <1>1 DEF Sought
<1>. QED  BY <1>2, ScanInvariance, PTL DEF SearchSpec, SearchExact

\* A search of the code is one call of the allocator as PhysMem has it, and
\* its iterations before the last change nothing: whatever is proved of Spec
\* holds of the loops.
THEOREM SearchImplementsCalls == SearchSpec => Spec
<1>1. ScanInv /\ [SearchNext]_searchVars => [Next]_vars
  <2>. SUFFICES ASSUME ScanInv, [SearchNext]_searchVars  PROVE [Next]_vars
    OBVIOUS
  <2>0. Inv /\ scan \in ScanType /\ (scan.loop # 0 => Scanned)
    BY DEF ScanInv
  <2>1. ASSUME NEW page, NEW n, BeginSearch(page, n)  PROVE [Next]_vars
    <3>1. mem' = [mem EXCEPT !.cursor = StartOf(mem)] /\ boot' = boot
      BY <2>1 DEF BeginSearch
    <3>2. CASE mem.cursor \in Allocatable
      BY <2>0, <3>1, <3>2 DEF StartOf, Inv, Sound, AllocatorType, vars
    <3>3. CASE mem.cursor \notin Allocatable
      <4>1. FreeFrames(mem) = {}
        BY <2>0, <3>3 DEF Inv, Sound, FreeFrames
      <4>2. PageFound(mem) = 0
        BY <2>0, <4>1, AllocPageSound DEF Inv
      <4>3. mem' = AllocPage(mem)
        BY <3>1, <4>2 DEF AllocPage
      <4>. QED  BY <3>1, <4>3 DEF Next, Call
    <3>. QED  BY <3>2, <3>3
  <2>2. CASE TakeFound \/ FindNothing
    <3>1. mem' = Sought /\ scan.loop # 0 /\ boot' = boot
      BY <2>2, SearchEnds
    <3>2. scan.count \in 0 .. LIMIT
      BY <2>0, <3>1, PhysAssumption DEF Scanned, ScanType
    <3>3. Call(AllocPage(mem)) \/ Call(AllocRun(mem, scan.count))
      BY <3>1 DEF Sought, Call
    <3>. QED  BY <3>2, <3>3 DEF Next
  <2>3. CASE LookFurther \/ WrapAround \/ UNCHANGED searchVars
    BY <2>3 DEF LookFurther, WrapAround, searchVars, vars
  <2>4. CASE OtherCall
    BY <2>4 DEF OtherCall, Next
  <2>. QED  BY <2>1, <2>2, <2>3, <2>4 DEF SearchNext, SearchPage, SearchRun
<1>. QED  BY <1>1, ScanInvariance, PTL DEF SearchSpec, SearchInit, Spec
=============================================================================
