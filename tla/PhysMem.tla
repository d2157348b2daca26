------------------------------ MODULE PhysMem ------------------------------
(***************************************************************************)
(* The physical page-frame allocator of VNTOS (os/mm/phys.vnt): three      *)
(* bitmaps (usable, allocated, reserved), the cached page counters and the *)
(* next-fit cursor, set up from the boot loader's memory map.              *)
(*                                                                         *)
(* The allocator is single-CPU code: every function runs to completion, so *)
(* it is an operator from one allocator state to the next and an action    *)
(* applies it.  A bitmap is the set of frames whose bit is set.            *)
(***************************************************************************)
EXTENDS Integers, FiniteSets, FiniteSetsExt

CONSTANTS
  FRAME,       \* bytes of a frame (4096)
  LOW,         \* the first frame the allocator may hand out (256, 1 MiB)
  LIMIT,       \* the number of frames managed (262144, 1 GiB)
  BootMaps     \* the boot information the kernel can be started with

ASSUME PhysAssumption ==
  /\ FRAME \in Nat \ {0, 1} /\ LOW \in Nat \ {0} /\ LIMIT \in Nat /\ LOW < LIMIT
  /\ \A b \in BootMaps :
       /\ b.kernel_end \in Nat /\ LOW * FRAME < b.kernel_end
       /\ b.info_start \in Nat /\ b.info_size \in Nat
       /\ \A r \in b.regions : r.base \in Nat /\ r.length \in Nat

Frames == 0 .. LIMIT - 1
Allocatable == LOW .. LIMIT - 1

VARIABLES
  boot,   \* the boot information: memory-map regions, kernel end, info block
  mem     \* the allocator: usable, allocated, reserved, total, free, cursor

vars == <<boot, mem>>

-----------------------------------------------------------------------------
(* phys_init.                                                              *)

Ceil(bytes) == (bytes + FRAME - 1) \div FRAME

\* A region counts when it starts inside the window; its end is clamped.  Base
\* and length are read as i64: below 2^63 they are the naturals they stand for.
InWindow(r) == r.base < LIMIT * FRAME /\ r.length > 0
EndOf(r) == Min({r.base + r.length, LIMIT * FRAME})

\* Pass one: the frames that lie completely inside the region.
Inside(r) == {f \in Allocatable : Ceil(r.base) <= f /\ f < EndOf(r) \div FRAME}

\* Pass two: the frames the region touches.
Touched(r) == {f \in Frames : r.base \div FRAME <= f /\ f < Ceil(EndOf(r))}

\* Mutant: a frame that is only partly inside a reserved region stays usable.
UsableIgnoringEdges(regions) ==
  (UNION {Inside(r) : r \in {x \in regions : x.type = 1 /\ InWindow(x)}})
    \ UNION {Inside(r) : r \in {x \in regions : x.type # 1 /\ InWindow(x)}}

UsableFrames(regions) ==
  (UNION {Inside(r) : r \in {x \in regions : x.type = 1 /\ InWindow(x)}})
    \ UNION {Touched(r) : r \in {x \in regions : x.type # 1 /\ InWindow(x)}}

KernelFrames(b) == {f \in Frames : f < Ceil(b.kernel_end)}

InfoFrames(b) ==
  {f \in Frames : /\ b.info_start > 0 /\ b.info_size > 0
                  /\ b.info_start < LIMIT * FRAME
                  /\ b.info_start \div FRAME <= f
                  /\ f < Ceil(b.info_start + b.info_size)}

BootFrames(b) == KernelFrames(b) \cup InfoFrames(b)

\* What the allocator can hand out in state m.
FreeFrames(m) == {f \in Allocatable : f \in m.usable /\ f \notin m.allocated}

\* Without a memory map phys_init returns before it writes anything: the
\* bitmaps, the counters and the cursor keep the zeros of the image.
Unmanaged ==
  [usable |-> {}, allocated |-> {}, reserved |-> {}, total |-> 0, free |-> 0, cursor |-> 0]

PhysInit(b) ==
  LET usable == UsableFrames(b.regions) IN
  IF b.regions = {} THEN Unmanaged
  ELSE [usable |-> usable, allocated |-> BootFrames(b), reserved |-> BootFrames(b),
        total |-> Cardinality(usable),
        free |-> Cardinality({f \in usable : LOW <= f /\ f \notin BootFrames(b)}),
        cursor |-> LOW]

Init ==
  /\ boot \in BootMaps
  /\ mem = PhysInit(boot)

-----------------------------------------------------------------------------
(* Allocation.  Frame 0 is never handed out, so 0 stands for "none".       *)

\* The cursor the scan starts from.
StartOf(m) == IF m.cursor \in Allocatable THEN m.cursor ELSE LOW

\* Next fit: the first candidate from the cursor up, else the first below it.
\* This is what the two scanning loops find; PhysSearch has the loops.
NextFit(m, candidates) ==
  LET above == {f \in candidates : f >= StartOf(m)} IN
  IF candidates = {} THEN 0
  ELSE IF above # {} THEN Min(above) ELSE Min(candidates)

\* The first frames of the runs of n frames that are free.
FreeRuns(m, n) ==
  {f \in Allocatable : /\ f + n <= LIMIT
                       /\ \A g \in f .. f + n - 1 : g \in FreeFrames(m) /\ g \notin m.reserved}

Take(m, first, n) ==
  [m EXCEPT !.allocated = @ \cup first .. first + n - 1,
            !.free = @ - n,
            !.cursor = IF first + n >= LIMIT THEN LOW ELSE first + n]

\* The frame phys_alloc_page returns, and the state it leaves.
PageFound(m) == NextFit(m, FreeFrames(m))
AllocPage(m) ==
  IF PageFound(m) = 0 THEN [m EXCEPT !.cursor = StartOf(m)]
  ELSE Take(m, PageFound(m), 1)

\* The same for phys_alloc_contiguous_pages.
RunFound(m, n) == IF n \in 1 .. LIMIT - LOW THEN NextFit(m, FreeRuns(m, n)) ELSE 0
AllocRun(m, n) ==
  IF n \notin 1 .. LIMIT - LOW THEN m
  ELSE IF RunFound(m, n) = 0 THEN [m EXCEPT !.cursor = StartOf(m)]
  ELSE Take(m, RunFound(m, n), n)

\* Mutant: reserved frames are freed like any other.
FreeUnreserved(m, address, n) ==
  LET first == address \div FRAME IN
  /\ n > 0 /\ LOW * FRAME <= address /\ address < LIMIT * FRAME
  /\ address % FRAME = 0 /\ first + n <= LIMIT
  /\ \A f \in first .. first + n - 1 : f \in m.usable /\ f \in m.allocated

\* Mutant: a run is accepted on the strength of its first frame.
FreeFirstChecked(m, address, n) ==
  LET first == address \div FRAME IN
  /\ n > 0 /\ LOW * FRAME <= address /\ address < LIMIT * FRAME
  /\ address % FRAME = 0 /\ first + n <= LIMIT
  /\ first \in m.usable /\ first \in m.allocated /\ first \notin m.reserved

\* phys_free_page and phys_free_contiguous_pages: accepted only when every
\* frame of the run is usable, allocated and not reserved.
FreeAccepted(m, address, n) ==
  LET first == address \div FRAME IN
  /\ n > 0 /\ LOW * FRAME <= address /\ address < LIMIT * FRAME
  /\ address % FRAME = 0
  /\ first + n <= LIMIT
  /\ \A f \in first .. first + n - 1 :
       f \in m.usable /\ f \in m.allocated /\ f \notin m.reserved

\* Mutant: the free counter is not updated.
FreeUncounted(m, address, n) ==
  LET first == address \div FRAME IN
  IF ~FreeAccepted(m, address, n) THEN m
  ELSE [m EXCEPT !.allocated = @ \ (first .. first + n - 1),
                 !.cursor = IF @ \notin Allocatable \/ first < @ THEN first ELSE @]

\* Mutant: the cursor does not go back to the freed frame.
FreeKeepsCursor(m, address, n) ==
  LET first == address \div FRAME IN
  IF ~FreeAccepted(m, address, n) THEN m
  ELSE [m EXCEPT !.allocated = @ \ (first .. first + n - 1), !.free = @ + n]

FreePages(m, address, n) ==
  LET first == address \div FRAME IN
  IF ~FreeAccepted(m, address, n) THEN m
  ELSE [m EXCEPT !.allocated = @ \ (first .. first + n - 1),
                 !.free = @ + n,
                 !.cursor = IF @ \notin Allocatable \/ first < @ THEN first ELSE @]

\* phys_reserve_allocated_page.
ReserveAccepted(m, address) ==
  /\ LOW * FRAME <= address /\ address < LIMIT * FRAME
  /\ address % FRAME = 0
  /\ address \div FRAME \in m.usable \cap m.allocated

ReservePage(m, address) ==
  IF ReserveAccepted(m, address)
  THEN [m EXCEPT !.reserved = @ \cup {address \div FRAME}] ELSE m

-----------------------------------------------------------------------------
(* phys_self_test (the memtest command): the state after each of its       *)
(* calls, and its verdict.  Its two frees of an unaligned address do       *)
(* nothing, FRAME being more than one byte.                                *)

MemtestTrace(m) ==
  LET page     == PageFound(m)
      taken    == AllocPage(m)
      given    == FreePages(taken, page * FRAME, 1)
      again    == FreePages(given, page * FRAME, 1)
      kernel   == FreePages(again, LOW * FRAME, 1)
      run      == RunFound(kernel, 2)
      runTaken == AllocRun(kernel, 2)
      runGiven == FreePages(runTaken, run * FRAME, 2)
  IN [page |-> page, taken |-> taken, given |-> given, again |-> again,
      kernel |-> kernel, run |-> run, runTaken |-> runTaken, runGiven |-> runGiven,
      last |-> FreePages(runGiven, run * FRAME, 2)]

Memtest(m) == IF PageFound(m) = 0 THEN AllocPage(m) ELSE MemtestTrace(m).last

MemtestPasses(m) ==
  LET t == MemtestTrace(m)
      next == IF t.page + 1 >= LIMIT THEN LOW ELSE t.page + 1
  IN
  /\ t.page # 0
  /\ t.taken.cursor = next
  /\ FreeAccepted(t.taken, t.page * FRAME, 1)
  /\ t.given.cursor = (IF t.page < next THEN t.page ELSE next)
  /\ ~FreeAccepted(t.given, t.page * FRAME, 1)
  /\ ~FreeAccepted(t.again, LOW * FRAME, 1)
  /\ t.run # 0
  /\ t.runTaken.free = m.free - 2
  /\ {t.run, t.run + 1} \subseteq t.runTaken.allocated
  /\ FreeAccepted(t.runTaken, t.run * FRAME, 2)
  /\ ~FreeAccepted(t.runGiven, t.run * FRAME, 2)
  /\ t.last.free = m.free

-----------------------------------------------------------------------------
Call(m) == mem' = m /\ UNCHANGED boot

\* The calls that search for nothing, and the self-test.
OtherCalls ==
  \/ \E a \in 0 .. LIMIT * FRAME, n \in 0 .. LIMIT : Call(FreePages(mem, a, n))
  \/ \E a \in 0 .. LIMIT * FRAME : Call(ReservePage(mem, a))
  \/ Call(Memtest(mem))

Next ==
  \/ Call(AllocPage(mem))
  \/ \E n \in 0 .. LIMIT : Call(AllocRun(mem, n))
  \/ OtherCalls

Spec == Init /\ [][Next]_vars

-----------------------------------------------------------------------------
(* Properties.                                                             *)

TypeOK ==
  /\ boot \in BootMaps
  /\ mem \in [usable : SUBSET Allocatable, allocated : SUBSET Frames,
              reserved : SUBSET Frames, total : Nat, free : Int,
              cursor : Allocatable \cup {0}]

\* The cached counter that phys_count_free_pages reports is the number of
\* frames that can be handed out, after any sequence of allocations, frees,
\* reservations and self-tests (and so is never negative).
FreeCountExact ==
  mem.total = Cardinality(mem.usable) /\ mem.free = Cardinality(FreeFrames(mem))

\* Every reserved frame is allocated, so neither scan of the allocator can
\* hand it out: phys_alloc_try_frame does not look at the reserved bitmap.
ReservedIsAllocated == mem.reserved \subseteq mem.allocated

\* Whatever is allocated is usable memory or was reserved at boot.
AllocatedIsBacked == mem.allocated \subseteq mem.usable \cup BootFrames(boot)

\* After no sequence of calls is a frame of the kernel image or of the boot
\* information block among those that phys_alloc_try_frame and
\* phys_range_is_free would hand out, although the memory map calls it RAM and
\* the first of the two looks only at the usable and allocated bitmaps: what
\* phys_init marked is neither overlooked by a search nor given back by a free.
BootFramesKept == BootFrames(boot) \cap FreeFrames(mem) = {}

\* Every byte of a usable frame is RAM according to the memory map, and none
\* is claimed by an entry of another type, whatever overlaps the map contains.
UsableIsRam ==
  \A f \in mem.usable : \A byte \in f * FRAME .. (f + 1) * FRAME - 1 :
    /\ \E r \in boot.regions : r.type = 1 /\ byte \in r.base .. r.base + r.length - 1
    /\ \A r \in boot.regions : r.type # 1 => byte \notin r.base .. r.base + r.length - 1

\* "Exercise single-page and contiguous allocation while restoring allocator
\* state" (phys_self_test): the bitmaps and counters are as before.
MemtestRestores == [Memtest(mem) EXCEPT !.cursor = mem.cursor] = mem

\* memtest reports PASS exactly when two adjacent frames are free.
MemtestVerdict ==
  MemtestPasses(mem) <=> \E f \in Allocatable : {f, f + 1} \subseteq FreeFrames(mem)

\* A page that was reserved (a page table, a processor's stack) is never
\* freed again, neither by itself nor as part of a run.
ReservedForever ==
  [][mem.reserved \subseteq mem'.reserved /\ mem.reserved \subseteq mem'.allocated]_vars
=============================================================================
