------------------------------ MODULE VirtMem ------------------------------
(***************************************************************************)
(* The early virtual-memory layer of VNTOS (os/mm/virt.vnt) on top of the  *)
(* page-frame allocator, driven by what the kernel does with both: the     *)
(* processors' stacks at boot, then the shell commands memtest and vmtest. *)
(*                                                                         *)
(* A virtual page and a frame are both numbered from 0.  A directory entry *)
(* is a huge identity page or the number of the frame that holds its page  *)
(* table; a page table is what is stored in a frame, so it can be          *)
(* overwritten through any mapping of that frame.                          *)
(***************************************************************************)
EXTENDS PhysMem

CONSTANTS
  SPAN,       \* pages under one directory entry (512)
  TARGET,     \* the page virt_self_test remaps (256 MiB)
  MaxStacks,  \* application processors found by ACPI, at most
  Junk        \* a word that is no page-table entry of ours

\* The next-fit search starts at 1 MiB and the kernel takes a few frames, so
\* it does not come near 256 MiB: either the target is not usable memory, or
\* there are enough free frames below it.
TargetOutOfReach(b) ==
  \/ TARGET \notin UsableFrames(b.regions)
  \/ Cardinality({f \in FreeFrames(PhysInit(b)) : f < TARGET}) >= MaxStacks + 2

ASSUME VirtAssumption ==
  /\ SPAN \in Nat \ {0} /\ LIMIT % SPAN = 0 /\ TARGET \in Frames
  /\ MaxStacks \in Nat /\ Junk \notin Frames
  /\ \A b \in BootMaps : TargetOutOfReach(b)

Entries == 0 .. SPAN - 1
Directory == 0 .. LIMIT \div SPAN - 1
Huge == 0                      \* frame 0 is never a page table

VARIABLES
  directory,   \* the page directory
  contents,    \* the words of each frame that holds, or held, a page table
  stacks       \* stacks still to be allocated before the shell starts

space == [mem |-> mem, directory |-> directory, contents |-> contents]
virtVars == <<boot, mem, directory, contents, stacks>>

VirtInit ==
  /\ Init
  /\ directory = [d \in Directory |-> Huge]
  /\ contents = [f \in Frames |-> [i \in Entries |-> Junk]]
  /\ stacks \in 0 .. MaxStacks

-----------------------------------------------------------------------------
\* virt_translate, for the page; the processor's own walk is the same.
Translate(s, page) ==
  LET entry == s.directory[page \div SPAN] IN
  IF entry = Huge THEN page ELSE s.contents[entry][page % SPAN]

\* A store to the words of a page goes to the frame the page is mapped to.
Store(s, page, words) ==
  IF Translate(s, page) \notin Frames THEN s
  ELSE [s EXCEPT !.contents[Translate(s, page)] = words]

\* Mutant: the entry after the intended one is written.
StoreEntryShifted(s, page, i, word) ==
  IF Translate(s, page) \notin Frames THEN s
  ELSE [s EXCEPT !.contents[Translate(s, page)][(i + 1) % SPAN] = word]

StoreEntry(s, page, i, word) ==
  IF Translate(s, page) \notin Frames THEN s
  ELSE [s EXCEPT !.contents[Translate(s, page)][i] = word]

\* Mutant: the new table frame is not reserved.
SplitUnreserved(s, page) ==
  LET table  == PageFound(s.mem)
      d      == page \div SPAN
      filled == Store([s EXCEPT !.mem = AllocPage(s.mem)],
                      table, [i \in Entries |-> d * SPAN + i])
  IN [filled EXCEPT !.directory[d] = table]

\* The huge page over the given page is split: a table frame is allocated,
\* filled with the identity, entered in the directory and reserved.
Split(s, page) ==
  LET table  == PageFound(s.mem)
      d      == page \div SPAN
      filled == Store([s EXCEPT !.mem = AllocPage(s.mem)],
                      table, [i \in Entries |-> d * SPAN + i])
  IN [filled EXCEPT !.directory[d] = table,
                    !.mem = ReservePage(filled.mem, table * FRAME)]

\* Mutant: an existing table is reported as a fresh split.
MapResultOne(s, page) == IF PageFound(s.mem) = 0 THEN 0 ELSE 1

\* virt_map_page: the state it leaves, and its result: 0 when no frame is left
\* for a table, 1 when a huge page was split, 2 when the table existed.
MapResult(s, page) ==
  IF s.directory[page \div SPAN] # Huge THEN 2
  ELSE IF PageFound(s.mem) = 0 THEN 0 ELSE 1

MapPage(s, page, frame) ==
  LET ready == IF MapResult(s, page) = 1 THEN Split(s, page) ELSE s IN
  IF MapResult(s, page) = 0 THEN [s EXCEPT !.mem = AllocPage(s.mem)]
  ELSE StoreEntry(ready, ready.directory[page \div SPAN], page % SPAN, frame)

Free(s, frame) == [s EXCEPT !.mem = FreePages(s.mem, frame * FRAME, 1)]

-----------------------------------------------------------------------------
(* virt_self_test (the vmtest command).                                    *)

VmtestTrace(s) ==
  LET page     == PageFound(s.mem)
      taken    == [s EXCEPT !.mem = AllocPage(s.mem)]
      mapped   == MapPage(taken, TARGET, page)
      probed   == StoreEntry(mapped, TARGET, 0, Junk)
      restored == MapPage(probed, TARGET, TARGET)
  IN [page |-> page, taken |-> taken, mapped |-> mapped, probed |-> probed,
      restored |-> restored, last |-> Free(restored, page)]

\* Mutant: a failed mapping does not give the page back.
VmtestLeaks(s) ==
  LET t == VmtestTrace(s) IN
  IF Translate(s, TARGET) # TARGET THEN s
  ELSE IF t.page = 0 THEN t.taken
  ELSE IF MapResult(t.taken, TARGET) # 1 THEN t.mapped
  ELSE t.last

Vmtest(s) ==
  LET t == VmtestTrace(s) IN
  IF Translate(s, TARGET) # TARGET THEN s
  ELSE IF t.page = 0 THEN t.taken
  ELSE IF MapResult(t.taken, TARGET) # 1 THEN Free(t.mapped, t.page)
  ELSE t.last

VmtestPasses(s) ==
  LET t == VmtestTrace(s) IN
  /\ Translate(s, TARGET) = TARGET
  /\ t.page # 0
  /\ MapResult(t.taken, TARGET) = 1
  /\ Translate(t.mapped, TARGET) = t.page
  /\ MapResult(t.probed, TARGET) = 2
  /\ Translate(t.restored, TARGET) = TARGET
  /\ FreeAccepted(t.restored.mem, t.page * FRAME, 1)
  /\ t.last.mem.free = s.mem.free - 1

-----------------------------------------------------------------------------
(* The kernel.                                                             *)

\* smp_start_aps: one reserved page for each processor's stack; the first
\* failure ends the start-up.  The shell runs afterwards.
StartProcessor ==
  LET page == PageFound(mem) IN
  /\ stacks > 0
  /\ mem' = ReservePage(AllocPage(mem), page * FRAME)
  /\ stacks' = IF page = 0 THEN 0 ELSE stacks - 1
  /\ UNCHANGED <<boot, directory, contents>>

MemtestCommand ==
  /\ stacks = 0
  /\ mem' = Memtest(mem)
  /\ UNCHANGED <<boot, directory, contents, stacks>>

VmtestCommand ==
  /\ stacks = 0
  /\ mem' = Vmtest(space).mem
  /\ directory' = Vmtest(space).directory
  /\ contents' = Vmtest(space).contents
  /\ UNCHANGED <<boot, stacks>>

VirtNext == StartProcessor \/ MemtestCommand \/ VmtestCommand

VirtSpec == VirtInit /\ [][VirtNext]_virtVars

-----------------------------------------------------------------------------
(* Properties.                                                             *)

\* "A newly allocated table frame is reserved permanently" (virt_map_page):
\* no page table can be handed out or freed while the directory points to it.
TablesReserved ==
  \A d \in Directory : directory[d] # Huge => directory[d] \in mem.reserved

\* Splitting a huge page, and the self-test's stores through the remapped
\* page, leave every other page mapped to itself.
OthersIdentity ==
  \A page \in Frames \ {TARGET} : Translate(space, page) = page

\* Between two commands nothing is allocated but the reserved frames: no path
\* through the self-tests loses a frame.
NothingLeaked == mem.allocated \subseteq mem.reserved

\* The first vmtest reports PASS exactly when a page and a page table can be
\* allocated; any later one reports FAIL.
VmtestVerdict ==
  VmtestPasses(space) <=>
    directory[TARGET \div SPAN] = Huge /\ Cardinality(FreeFrames(mem)) >= 2

\* "then restores the identity mapping" (os/README.md, the vmtest command):
\* between two commands every page is mapped to itself.
IdentityRestored == Translate(space, TARGET) = TARGET
=============================================================================
