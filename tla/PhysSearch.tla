----------------------------- MODULE PhysSearch -----------------------------
(***************************************************************************)
(* The two searches of the page-frame allocator, phys_alloc_page and       *)
(* phys_alloc_contiguous_pages, one loop iteration per step.  Each scans   *)
(* from the cursor to the end of memory and then from 1 MiB up to where it *)
(* began.                                                                  *)
(*                                                                         *)
(* PhysMem says what the searches find (NextFit) and what they leave       *)
(* behind (AllocPage, AllocRun), and phys_self_test and the paging code    *)
(* are built on that; here the loops are shown to do it.                   *)
(***************************************************************************)
EXTENDS PhysMem

VARIABLE
  scan    \* the search under way: which loop it is in (0: there is none), for
          \* a page or a run of how many, the frame it looks at, where it began

searchVars == <<boot, mem, scan>>

NoSearch == [loop |-> 0, page |-> FALSE, count |-> 0, first |-> 0, start |-> 0]

\* phys_alloc_try_frame asks two bitmaps, phys_range_is_free all three.
Candidates == IF scan.page THEN FreeFrames(mem) ELSE FreeRuns(mem, scan.count)

\* Mutant: a run that would end with the last frame is not looked at.
MoreToScanStrict ==
  /\ scan.first + scan.count < LIMIT
  /\ scan.loop = 2 => scan.first < scan.start

\* The conditions of the loops; a page is a run of one.
MoreToScan ==
  /\ scan.first + scan.count <= LIMIT
  /\ scan.loop = 2 => scan.first < scan.start

\* A cursor outside the window is put right before the first loop.
BeginSearch(page, n) ==
  /\ scan.loop = 0
  /\ scan' = [loop |-> 1, page |-> page, count |-> n,
              first |-> StartOf(mem), start |-> StartOf(mem)]
  /\ mem' = [mem EXCEPT !.cursor = StartOf(mem)]
  /\ UNCHANGED boot

SearchPage == BeginSearch(TRUE, 1)

\* Other counts are refused without a search.
SearchRun == \E n \in 1 .. LIMIT - LOW : BeginSearch(FALSE, n)

TakeFound ==
  /\ scan.loop # 0 /\ MoreToScan
  /\ scan.first \in Candidates
  /\ mem' = Take(mem, scan.first, scan.count)
  /\ scan' = NoSearch
  /\ UNCHANGED boot

LookFurther ==
  /\ scan.loop # 0 /\ MoreToScan
  /\ scan.first \notin Candidates
  /\ scan' = [scan EXCEPT !.first = @ + 1]
  /\ UNCHANGED vars

WrapAround ==
  /\ scan.loop = 1 /\ ~MoreToScan
  /\ scan' = [scan EXCEPT !.loop = 2, !.first = LOW]
  /\ UNCHANGED vars

FindNothing ==
  /\ scan.loop = 2 /\ ~MoreToScan
  /\ scan' = NoSearch
  /\ UNCHANGED vars

\* The allocator is single-CPU code: no other call comes between.
OtherCall ==
  /\ scan.loop = 0
  /\ OtherCalls
  /\ UNCHANGED scan

SearchInit == Init /\ scan = NoSearch

SearchNext ==
  SearchPage \/ SearchRun \/ TakeFound \/ LookFurther \/ WrapAround \/ FindNothing \/ OtherCall

SearchSpec == SearchInit /\ [][SearchNext]_searchVars

-----------------------------------------------------------------------------
\* "Returns a 4-KiB-aligned physical address, or zero when exhausted", "zero
\* without changing allocation state when no contiguous run exists": a search
\* that ends has taken the first candidate from the cursor on, round the end
\* of memory, and one that ends with nothing leaves no run of that many free
\* frames anywhere, wherever the cursor was and whatever is reserved.
SearchExact ==
  [][scan.loop # 0 /\ scan'.loop = 0 =>
       /\ mem' = IF scan.page THEN AllocPage(mem) ELSE AllocRun(mem, scan.count)
       /\ mem' = mem =>
            ~\E f \in Allocatable : /\ f + scan.count <= LIMIT
                                    /\ f .. f + scan.count - 1 \subseteq FreeFrames(mem)]_searchVars
=============================================================================
