------------------------------ MODULE SmpBoot -------------------------------
(***************************************************************************)
(* Starting the application processors (APs) of VNTOS: smp_init,           *)
(* smp_start_aps and smp_test_ipis on the bootstrap processor, the         *)
(* low-memory trampoline and smp_ap_entry on each AP.                      *)
(*                                                                         *)
(* An AP answers as late as it likes, or never; every wait of the BSP is   *)
(* bounded and may run out.  Stack pages are numbered in the order         *)
(* phys_alloc_page hands them out; PhysMem shows that they differ and that *)
(* reserving a page just allocated succeeds, so error code 4 is left out,  *)
(* as are codes 1 (APIC off) and 2: the kernel calls these functions after *)
(* apic_init, and the trampoline is smaller than a page.                   *)
(***************************************************************************)
EXTENDS Naturals, Sequences, FiniteSets

CONSTANTS
    BSP,        \* the processor that boots
    Tables,     \* possible lists of enabled processors in the MADT
    MAX_CPUS,   \* slots for processors (16)
    PAGES       \* pages the allocator can still hand out, as a set of counts

ASSUME SmpBootAssumption ==
    /\ MAX_CPUS \in Nat /\ PAGES \subseteq Nat
    /\ \A t \in Tables : \A i, j \in DOMAIN t : t[i] = t[j] => i = j
    /\ \A t \in Tables : \E i \in DOMAIN t : t[i] = BSP

VARIABLES
    table,      \* acpi_cpu_apic_id by index, from 1
    bsp,        \* what the BSP does next: pc, table index, previous count, resend
    online,     \* slot 60
    flag,       \* slots 112 ..: online flag by index
    stacks,     \* slots 128 ..: stack by index, 0 if none
    error,      \* slot 143
    trampoline, \* the stack slot of the copied trampoline
    pages,      \* pages the allocator has left
    ap,         \* per index: pc, stack pointer, register, interrupt flag
    pending,    \* indexes with an undelivered vector 240
    ipis,       \* slots 144 ..: interrupts handled by index
    result      \* what smp_start_aps and smp_test_ipis returned

vars == <<table, bsp, online, flag, stacks, error, trampoline, pages, ap, pending, ipis, result>>

Discovered == Len(table)
APs == {i \in DOMAIN table : table[i] # BSP}
NoResult == [started |-> "none", responses |-> 0]

Init ==
    /\ table \in Tables
    /\ bsp = [pc |-> "start", index |-> 1, previous |-> 0, resent |-> FALSE]
    /\ online = 1                                        \* smp_init
    /\ flag = [i \in DOMAIN table |-> IF table[i] = BSP THEN 1 ELSE 0]
    /\ stacks = [i \in DOMAIN table |-> 0]
    /\ error = 0
    /\ trampoline = 0
    /\ pages \in PAGES
    /\ ap = [i \in APs |-> [pc |-> "off", rsp |-> 0, reg |-> 0, masked |-> TRUE]]
    /\ pending = {}
    /\ ipis = [i \in DOMAIN table |-> 0]
    /\ result = NoResult

At(pc) == bsp.pc = pc
Goto(pc) == bsp' = [bsp EXCEPT !.pc = pc]

StartFails(code) ==
    /\ error' = code
    /\ result' = [result EXCEPT !.started = "no"]
    /\ Goto("shell")

NextIndex == bsp' = [bsp EXCEPT !.pc = "next", !.index = @ + 1, !.resent = FALSE]
-----------------------------------------------------------------------------
(* The bootstrap processor                                                 *)

(* Mutant: processors beyond the table's slots are passed over in silence. *)
StartCapped ==
    /\ At("start")
    /\ IF Discovered \in 2 .. MAX_CPUS THEN Goto("next") /\ UNCHANGED result
       ELSE Goto("test") /\ result' = [result EXCEPT !.started = "yes"]
    /\ UNCHANGED <<table, online, flag, stacks, error, trampoline, pages, ap, pending, ipis>>

(* One processor needs no start-up; more than MAX_CPUS are refused. *)
Start ==
    /\ At("start")
    /\ CASE Discovered <= 1 -> Goto("test") /\ result' = [result EXCEPT !.started = "yes"] /\ UNCHANGED error
         [] Discovered > MAX_CPUS -> StartFails(1)
         [] OTHER -> Goto("next") /\ UNCHANGED <<error, result>>
    /\ UNCHANGED <<table, online, flag, stacks, trampoline, pages, ap, pending, ipis>>

(* The loop header, and the verdict after the last processor. *)
NextCpu ==
    /\ At("next")
    /\ CASE bsp.index \in APs -> Goto("stack") /\ UNCHANGED <<error, result>>
         [] bsp.index \in DOMAIN table \ APs -> NextIndex /\ UNCHANGED <<error, result>>
         [] bsp.index > Discovered /\ online = Discovered ->
              /\ error' = 0
              /\ result' = [result EXCEPT !.started = "yes"]
              /\ bsp' = [bsp EXCEPT !.pc = "test", !.index = 1]
         [] OTHER -> StartFails(11)
    /\ UNCHANGED <<table, online, flag, stacks, trampoline, pages, ap, pending, ipis>>

(* A reserved page for the stack, published in the trampoline. *)
GiveStack ==
    /\ At("stack")
    /\ IF pages = 0
       THEN StartFails(3) /\ UNCHANGED <<stacks, trampoline, pages>>
       ELSE /\ pages' = pages - 1
            /\ stacks' = [stacks EXCEPT ![bsp.index] = pages]
            /\ trampoline' = pages
            /\ bsp' = [bsp EXCEPT !.pc = "init", !.previous = online]
            /\ UNCHANGED <<error, result>>
    /\ UNCHANGED <<table, online, flag, ap, pending, ipis>>

(* INIT resets an AP; a start-up IPI is heard only by one that has         *)
(* finished its reset.                                                     *)
AfterInit(i) == [ap EXCEPT ![i] = [pc |-> "reset", rsp |-> 0, reg |-> 0, masked |-> TRUE]]
AfterSipi(i) == [ap EXCEPT ![i].pc = IF @ = "parked" THEN "trampoline" ELSE @]

(* INIT assert and deassert, each followed by a wait for one timer tick.   *)
SendInit ==
    /\ At("init")
    /\ ap' = AfterInit(bsp.index)
    /\ Goto("deassert")
    /\ UNCHANGED <<table, online, flag, stacks, error, trampoline, pages, pending, ipis, result>>

SendDeassert ==
    /\ At("deassert")
    /\ Goto("sipi")
    /\ UNCHANGED <<table, online, flag, stacks, error, trampoline, pages, ap, pending, ipis, result>>

SendSipi ==
    /\ At("sipi")
    /\ ap' = AfterSipi(bsp.index)
    /\ Goto("online")
    /\ UNCHANGED <<table, online, flag, stacks, error, trampoline, pages, pending, ipis, result>>

(* apic_send_icr gives up before or after the command was written (5, 7    *)
(* and 9), or no timer tick is seen (6 and 8).                             *)
SendFails ==
    /\ \/ At("init") /\ ap' \in {ap, AfterInit(bsp.index)} /\ StartFails(5)
       \/ At("deassert") /\ UNCHANGED ap /\ (StartFails(6) \/ StartFails(7))
       \/ At("sipi") /\ UNCHANGED ap /\ StartFails(8)
       \/ At("sipi") /\ ap' \in {ap, AfterSipi(bsp.index)} /\ StartFails(9)
    /\ UNCHANGED <<table, online, flag, stacks, trampoline, pages, pending, ipis>>

(* smp_wait_for_online sees the counter rise, ... *)
SeeOnline ==
    /\ At("online") /\ online > bsp.previous
    /\ NextIndex
    /\ UNCHANGED <<table, online, flag, stacks, error, trampoline, pages, ap, pending, ipis, result>>

(* Mutant: start-up goes on with the next processor. *)
NotOnlineGoOn ==
    /\ At("online") /\ online <= bsp.previous
    /\ NextIndex
    /\ UNCHANGED <<table, online, flag, stacks, error, trampoline, pages, ap, pending, ipis, result>>

(* Mutant: after the second start-up IPI the wait has no bound. *)
NotOnlineWait ==
    /\ At("online") /\ online <= bsp.previous /\ ~bsp.resent
    /\ bsp' = [bsp EXCEPT !.resent = TRUE]
    /\ ap' \in {ap, AfterSipi(bsp.index)}
    /\ UNCHANGED <<table, online, flag, stacks, error, trampoline, pages, pending, ipis, result>>

(* ... or runs out: the start-up IPI is sent once more, whether or not     *)
(* that succeeds, and the second time the AP is given up.                  *)
NotOnline ==
    /\ At("online") /\ online <= bsp.previous
    /\ IF bsp.resent THEN StartFails(10) /\ UNCHANGED ap
       ELSE /\ bsp' = [bsp EXCEPT !.resent = TRUE]
            /\ ap' \in {ap, AfterSipi(bsp.index)}
            /\ UNCHANGED <<error, result>>
    /\ UNCHANGED <<table, online, flag, stacks, trampoline, pages, pending, ipis>>

(* smp_test_ipis: an interrupt to the next online AP, ... *)
TestIpi ==
    /\ At("test")
    /\ LET i == bsp.index
       IN IF i \notin DOMAIN table THEN Goto("shell") /\ UNCHANGED pending
          ELSE IF i \in APs /\ flag[i] = 1
               THEN /\ bsp' = [bsp EXCEPT !.pc = "answer", !.previous = ipis[i]]
                    /\ pending' = pending \cup {i}
               ELSE bsp' = [bsp EXCEPT !.index = @ + 1] /\ UNCHANGED pending
    /\ UNCHANGED <<table, online, flag, stacks, error, trampoline, pages, ap, ipis, result>>

(* ... the count of which must change. *)
SeeAnswer ==
    /\ At("answer") /\ ipis[bsp.index] # bsp.previous
    /\ result' = [result EXCEPT !.responses = @ + 1]
    /\ bsp' = [bsp EXCEPT !.pc = "test", !.index = @ + 1]
    /\ UNCHANGED <<table, online, flag, stacks, error, trampoline, pages, ap, pending, ipis>>

(* The send fails (12) or no answer is seen in time (13). *)
NoAnswer ==
    /\ At("answer") /\ ipis[bsp.index] = bsp.previous
    /\ error' \in {12, 13}
    /\ result' = [result EXCEPT !.responses = 0]
    /\ Goto("shell")
    /\ UNCHANGED <<table, online, flag, stacks, trampoline, pages, ap, pending, ipis>>

BspStep ==
    \/ Start \/ NextCpu \/ GiveStack \/ SendInit \/ SendDeassert \/ SendSipi \/ SendFails
    \/ SeeOnline \/ NotOnline \/ TestIpi \/ SeeAnswer \/ NoAnswer
-----------------------------------------------------------------------------
(* An application processor                                                *)

ApAt(i, pc) == ap[i].pc = pc

FinishReset(i) ==
    /\ ApAt(i, "reset")
    /\ ap' = [ap EXCEPT ![i].pc = "parked"]
    /\ UNCHANGED <<table, bsp, online, flag, stacks, error, trampoline, pages, pending, ipis, result>>

(* The trampoline loads the stack slot and calls smp_ap_entry. *)
LoadStack(i) ==
    /\ ApAt(i, "trampoline")
    /\ ap' = [ap EXCEPT ![i].pc = "entry", ![i].rsp = trampoline]
    /\ UNCHANGED <<table, bsp, online, flag, stacks, error, trampoline, pages, pending, ipis, result>>

(* smp_ap_entry publishes the processor's flag, *)
Publish(i) ==
    /\ ApAt(i, "entry")
    /\ flag' = [flag EXCEPT ![i] = 1]
    /\ ap' = [ap EXCEPT ![i].pc = "read"]
    /\ UNCHANGED <<table, bsp, online, stacks, error, trampoline, pages, pending, ipis, result>>

(* reads the counter, *)
ReadOnline(i) ==
    /\ ApAt(i, "read")
    /\ ap' = [ap EXCEPT ![i].pc = "write", ![i].reg = online]
    /\ UNCHANGED <<table, bsp, online, flag, stacks, error, trampoline, pages, pending, ipis, result>>

(* writes it back plus one, *)
WriteOnline(i) ==
    /\ ApAt(i, "write")
    /\ online' = ap[i].reg + 1
    /\ ap' = [ap EXCEPT ![i].pc = "sti"]
    /\ UNCHANGED <<table, bsp, flag, stacks, error, trampoline, pages, pending, ipis, result>>

(* enables interrupts and halts. *)
Halt(i) ==
    /\ ApAt(i, "sti")
    /\ ap' = [ap EXCEPT ![i].pc = "hlt", ![i].masked = FALSE]
    /\ UNCHANGED <<table, bsp, online, flag, stacks, error, trampoline, pages, pending, ipis, result>>

(* smp_handle_ipi with no test armed: one more in the AP's own count. *)
HandleIpi(i) ==
    /\ ApAt(i, "hlt") /\ i \in pending /\ ~ap[i].masked
    /\ pending' = pending \ {i}
    /\ ipis' = [ipis EXCEPT ![i] = @ + 1]
    /\ UNCHANGED <<table, bsp, online, flag, stacks, error, trampoline, pages, ap, result>>

ApStep(i) ==
    \/ FinishReset(i) \/ LoadStack(i) \/ Publish(i) \/ ReadOnline(i) \/ WriteOnline(i)
    \/ Halt(i) \/ HandleIpi(i)

Next == BspStep \/ \E i \in APs : ApStep(i)

Spec == Init /\ [][Next]_vars

(* The BSP keeps executing; nothing is asked of the APs. *)
FairSpec == Spec /\ WF_vars(BspStep)
-----------------------------------------------------------------------------
Running == {i \in APs : ap[i].rsp # 0}

(* "a private stack": each AP that runs kernel code does so on the stack   *)
(* allocated for it, whichever AP answers late, though all of them read it *)
(* from the one slot of the trampoline.                                    *)
StacksPrivate ==
    /\ \A i \in Running : ap[i].rsp = stacks[i]
    /\ \A i, j \in Running : ap[i].rsp = ap[j].rsp => i = j

(* The online count, raised by a load and a store without a lock, is       *)
(* always the number of processors that have reported.                     *)
OnlineExact == online = 1 + Cardinality({i \in APs : ap[i].pc \in {"sti", "hlt"}})

(* smp_start_aps returns 1 only if every processor of the table is up, and *)
(* they stay up; the self-tests rely on it when they count on one          *)
(* completion per AP.                                                      *)
StartedMeansUp ==
    result.started = "yes" => online = Discovered /\ \A i \in DOMAIN table : flag[i] = 1

(* The kernel reaches its shell even if no AP ever answers. *)
BootEnds == <>(bsp.pc = "shell")
=============================================================================
