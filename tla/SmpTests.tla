------------------------------ MODULE SmpTests ------------------------------
(***************************************************************************)
(* The shell commands atomictest and synctest of VNTOS: the bootstrap      *)
(* processor (BSP) arms a test in shared state slots, interrupts the       *)
(* application processors (APs), meets them at a barrier, works with them  *)
(* and compares a counter with the exact total (os/kernel/smp.vnt).        *)
(*                                                                         *)
(* Slots are read and written one at a time by all processors.  Only the   *)
(* two functions after the online check are modelled: with a processor     *)
(* offline they return -1 and touch nothing.                               *)
(***************************************************************************)
EXTENDS Spinlock, Sequences

CONSTANTS
    BSP,        \* the processor that runs the shell
    Sessions    \* the commands typed at the shell, and whether a bounded wait
                \* may run out before its condition holds

ASSUME SmpTestsAssumption ==
    /\ BSP \in CPU /\ CPU # {BSP}
    /\ \A s \in Sessions : s.timeouts \in BOOLEAN

(* The rows of commands whose tests do not reach into each other: an       *)
(* atomictest never follows a synctest, whose handlers still look whether  *)
(* one was armed, and after a wait that ran out no test follows at all.    *)
Ordered(s) ==
    /\ s \in [commands : Seq({"atomictest", "synctest"}), timeouts : BOOLEAN]
    /\ s.timeouts => Len(s.commands) <= 1
    /\ \A i, j \in 1 .. Len(s.commands) :
         i < j /\ s.commands[i] = "synctest" => s.commands[j] = "synctest"

AP == CPU \ {BSP}

VARIABLES
    slot,       \* state slots 308 .. 312 (slot 313 is "shared")
    bsp,        \* what the BSP does next, for which test, and its loop state
    ap,         \* what each AP does next, and under which value of slot 309
    pending,    \* APs whose local APIC holds an undelivered vector 240
    session,    \* commands still to be typed; may waits run out?
    results,    \* history: what the tests returned
    batches     \* history: batches each AP has begun since slot 309 was armed

testVars == <<slot, bsp, ap, pending, session, results, batches>>
allVars == <<lockVars, testVars>>

Atomic == 1
Contention == 2
Expected == Cardinality(AP)

TestsInit ==
    /\ LockInit
    /\ slot = [s \in 308 .. 312 |-> 0]
    /\ bsp = [pc |-> "shell", test |-> 0, step |-> 1, unsent |-> {}]
    /\ ap = [p \in AP |-> [pc |-> "hlt", test |-> 0]]
    /\ pending = {}
    /\ session \in Sessions
    /\ results = <<>>
    /\ batches = [p \in AP |-> 0]

Goto(pc) == bsp' = [bsp EXCEPT !.pc = pc]

Return(value) ==
    /\ results' = Append(results, [test |-> bsp.test, value |-> value])
    /\ Goto("shell")

(* Mutant: slot 310 keeps the completions of the test before. *)
SetupKeepsDone(test) ==
    IF test = Atomic
    THEN << <<308, 0>>, <<309, Atomic>>, <<311, 0>>, <<312, 0>> >>
    ELSE << <<309, Contention>>, <<311, 0>>, <<312, 0>>, <<313, 0>> >>

(* The stores that arm a test, in order. *)
Setup(test) ==
    IF test = Atomic
    THEN << <<308, 0>>, <<309, Atomic>>, <<310, 0>>, <<311, 0>>, <<312, 0>> >>
    ELSE << <<309, Contention>>, <<310, 0>>, <<311, 0>>, <<312, 0>>, <<313, 0>> >>

-----------------------------------------------------------------------------
(* The bootstrap processor                                                 *)

TypeCommand ==
    /\ bsp.pc = "shell" /\ session.commands # <<>>
    /\ session' = [session EXCEPT !.commands = Tail(@)]
    /\ bsp' = IF Head(session.commands) = "atomictest"
              THEN [pc |-> "setup", test |-> Atomic, step |-> 1, unsent |-> AP]
              ELSE [pc |-> "self_init", test |-> Contention, step |-> 1, unsent |-> AP]
    /\ UNCHANGED <<lockVars, slot, ap, pending, results, batches>>

(* sync_self_test: two tries and two releases of an uncontended lock.  Its *)
(* result is only printed.                                                 *)
SelfNext ==
    [self_init |-> "self_try", self_try |-> IF word = 0 THEN "self_again" ELSE "init",
     self_again |-> IF word = 0 THEN "self_undo" ELSE "self_release", self_undo |-> "init",
     self_release |-> IF word = 1 THEN "self_double" ELSE "init", self_double |-> "init"]

SelfTest ==
    /\ bsp.pc \in DOMAIN SelfNext
    /\ word' = IF bsp.pc \in {"self_try", "self_again"} THEN 1 ELSE 0
    /\ Goto(SelfNext[bsp.pc])
    /\ UNCHANGED <<at, reg, shared, work, slot, ap, pending, session, results, batches>>

(* spinlock_init at the start of the contention test. *)
InitLock ==
    /\ bsp.pc = "init"
    /\ word' = 0
    /\ Goto("setup")
    /\ UNCHANGED <<at, reg, shared, work, slot, ap, pending, session, results, batches>>

Arm ==
    /\ bsp.pc = "setup"
    /\ LET store == Setup(bsp.test)[bsp.step]
           last == bsp.step = Len(Setup(bsp.test))
       IN /\ IF store[1] = 313 THEN shared' = store[2] /\ UNCHANGED slot
             ELSE slot' = [slot EXCEPT ![store[1]] = store[2]] /\ UNCHANGED shared
          /\ batches' = IF store[1] = 309 THEN [p \in AP |-> 0] ELSE batches
          /\ bsp' = [bsp EXCEPT !.step = @ + 1, !.pc = IF last THEN "send" ELSE "setup"]
    /\ UNCHANGED <<word, at, reg, work, ap, pending, session, results>>

(* apic_send_icr to each AP.  The code goes by table index; the APs are    *)
(* alike, so any order is taken.                                           *)
Send ==
    /\ bsp.pc = "send"
    /\ IF bsp.unsent = {} THEN Goto("await") /\ UNCHANGED pending
       ELSE \E p \in bsp.unsent :
               /\ pending' = pending \cup {p}
               /\ bsp' = [bsp EXCEPT !.unsent = @ \ {p}]
    /\ UNCHANGED <<lockVars, slot, ap, session, results, batches>>

(* apic_send_icr fails when the delivery bit stays set too long, before or *)
(* after it has written the command register.                              *)
SendFails ==
    /\ session.timeouts
    /\ bsp.pc = "send" /\ bsp.unsent # {}
    /\ \E p \in bsp.unsent : pending' \in {pending, pending \cup {p}}
    /\ Goto("abort")
    /\ UNCHANGED <<lockVars, slot, ap, session, results, batches>>

(* The wait for slot 311 and the comparison after it. *)
AwaitReady ==
    /\ bsp.pc = "await"
    /\ slot[311] >= Expected \/ session.timeouts
    /\ Goto("check_ready")
    /\ UNCHANGED <<lockVars, slot, ap, pending, session, results, batches>>

CheckReady ==
    /\ bsp.pc = "check_ready"
    /\ Goto(IF slot[311] = Expected THEN "open" ELSE "abort")
    /\ UNCHANGED <<lockVars, slot, ap, pending, session, results, batches>>

(* A test that is given up is disarmed first; then parked APs are let go.  *)
Abort ==
    /\ bsp.pc \in {"abort", "abort_open"}
    /\ IF bsp.pc = "abort"
       THEN slot' = [slot EXCEPT ![309] = 0] /\ Goto("abort_open") /\ UNCHANGED results
       ELSE slot' = [slot EXCEPT ![312] = 1] /\ Return(0)
    /\ UNCHANGED <<lockVars, ap, pending, session, batches>>

(* Opening the barrier; the BSP's own batch starts with a fresh counter.   *)
Open ==
    /\ bsp.pc = "open"
    /\ slot' = [slot EXCEPT ![312] = 1]
    /\ Goto("work")
    /\ work' = [work EXCEPT ![BSP] = 0]
    /\ at' = [at EXCEPT ![BSP] = IF bsp.test = Contention THEN "try" ELSE "out"]
    /\ UNCHANGED <<word, reg, shared, ap, pending, session, results, batches>>

(* state_increment_atomic(308), one iteration of the atomic batch. *)
AtomicIncrement(c) ==
    /\ slot' = [slot EXCEPT ![308] = @ + 1]
    /\ work' = [work EXCEPT ![c] = @ + 1]
    /\ UNCHANGED <<word, at, reg, shared, pending, session, results, batches>>

BspWork ==
    /\ bsp.pc = "work"
    /\ \/ bsp.test = Atomic /\ work[BSP] < BATCH
          /\ AtomicIncrement(BSP) /\ UNCHANGED <<bsp, ap>>
       \/ bsp.test = Contention /\ LockStep(BSP) /\ UNCHANGED testVars
       \/ work[BSP] = BATCH /\ at[BSP] = "out" /\ Goto("await_done")
          /\ UNCHANGED <<lockVars, slot, ap, pending, session, results, batches>>

AwaitDone ==
    /\ bsp.pc = "await_done"
    /\ slot[310] >= Expected \/ session.timeouts
    /\ Goto("disarm")
    /\ UNCHANGED <<lockVars, slot, ap, pending, session, results, batches>>

(* Mutant: a test that ends also initialises the lock again. *)
DisarmAndInit ==
    /\ bsp.pc = "disarm"
    /\ slot' = [slot EXCEPT ![309] = 0]
    /\ word' = 0
    /\ Goto("check_done")
    /\ UNCHANGED <<at, reg, shared, work, ap, pending, session, results, batches>>

Disarm ==
    /\ bsp.pc = "disarm"
    /\ slot' = [slot EXCEPT ![309] = 0]
    /\ Goto("check_done")
    /\ UNCHANGED <<lockVars, ap, pending, session, results, batches>>

(* Mutant: the number of completions is not looked at again. *)
CheckTotalOnly ==
    /\ bsp.pc \in {"check_done", "check_total"}
    /\ LET total == IF bsp.test = Atomic THEN slot[308] ELSE shared
       IN IF bsp.pc = "check_done" THEN Goto("check_total") /\ UNCHANGED results
          ELSE Return(IF total >= BATCH THEN 1 ELSE 0)
    /\ UNCHANGED <<lockVars, slot, ap, pending, session, batches>>

(* The verdict: completions, then the total. *)
CheckResult ==
    /\ bsp.pc \in {"check_done", "check_total"}
    /\ LET total == IF bsp.test = Atomic THEN slot[308] ELSE shared
           good == IF bsp.pc = "check_done" THEN slot[310] = Expected
                   ELSE total = Cardinality(CPU) * BATCH
       IN CASE ~good -> Return(0)
            [] good /\ bsp.pc = "check_done" -> Goto("check_total") /\ UNCHANGED results
            [] good /\ bsp.pc = "check_total" /\ bsp.test = Atomic -> Return(1)
            [] OTHER -> Goto("check_lock") /\ UNCHANGED results
    /\ UNCHANGED <<lockVars, slot, ap, pending, session, batches>>

(* The contention test ends with a release that must find the lock free.   *)
CheckLock ==
    /\ bsp.pc = "check_lock"
    /\ word' = 0
    /\ Return(IF word = 0 THEN 1 ELSE 0)
    /\ UNCHANGED <<at, reg, shared, work, slot, ap, pending, session, batches>>

BspStep ==
    \/ TypeCommand \/ SelfTest \/ InitLock \/ Arm \/ Send \/ SendFails \/ AwaitReady
    \/ CheckReady \/ Abort \/ Open \/ BspWork \/ AwaitDone \/ Disarm \/ CheckResult \/ CheckLock
-----------------------------------------------------------------------------
(* An application processor: smp_handle_ipi                                *)

ApGoto(p, pc, test) == ap' = [ap EXCEPT ![p] = [pc |-> pc, test |-> test]]

(* Vector 240 reaches a halted AP.  Until the handler has returned         *)
(* interrupts are off, and at most one more is kept pending.               *)
TakeIpi(p) ==
    /\ ap[p].pc = "hlt" /\ p \in pending
    /\ pending' = pending \ {p}
    /\ ApGoto(p, "armed", Contention)
    /\ UNCHANGED <<lockVars, slot, bsp, session, results, batches>>

(* Slot 309 is compared with 2 and, after that branch, with 1. *)
ReadArmed(p) ==
    /\ ap[p].pc = "armed"
    /\ LET t == ap[p].test
       IN CASE slot[309] = t -> ApGoto(p, "ready", t)
            [] slot[309] # t /\ t = Contention -> ApGoto(p, "armed", Atomic)
            [] OTHER -> ApGoto(p, "count", 0)
    /\ UNCHANGED <<lockVars, slot, bsp, pending, session, results, batches>>

ReportReady(p) ==
    /\ ap[p].pc = "ready"
    /\ slot' = [slot EXCEPT ![311] = @ + 1]
    /\ ApGoto(p, "wait", ap[p].test)
    /\ UNCHANGED <<lockVars, bsp, pending, session, results, batches>>

(* Mutant: the AP does not wait for the barrier. *)
WaitNot(p) ==
    /\ ap[p].pc = "wait"
    /\ ApGoto(p, "work", ap[p].test)
    /\ batches' = [batches EXCEPT ![p] = @ + 1]
    /\ work' = [work EXCEPT ![p] = 0]
    /\ at' = [at EXCEPT ![p] = IF ap[p].test = Contention THEN "try" ELSE "out"]
    /\ UNCHANGED <<word, reg, shared, slot, bsp, pending, session, results>>

(* The bounded wait for slot 312, ... *)
Wait(p) ==
    /\ ap[p].pc = "wait"
    /\ slot[312] # 0 \/ session.timeouts
    /\ ApGoto(p, "go", ap[p].test)
    /\ UNCHANGED <<lockVars, slot, bsp, pending, session, results, batches>>

(* ... which is read again after the wait. *)
ReadGo(p) ==
    /\ ap[p].pc = "go"
    /\ IF slot[312] = 1
       THEN /\ ApGoto(p, "work", ap[p].test)
            /\ batches' = [batches EXCEPT ![p] = @ + 1]
            /\ work' = [work EXCEPT ![p] = 0]
            /\ at' = [at EXCEPT ![p] = IF ap[p].test = Contention THEN "try" ELSE "out"]
       ELSE ApGoto(p, "done", ap[p].test) /\ UNCHANGED <<batches, work, at>>
    /\ UNCHANGED <<word, reg, shared, slot, bsp, pending, session, results>>

ApWork(p) ==
    /\ ap[p].pc = "work"
    /\ \/ ap[p].test = Atomic /\ work[p] < BATCH
          /\ AtomicIncrement(p) /\ UNCHANGED <<bsp, ap>>
       \/ ap[p].test = Contention /\ LockStep(p) /\ UNCHANGED testVars
       \/ work[p] = BATCH /\ at[p] = "out" /\ ApGoto(p, "done", ap[p].test)
          /\ UNCHANGED <<lockVars, slot, bsp, pending, session, results, batches>>

(* After the contention branch slot 309 is read once more. *)
ReportDone(p) ==
    /\ ap[p].pc = "done"
    /\ slot' = [slot EXCEPT ![310] = @ + 1]
    /\ IF ap[p].test = Contention THEN ApGoto(p, "armed", Atomic) ELSE ApGoto(p, "count", 0)
    /\ UNCHANGED <<lockVars, bsp, pending, session, results, batches>>

(* The AP's own interrupt count, the end-of-interrupt and the return. *)
EndIpi(p) ==
    /\ ap[p].pc = "count"
    /\ ApGoto(p, "hlt", 0)
    /\ UNCHANGED <<lockVars, slot, bsp, pending, session, results, batches>>

ApStep(p) ==
    \/ TakeIpi(p) \/ ReadArmed(p) \/ ReportReady(p) \/ Wait(p) \/ ReadGo(p)
    \/ ApWork(p) \/ ReportDone(p) \/ EndIpi(p)

TestsNext == BspStep \/ \E p \in AP : ApStep(p)

TestsSpec == TestsInit /\ [][TestsNext]_allVars

(* Every processor keeps executing; commands need not be typed. *)
FairTestsSpec ==
    /\ TestsSpec
    /\ WF_allVars(BspStep /\ bsp.pc # "shell")
    /\ \A p \in AP : WF_allVars(ApStep(p))
-----------------------------------------------------------------------------
(* Stated of Ordered sessions.  When no wait runs out every test reports   *)
(* success: a handler that is still finishing, a slot or a lock left over  *)
(* by the tests before it does not make the next one fail.  An atomictest  *)
(* after a synctest is left out because there it can (see FixedBatch).     *)
HealthyTestsPass == ~session.timeouts => \A i \in DOMAIN results : results[i].value = 1

(* A test returns 1 only if each AP began exactly one batch for it and has *)
(* finished that batch, in a row of tests and, with waits that run out, in *)
(* a single one (Ordered sessions).                                        *)
PassIsEarned ==
    [][Len(results') > Len(results) /\ results'[Len(results')].value = 1 =>
          \A p \in AP : batches[p] = 1 /\ ap[p].pc # "work"]_allVars

(* "Wait until every AP is parked at the barrier, then release all         *)
(* participants": no AP starts its batch before all have reported.  A test *)
(* that was given up is exempt (its parked APs are let into their batch),  *)
(* and the sessions are the Ordered ones.                                  *)
Rendezvous ==
    [][\A p \in AP : batches'[p] > batches[p] =>
          slot[309] = 0 \/ slot[311] = Expected]_allVars

(* Every test comes to an end, with all handlers returned, whether or not  *)
(* waits run out: nobody stays in spinlock_acquire, and a parked AP leaves *)
(* at the latest when its own bounded wait runs out.                       *)
TestsEnd == []<>(bsp.pc = "shell" /\ \A p \in AP : ap[p].pc = "hlt")

(* The stretches in which no processor can be using the lock as Spinlock   *)
(* describes: an atomictest, and a synctest until it is armed.             *)
Preparing == bsp.test = Atomic \/ bsp.pc \in DOMAIN SelfNext \cup {"init", "setup"}

(* A processor that has not begun the batch of this test. *)
Idle(c) == IF c = BSP THEN bsp.pc \in {"send", "await", "check_ready", "open"} ELSE batches[c] = 0

(* A synctest is a Restart of Spinlock and an execution of its batches;    *)
(* what is proved of Spinlock holds of the kernel's test.                  *)
Lock == INSTANCE Spinlock WITH
    word <- IF Preparing THEN 0 ELSE word,
    shared <- IF Preparing THEN 0 ELSE shared,
    work <- [c \in CPU |-> IF Preparing \/ Idle(c) THEN 0 ELSE work[c]]

(* The processors' use of the lock from test to test follows the           *)
(* specification of spinlock_init, spinlock_acquire and spinlock_release,  *)
(* waits that run out included.                                            *)
ImplementsSpinlock == Lock!LockSpec

(* "During atomictest, each AP performs a fixed batch": not more than one  *)
(* batch for each time a test is armed.                                    *)
FixedBatch == \A p \in AP : batches[p] <= 1
=============================================================================
