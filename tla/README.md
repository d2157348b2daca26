# VNT: TLA+ models, checks and proofs

This directory specifies parts of the VNT repository in TLA+: the asynchronous
HTTP pool of the native runtime, the VBuild build driver and the VNTOS kernel's
memory and multiprocessor code. Each module is a translation of source code;
`PROJECT.json` maps every definition to the lines it stands for.

## The system

VNT is a small systems language. The repository holds

| part | where | what it does |
|---|---|---|
| compiler front end | `src/lexer.c`, `src/parser/`, `src/ast.c`, `src/modules.c` | text to syntax tree, module loading |
| compiler middle and back end | `src/compiler/{typecheck,ir,ir_lower,cfg,compiler,native_backend,x86_backend,freestanding_x86}.c` | checking, HIR, control-flow graph, x86-64 code |
| native runtime | `src/compiler/native_runtime.c` | values, files, processes, the entry points of compiled programs |
| HTTP client | `src/compiler/native_net.c` | blocking requests, one kept connection, chunk decoding, streaming |
| asynchronous requests | `src/compiler/native_async_net.c` | worker threads, request handles, cancellation, stream rings |
| VBuild | `tools/vbuild.c` | project lock, task graph, incremental builds, tests |
| VNTOS | `os/` | boot, page-frame allocator, paging, ACPI, APIC, SMP start-up, locks, console, shell |
| standard library, interpreter | `lib/`, `vnx/`, `examples/` | VNT code on top of the above |

Concurrency exists in three places: the worker threads of the asynchronous HTTP
pool against the (single-threaded) VNT program, the processors and interrupt
handlers of VNTOS, and the build processes of VBuild that share a project
directory with the compilers they start and with a developer. Long histories
matter in the allocator, the page tables, the build cache and the handle table.

The parts interact as follows. `AsyncNet` contains the part of the HTTP client a
worker runs. The paging code allocates its tables from the page allocator and
the shell's self-tests use both (`VirtMem` extends `PhysMem`). SMP start-up
takes its stacks from the same allocator (an action of `VirtMem`; in `SmpBoot`
the allocator is a counter of pages). The self-tests of the processors use the
spinlock (`SmpTests` extends `Spinlock` and is shown to implement it). A VBuild
invocation decides about the lock in its task graph (`BuildTasks`) and runs the
incremental build under it (`BuildCache`).

## Modules

| module | models | abstract specification |
|---|---|---|
| `AsyncNet` | the asynchronous HTTP pool with the sockets of its requests | `AsyncRequests` |
| `PhysMem` | the page-frame allocator of VNTOS | |
| `PhysSearch` | the allocator's two search loops, one iteration per step | `PhysMem` |
| `VirtMem` | paging and the shell's memory tests, on top of `PhysMem` | |
| `Spinlock` | the spinlock under the workload of the contention test | |
| `SmpTests` | atomictest, synctest and the interrupt handler of the other processors | `Spinlock` |
| `SmpBoot` | start-up of the application processors | |
| `BuildCache` | VBuild's incremental build | |
| `BuildTasks` | VBuild's task graph | |

`MC_*.tla` instantiate a module for TLC; `*_proofs.tla` hold theorems checked
by TLAPS. Definitions whose comment begins with "Mutant:" are wrong variants of
the definition they precede. No specification uses them: each documents a
plausible slip in the code, and substituting it makes TLC report the property
`PROJECT.json` pairs it with.

### AsyncNet

One action per critical section of `async_lock`; the steps between two critical
sections (opening, using and closing a socket) are actions of their own. A wait
on the condition variable is the guard of the action after it: every change
that can make a waiter's condition true is broadcast.

| state | code |
|---|---|
| `tasks` | `tasks[]`; the response is reduced to `ok`, whether there is one |
| `queue` | the ring `queue[]` as the sequence of its entries |
| `next_handle` | the same; it goes back to 1 above `MAX_HANDLE` (`INT_MAX`). The signed overflow of `next_handle++` has two outcomes in practice, a negative number or a compiler that drops the `<= 0` test; in both the next handle used is positive and the one modelled is the first |
| `started` | the threads created so far (`worker_count`) |
| `worker` | program counter of each thread, its task, descriptor and progress |
| `sockets` | owner of each descriptor and whether it was shut down |
| `client` | the call the program is blocked in |
| `received` | history: what `stream_read` returned |

Queries (`poll`, `status`, `result`, `stream_done`) change nothing and are left
out; so are the failures of `malloc` before the lock is taken. `recv` retries
timeouts for ever, hence a silent server never ends an exchange: no action
models a timeout. The Windows branches are not modelled.

`AsyncRequests` is what a program may rely on: a request is pending, then done
or cancelled, once; a successful stream is complete; a released handle is gone.

### PhysMem

The functions of `phys.vnt` are operators from allocator state to allocator
state, and each disjunct of `Next` applies one. Bitmaps are sets of frames. The
memory map (any set of regions, with any overlap), the end of the kernel image
and the boot information block are chosen in `Init`. Reading the Multiboot2 tags
is not modelled. Base and length of a region are i64 in the code; it is assumed
that they are below 2^63, where the signed comparisons are those of the naturals.

`phys_alloc_page` and `phys_alloc_contiguous_pages` appear here by their result
(`NextFit`: the first candidate from the cursor on, else the first of all).

### PhysSearch

The same allocator with the two searches as the code has them: a loop from the
cursor to the end of memory, then one from 1 MiB up to where the first began,
each iteration a step. `scan` holds the loop's variables. `SearchExact` compares
the result with the operators of `PhysMem`, and exhaustion with the bitmaps. No
other call comes between two iterations: the allocator is single-CPU code.

### VirtMem

Extends `PhysMem` with the page directory and the contents of page-table
frames. A store goes to the frame its virtual page is mapped to, so a table can
be destroyed through a stray mapping. The actions are the kernel's own uses:
`smp_start_aps` takes a reserved stack per processor, then the shell runs
`memtest` and `vmtest` in any order. It is assumed (`TargetOutOfReach`) that the
few frames the kernel takes from 1 MiB up do not reach 256 MiB. Only the flag
value 3 is used by the kernel, so flags are left out.

### Spinlock

Each processor adds 1 to a shared word `BATCH` times, with an ordinary load and
an ordinary store between `spinlock_acquire` and `spinlock_release`. The
exchange is one step (`XCHG` locks the bus), the load and the store are two; the
read-only spin of `spinlock_acquire` is a wait for the word to be 0. `Restart`
is `spinlock_init` before the next round, when no processor uses the lock.

### SmpTests

| state | code |
|---|---|
| `slot` | state slots 308 to 312: atomic counter, armed test, completions, ready count, barrier |
| `word`, `shared` | the test lock and slot 313 |
| `bsp`, `ap` | where each processor is, and the test it takes itself to be in |
| `pending` | vector 240 waiting in a local APIC: at most one |
| `session` | the commands still to be typed, and whether bounded waits may run out |
| `results`, `batches` | histories |

Every slot access is a step of its own. The loops that wait with a bound are
guards; with `timeouts` they may end early at any moment, as may
`apic_send_icr`, before or after it has written the command register.

`ImplementsSpinlock` maps a session to `Spinlock`: an atomictest, and a synctest
until it is armed, is the restarted lock; a processor that has not begun the
batch of the armed test counts zero increments. What is proved of `Spinlock`
therefore holds of the kernel's contention test.

The properties are stated of `Ordered` sessions: no atomictest follows a
synctest, because the handlers of the latter still look at slot 309 (see the
finding `smp_batch`, which is about that row), and waits run out only in a
session of a single test. `Rendezvous` exempts a test that was given up; that
its parked processors come back is `TestsEnd`, by their own bounded wait.

### SmpBoot

`smp_init`, `smp_start_aps`, the trampoline, `smp_ap_entry` and `smp_test_ipis`.
The trampoline has one stack slot for all processors; an AP reads it whenever it
gets there, or never. The INIT and start-up interrupts are modelled by what they
do to a processor: INIT resets it, a start-up interrupt is heard by one that has
finished its reset.

### BuildCache

VBuild processes share the project directory with the compilers they start,
which may outlive them, and with a developer. The tracked inputs are one file.

| state | code |
|---|---|
| `src` | the inputs: content and modification time in whole seconds |
| `artifact`, `manifest`, `temp` | the output, `.vbuild-inputs` and the per-process temporary output |
| `lock` | the holder of `.vbuild.lock`; a killed process loses it |
| `pc`, `cmd`, `current`, `fp` | per process: place in `main`, command, result of the time test, fingerprint |
| `mode` | what may happen around VBuild: `faults`, `coarse` edits, edits while `busy` |

A fingerprint is the content it is taken of: collisions of the 64-bit hash are
left out. The time test looks only at the root source, its imports and the
runtime sources or linker script; an edit of any other input (properties, task
file, compiler, implementation modules) is a `coarse` one, which keeps the
modification time. `init` and the test runner are not modelled.

The temporary output is named after the process number of VBuild
(`vbuild.c:1139`). It is assumed that no later VBuild gets the number of a killed
one, from the same or another pid namespace, while the compiler of the killed one
is still writing: `Kill` retires the process. Otherwise two compilers would share
a temporary file, and `ArtifactWhole` and `BuiltIsFresh` would not hold.

### BuildTasks

`validate_task_graph`, `task_graph_requires_lock` and `execute_task` are the
same depth-first search with an explicit stack; `phase` says which is running.
The graph, the set of mutating tasks and the target are chosen in `Init`.

## Runs

| run | bounds | shows |
|---|---|---|
| `async_pool` | 2 workers, 2 slots, 3 handles, 2 descriptors, 1 redirect, no streams | slots, queue, handles and sockets stay consistent under every interleaving; no cancellation is lost |
| `async_stream` | 1 worker, 2 slots, ring of 2, body of 3, no redirect | streams are in order; a blocked `wait` or `stream_read` keeps its task; refinement of `AsyncRequests`; a cancelled request frees its worker and slot |
| `async_deadlock` | 1 worker, 2 slots, streams only | violation: two streams, one worker, and the program reads the second |
| `phys` | 8 frames, 6 allocatable, 40 memory maps | counters, bitmaps, reservations, what the searches find, the self-test |
| `virt` | 10 frames, 5 directory entries, 2 stacks | page tables stay reserved, nothing else is remapped, no frame is lost |
| `virt_restore` | same | violation: the second `vmtest` |
| `smp_tests` | 3 processors, batches of 2; rows of two and three tests without timeouts and without an atomictest after a synctest, single tests with timeouts | healthy tests pass, a pass is earned, the barrier holds, tests end; refinement of `Spinlock` |
| `smp_batch` | 2 processors, synctest then atomictest | violation: an AP runs two batches of one atomictest |
| `smp_boot` | 1 to 4 processors in the table, room for 3, 1 or 2 pages | private stacks, exact online count, honest result, the shell is reached |
| `build` | 2 processes, 2 contents, 3 seconds; faults or coarse edits | the artifact is whole, fresh and kept by failures; the manifest is truthful |
| `build_manifest` | 1 process, 2 contents, 2 seconds; faults and coarse edits together | violation: a stale artifact is called up to date |
| `build_tasks` | every graph of 3 tasks, every target and set of mutating tasks | cycles refused, lock when needed, dependencies first, termination |

Why the bounds are enough to meet the interesting cases: the lock makes every
conflict between workers pairwise; handles wrap with one more handle than
slots; a body longer than the ring wraps it; two-byte frames distinguish a
partial frame from a whole one, and six frames allow runs of one, two and more
with a gap; two APs can be in different phases of a handler while the BSP is in
a third, and two increments make a processor meet the lock again after its own
release; two processes and two contents allow an edit to be undone and a second
process to find what the first left; three tasks have shared dependencies,
cycles of every length up to three and cycles the target does not reach.

Fairness. `AsyncNet!FairSpec` asks that worker threads keep running, which the
thread scheduler provides, and that input on a socket that was shut down ends,
as Linux does; nothing is assumed of servers or of the program. `AnsweringSpec`
adds that servers answer and that a program whose call can return goes on: under
it a read may be expected to return, and the violation shows it need not.
`FairTestsSpec` asks that every processor keeps executing while a test runs;
the lock is unfair, but batches are finite. `SmpBoot!FairSpec` is about the BSP
alone. `BuildTasks!FairSpec` is about one sequential process. Deadlock is not
checked where the program may block itself (`async_*`) or the system comes to
rest (`smp_*`).

## Proofs

`PhysMem_proofs` proves the allocator's properties for every frame size, number
of frames, memory map and sequence of calls, from `PhysAssumption` (positive
sizes; natural numbers in the memory map; the kernel image ends above 1 MiB).
The invariant `Sound(b, m)` is stated about a state rather than about the
variables, so that `phys_self_test`, eight calls in one step, is handled by
applying the lemma of each call in turn. It needs all its conjuncts: the free
counter is exact only because a freed frame is usable and allocated, reserved
frames are safe only because they are allocated, and the free of the kernel's
first frame inside the self-test is refused only because that frame is
reserved. `MinInSet` derives the existence of the minimum the searches pick
from the well-foundedness of the naturals.

The loops of `PhysSearch` have the invariant `ScanInv`: no candidate lies between
where the first loop began and the frame it has reached, and in the second loop
all candidates lie below that beginning and none below the frame reached. Hence
the frame a loop stops at is the next fit, and nothing is left when the second
loop ends (`SearchMissesNothing`). `Sound` also says that the cursor lies in the
window unless nothing is usable; with it every iteration but the last is a
stutter of `PhysMem` and the last one an allocation (`SearchImplementsCalls`), so
all that is proved of the calls holds of the loops.

`Spinlock_proofs` proves, for every finite set of processors and every batch
size (`SpinlockAssumption`), mutual exclusion, that the word is 1 exactly while
a processor owns the lock, that no increment is lost and that the total is
exact. Exclusion alone is not inductive: a successful exchange is safe only
because the word says whether there is an owner, and a store is right only
because the value loaded is still the current one. `LockInv` adds both. The
counting argument identifies the increments made with the set `Stored` of pairs
of a processor and a number, which a store extends by one element.

`BuildCache_proofs` has two layers. `Inv` (types, lock, temporary files, whole
artifact) holds in every mode, for any number of processes and contents:
builders exclude each other, the artifact is never an unfinished output, and
failing or orphaned compilers touch neither artifact nor manifest. `FreshInv`
holds when inputs are edited only between builds and each mode has at most one
of `faults` and `coarse` (`Quiet`). It says by which evidence the artifact is
known to be current: by the modification times if edits advance them
(`TimesTell`), by the manifest if no build stops between the two replacements
(`ManifestTells`). From it follow that builds are fresh, that "Up to date" is
said only of a current artifact, and that the manifest is truthful. The run
`build_manifest` shows that `Quiet` cannot be dropped.

Only model-checked: `MemtestVerdict`, everything about `VirtMem`, `AsyncNet`,
`SmpTests`, `SmpBoot` and `BuildTasks`, the refinements of `AsyncRequests` and `Spinlock`, and all liveness
(TLAPS does not handle fairness and `ENABLED`).

## Findings

* `async_deadlock`: `stream_read` can block for ever (documented as "blocks for
  data or EOF"): every worker waits for room in a stream that the program is
  not reading, because it waits for a stream no worker has taken.
* `virt_restore`: `vmtest` restores the mapping only the first time. The second
  run takes the existing page table for a failure and leaves 256 MiB mapped to
  a frame it has just freed.
* `smp_batch`: `smp_handle_ipi` reads slot 309 again after the contention
  branch. An AP that is still there when an atomictest is armed runs its batch
  twice, and the test fails on healthy processors; with two APs the second
  batch can also stand for the one another AP has not done, and the test passes.
* `build_manifest`: artifact and manifest are replaced one after the other.
  When VBuild stops in between and the edit is undone without a newer
  modification time, the next build says "Up to date" of an artifact of other
  contents.

Met while modelling, without a run of their own: a synctest after one whose wait
ran out initialises the lock while an AP may own it (`smp.vnt:331`); an edit
during a build that is undone before the next one goes unnoticed (mode `busy` of
`BuildCache`); the comment at `smp.vnt:5` says APs halt with interrupts disabled,
but `smp_ap_entry` enables them.

## Not modelled

| part | why |
|---|---|
| module loader, the HTTP client's kept connection and chunk decoder, runtime files and processes | planned, see below |
| ACPI tables, interrupt controllers, keyboard and line editor | planned |
| lexer, parser, type checker, HIR, lowering, control-flow graph | sequential algorithms, planned as operators against reference definitions |
| code generators, driver | emission of text whose meaning is the assembler's and the processor's |
| boot code | mode switches and descriptor tables |
| console, serial line | device output |
| VBuild `init` and test runner | file operations by the holder of the lock; planned |
| standard library, VNX | sequential VNT code; functions with edge cases planned as operators |

## Plan

Done, in this order: the asynchronous pool, the allocator and paging, the
spinlock and the processors, VBuild; proofs of the allocator, the lock and the
build cache.

Next, by what is hardest to test:

1. `HttpClient`: the one connection that requests outside the pool keep and
   reuse (workers have it disabled, and a request on a closed one simply fails),
   redirects; the chunk decoder as a state machine against a reference decoder
   for every split of its input.
2. `ModuleLoader`: depth-first loading with `active` and `seen`, checked for
   cycles, diamonds, the depth limit and the order of definitions; a proof that
   no module is loaded twice.
3. `Files` and `Processes` of the runtime: atomic replacement with crashes;
   child, parent and pipes.
4. `Acpi` and `Keyboard`: discovery with malformed and overlong tables (which
   `SmpBoot` then takes its processor table from), scancode decoding and the
   line editor.
5. Compiler algorithms as operators: precedence climbing, constant folding and
   the control-flow verifier against an evaluator.
6. Proofs: `SocketsOwned` and `SlotStable` of `AsyncNet`, `OnlineExact` and
   `StacksPrivate` of `SmpBoot`, `TablesReserved` of `VirtMem`, the steps of the
   refinement of `Spinlock` by `SmpTests`.

An abstract specification is planned for the file replacement (old or new
content, never a mix).
