------------------------------ MODULE AsyncNet ------------------------------
(***************************************************************************)
(* The pool of asynchronous HTTP requests of the native runtime            *)
(* (src/compiler/native_async_net.c) and the part of the HTTP client that  *)
(* its workers run (src/compiler/native_net.c: the socket a request        *)
(* registers, exchanges data on, unregisters and closes).                  *)
(*                                                                         *)
(* Every critical section of async_lock is one action.  A wait on the one  *)
(* condition variable is the guard of the action that follows it: every    *)
(* state change is broadcast, so a waiter re-evaluates its condition.      *)
(* The VNT program is single-threaded: it is the one caller of the API,    *)
(* and is blocked while it is inside wait() or stream_read().              *)
(***************************************************************************)
EXTENDS Naturals, Sequences, FiniteSets, FiniteSetsExt

CONSTANTS
  Workers,          \* VNT_NET_ASYNC_WORKERS threads
  CAPACITY,         \* VNT_NET_ASYNC_CAPACITY
  STREAM_CAPACITY,  \* VNT_NET_STREAM_CAPACITY
  MAX_HANDLE,       \* INT_MAX: next_handle restarts at 1 above it
  Modes,            \* 0: buffered request, 1: caller-consumed stream
  Body,             \* bytes of a streamed response body
  Fds,              \* socket descriptors of the process
  MaxHops,          \* failed addresses and redirects of one request
  None

ASSUME AsyncAssumption ==
  /\ CAPACITY \in Nat \ {0} /\ STREAM_CAPACITY \in Nat \ {0}
  /\ MAX_HANDLE \in Nat /\ MAX_HANDLE > CAPACITY
  /\ Modes \subseteq {0, 1} /\ Body \in Nat /\ MaxHops \in Nat
  /\ Fds \subseteq Nat \ {0}
  /\ IsFiniteSet(Workers) /\ IsFiniteSet(Fds) /\ None \notin Workers

Slots == 0 .. CAPACITY - 1
Handles == 1 .. MAX_HANDLE
Ring == 0 .. STREAM_CAPACITY - 1

VARIABLES
  tasks,         \* the task table, one record per slot
  queue,         \* slots waiting for a worker (the ring queue[] in FIFO order)
  next_handle,
  started,       \* the workers that were created (worker_count of them)
  worker,        \* what each worker thread is doing
  sockets,       \* the process's socket descriptors
  client,        \* the call the program is blocked in, if any
  received       \* history: the stream bytes the program has read, per slot

vars == <<tasks, queue, next_handle, started, worker, sockets, client, received>>

FreeTask ==
  [state |-> "FREE", id |-> 0, mode |-> 0, ok |-> FALSE, active_transport |-> 0,
   worker_finished |-> FALSE, release_requested |-> FALSE,
   stream_buffer |-> [i \in Ring |-> 0], stream_head |-> 0, stream_count |-> 0]

IdleWorker ==
  [pc |-> "idle", slot |-> 0, id |-> 0, fd |-> 0, sent |-> 0, pending |-> 0,
   outcome |-> "fail", hops |-> 0]

Closed == [owner |-> None, shut |-> FALSE]
Ready == [pc |-> "ready", slot |-> 0, id |-> 0]

Init ==
  /\ tasks = [s \in Slots |-> FreeTask]
  /\ queue = <<>>
  /\ next_handle = 1
  /\ started = {}
  /\ worker = [w \in Workers |-> IdleWorker]
  /\ sockets = [f \in Fds |-> Closed]
  /\ client = Ready
  /\ received = [s \in Slots |-> <<>>]

-----------------------------------------------------------------------------
(* Lookup and slot reuse.                                                  *)

Live(s) == tasks[s].state # "FREE"
Unfinished(s) == tasks[s].state \in {"QUEUED", "RUNNING"}

\* async_find_locked: the slots that answer to a handle (at most one does).
Find(id) == {s \in Slots : Live(s) /\ tasks[s].id = id}

\* The handle i steps after h, going back to 1 above MAX_HANDLE.
HandleAfter(h, i) == ((h - 1 + i) % MAX_HANDLE) + 1

\* Mutant: the first candidate is taken without looking for a duplicate.
SkippedUnchecked == 0

\* The candidate loop: how many handles in use it skips from next_handle.
Skipped ==
  Min({i \in 0 .. CAPACITY : Find(HandleAfter(next_handle, i)) = {}})

\* async_task_clear: the slot is zeroed (history follows the slot).
Clear(s) ==
  /\ tasks' = [tasks EXCEPT ![s] = FreeTask]
  /\ received' = [received EXCEPT ![s] = <<>>]

-----------------------------------------------------------------------------
(* The program's calls.                                                    *)

\* async_ensure_workers_locked: each missing thread is created in turn, and
\* the first failure leaves the ones created so far running.
EnsureWorkers == \E more \in SUBSET (Workers \ started) : started' = started \cup more

StartRejected ==
  /\ client.pc = "ready"
  /\ EnsureWorkers
  /\ \/ started' # Workers
     \/ Len(queue) = CAPACITY
     \/ \A s \in Slots : Live(s)
  /\ UNCHANGED <<tasks, queue, next_handle, worker, sockets, client, received>>

Start(mode) ==
  LET slot == Min({s \in Slots : ~Live(s)})
      handle == HandleAfter(next_handle, Skipped)
  IN
  /\ client.pc = "ready"
  /\ EnsureWorkers
  /\ started' = Workers
  /\ Len(queue) < CAPACITY
  /\ \E s \in Slots : ~Live(s)
  /\ tasks' = [tasks EXCEPT ![slot] =
                 [FreeTask EXCEPT !.state = "QUEUED", !.id = handle, !.mode = mode]]
  /\ queue' = Append(queue, slot)
  /\ next_handle' = HandleAfter(handle, 1)
  /\ UNCHANGED <<worker, sockets, client, received>>

\* A queued request is only marked: its queue entry reclaims it.  A running
\* one is interrupted by a shutdown() of the socket it has registered.
Cancel(id) ==
  /\ client.pc = "ready"
  /\ \E s \in Find(id) :
       /\ Unfinished(s)
       /\ tasks' = [tasks EXCEPT ![s].state = "CANCELLED"]
       /\ sockets' = IF tasks[s].state = "RUNNING" /\ tasks[s].active_transport # 0
                     THEN [sockets EXCEPT ![tasks[s].active_transport].shut = TRUE]
                     ELSE sockets
  /\ UNCHANGED <<queue, next_handle, started, worker, client, received>>

\* Mutant: a cancelled slot is cleared at once, finished or not.
ReleaseAtOnce(id) ==
  /\ client.pc = "ready"
  /\ \E s \in Find(id) :
       /\ tasks[s].state \in {"DONE", "CANCELLED"}
       /\ Clear(s)
  /\ UNCHANGED <<queue, next_handle, started, worker, sockets, client>>

Release(id) ==
  /\ client.pc = "ready"
  /\ \E s \in Find(id) :
       \/ /\ tasks[s].state = "DONE"
          /\ tasks[s].mode # 1 \/ tasks[s].stream_count = 0
          /\ Clear(s)
       \/ /\ tasks[s].state = "CANCELLED" /\ tasks[s].worker_finished
          /\ Clear(s)
       \/ /\ tasks[s].state = "CANCELLED" /\ ~tasks[s].worker_finished
          /\ tasks' = [tasks EXCEPT ![s].release_requested = TRUE]
          /\ UNCHANGED received
  /\ UNCHANGED <<queue, next_handle, started, worker, sockets, client>>

\* wait() with a timeout: the call keeps its task pointer across the wait.
WaitBlocks(id) ==
  /\ client.pc = "ready"
  /\ \E s \in Find(id) :
       /\ Unfinished(s)
       /\ client' = [pc |-> "wait", slot |-> s, id |-> id]
  /\ UNCHANGED <<tasks, queue, next_handle, started, worker, sockets, received>>

\* The request ended, or the timeout expired.
WaitReturns ==
  /\ client.pc = "wait"
  /\ client' = Ready
  /\ UNCHANGED <<tasks, queue, next_handle, started, worker, sockets, received>>

\* The next n bytes of the ring, oldest first.
Oldest(t, n) ==
  [i \in 1 .. n |-> t.stream_buffer[(t.stream_head + i - 1) % STREAM_CAPACITY]]

Drain(s, maximum) ==
  LET t == tasks[s]
      amount == IF t.stream_count < maximum THEN t.stream_count ELSE maximum
  IN
  /\ received' = [received EXCEPT ![s] = @ \o Oldest(t, amount)]
  /\ tasks' = [tasks EXCEPT
       ![s].stream_head = (t.stream_head + amount) % STREAM_CAPACITY,
       ![s].stream_count = t.stream_count - amount]

MustWait(s) == tasks[s].stream_count = 0 /\ Unfinished(s)

StreamRead(id, maximum) ==
  /\ client.pc = "ready"
  /\ \E s \in Find(id) : tasks[s].mode = 1 /\ ~MustWait(s) /\ Drain(s, maximum)
  /\ UNCHANGED <<queue, next_handle, started, worker, sockets, client>>

StreamReadBlocks(id) ==
  /\ client.pc = "ready"
  /\ \E s \in Find(id) :
       /\ tasks[s].mode = 1 /\ MustWait(s)
       /\ client' = [pc |-> "read", slot |-> s, id |-> id]
  /\ UNCHANGED <<tasks, queue, next_handle, started, worker, sockets, received>>

StreamReadResumes(maximum) ==
  /\ client.pc = "read"
  /\ ~MustWait(client.slot)
  /\ Drain(client.slot, maximum)
  /\ client' = Ready
  /\ UNCHANGED <<queue, next_handle, started, worker, sockets>>

-----------------------------------------------------------------------------
(* The workers.                                                            *)

Goto(w, pc) == worker' = [worker EXCEPT ![w].pc = pc]
End(w, outcome) ==
  worker' = [worker EXCEPT ![w].pc = "unregister", ![w].outcome = outcome]

\* An entry that is neither cancelled nor queued is skipped.
PopTask(w) ==
  /\ w \in started /\ worker[w].pc = "idle"
  /\ queue # <<>>
  /\ queue' = Tail(queue)
  /\ LET s == Head(queue) IN
     IF tasks[s].state = "CANCELLED"
     THEN Clear(s) /\ UNCHANGED worker
     ELSE /\ tasks' = IF tasks[s].state = "QUEUED"
                      THEN [tasks EXCEPT ![s].state = "RUNNING"] ELSE tasks
          /\ worker' = IF tasks[s].state = "QUEUED"
                       THEN [worker EXCEPT ![w] = [IdleWorker EXCEPT
                               !.pc = "open", !.slot = s, !.id = tasks[s].id]]
                       ELSE worker
          /\ UNCHANGED received
  /\ UNCHANGED <<next_handle, started, sockets, client>>

\* socket() for the next address: the system hands out the lowest free number.
OpenSocket(w) ==
  LET free == {f \in Fds : sockets[f].owner = None} IN
  /\ worker[w].pc = "open"
  /\ free # {}
  /\ sockets' = [sockets EXCEPT ![Min(free)] = [owner |-> w, shut |-> FALSE]]
  /\ worker' = [worker EXCEPT ![w].pc = "register", ![w].fd = Min(free)]
  /\ UNCHANGED <<tasks, queue, next_handle, started, client, received>>

\* The name does not resolve, or no address is left: no socket was opened.
NoSocket(w) ==
  /\ worker[w].pc = "open"
  /\ worker' = [worker EXCEPT ![w].pc = "finish", ![w].outcome = "fail"]
  /\ UNCHANGED <<tasks, queue, next_handle, started, sockets, client, received>>

\* Mutant: a request cancelled before it had a socket is not interrupted.
SetTransportAnyway(w) ==
  /\ worker[w].pc = "register"
  /\ tasks' = [s \in Slots |-> IF s \in Find(worker[w].id)
                 THEN [tasks[s] EXCEPT !.active_transport = worker[w].fd] ELSE tasks[s]]
  /\ Goto(w, "io")
  /\ UNCHANGED <<queue, next_handle, started, sockets, client, received>>

SetTransport(w) ==
  LET found == Find(worker[w].id)
      fd == worker[w].fd
      running == {s \in found : tasks[s].state = "RUNNING"}
      cancelled == {s \in found : tasks[s].state = "CANCELLED"}
  IN
  /\ worker[w].pc = "register"
  /\ tasks' = [s \in Slots |-> IF s \in running
                 THEN [tasks[s] EXCEPT !.active_transport = fd] ELSE tasks[s]]
  /\ sockets' = IF cancelled # {} THEN [sockets EXCEPT ![fd].shut = TRUE] ELSE sockets
  /\ Goto(w, "io")
  /\ UNCHANGED <<queue, next_handle, started, client, received>>

\* connect() failed, or the response is a redirect: another socket follows.
TryAgain(w) ==
  /\ worker[w].pc = "io"
  /\ worker[w].sent = 0 /\ worker[w].hops < MaxHops
  /\ End(w, "again")
  /\ UNCHANGED <<tasks, queue, next_handle, started, sockets, client, received>>

\* Bytes of a streamed body arrive and are handed to the sink.
Receive(w, n) ==
  /\ worker[w].pc = "io"
  /\ tasks[worker[w].slot].mode = 1
  /\ worker[w].sent + n <= Body
  /\ worker[w].pending = 0
  /\ worker' = [worker EXCEPT ![w].pc = "push", ![w].pending = n]
  /\ UNCHANGED <<tasks, queue, next_handle, started, sockets, client, received>>

\* The response is complete.  Once the socket was shut down the end of input
\* it reports ends a body that the close of the connection delimits.
ResponseEnds(w) ==
  /\ worker[w].pc = "io"
  /\ \/ tasks[worker[w].slot].mode # 1
     \/ worker[w].sent = Body
     \/ sockets[worker[w].fd].shut
  /\ End(w, "ok")
  /\ UNCHANGED <<tasks, queue, next_handle, started, sockets, client, received>>

\* A protocol, TLS or socket error.
ResponseFails(w) ==
  /\ worker[w].pc = "io"
  /\ End(w, "fail")
  /\ UNCHANGED <<tasks, queue, next_handle, started, sockets, client, received>>

\* Mutant: the write position ignores the read position.
PushAtCount(w) ==
  LET s == worker[w].slot
      t == tasks[s]
  IN
  /\ worker[w].pc = "push"
  /\ t.state = "RUNNING" /\ t.stream_count < STREAM_CAPACITY
  /\ tasks' = [tasks EXCEPT ![s].stream_buffer[t.stream_count] = worker[w].sent + 1,
                            ![s].stream_count = @ + 1]
  /\ worker' = [worker EXCEPT
       ![w].sent = @ + 1, ![w].pending = @ - 1,
       ![w].pc = IF worker[w].pending = 1 THEN "io" ELSE "push"]
  /\ UNCHANGED <<queue, next_handle, started, sockets, client, received>>

\* async_stream_push_task: one turn of its loop.
Push(w) ==
  LET s == worker[w].slot
      t == tasks[s]
      room == STREAM_CAPACITY - t.stream_count
      amount == Min({worker[w].pending, room})
      tail == t.stream_head + t.stream_count
  IN
  /\ worker[w].pc = "push"
  /\ t.state = "RUNNING" /\ room > 0
  /\ tasks' = [tasks EXCEPT
       ![s].stream_buffer = [i \in Ring |->
          IF \E j \in 0 .. amount - 1 : i = (tail + j) % STREAM_CAPACITY
          THEN worker[w].sent + 1 +
               (CHOOSE j \in 0 .. amount - 1 : i = (tail + j) % STREAM_CAPACITY)
          ELSE t.stream_buffer[i]],
       ![s].stream_count = t.stream_count + amount]
  /\ worker' = [worker EXCEPT
       ![w].sent = @ + amount,
       ![w].pending = @ - amount,
       ![w].pc = IF amount = worker[w].pending THEN "io" ELSE "push"]
  /\ UNCHANGED <<queue, next_handle, started, sockets, client, received>>

\* Mutant: a sink that waits for room does not look at the state again.
PushRefusedWithRoom(w) ==
  /\ worker[w].pc = "push"
  /\ tasks[worker[w].slot].state # "RUNNING"
  /\ tasks[worker[w].slot].stream_count < STREAM_CAPACITY
  /\ End(w, "fail")
  /\ UNCHANGED <<tasks, queue, next_handle, started, sockets, client, received>>

\* The sink refuses the bytes of a request that is no longer running.
PushRefused(w) ==
  /\ worker[w].pc = "push"
  /\ tasks[worker[w].slot].state # "RUNNING"
  /\ End(w, "fail")
  /\ UNCHANGED <<tasks, queue, next_handle, started, sockets, client, received>>

\* Mutant: the socket is closed while it is still registered.
UnregisterNothing(w) ==
  /\ worker[w].pc = "unregister"
  /\ Goto(w, "close")
  /\ UNCHANGED <<tasks, queue, next_handle, started, sockets, client, received>>

\* should_close_transport: the socket is unregistered before it is closed.
Unregister(w) ==
  /\ worker[w].pc = "unregister"
  /\ tasks' = [s \in Slots |->
       IF s \in Find(worker[w].id) /\ tasks[s].active_transport = worker[w].fd
       THEN [tasks[s] EXCEPT !.active_transport = 0] ELSE tasks[s]]
  /\ Goto(w, "close")
  /\ UNCHANGED <<queue, next_handle, started, sockets, client, received>>

CloseSocket(w) ==
  /\ worker[w].pc = "close"
  /\ sockets' = [sockets EXCEPT ![worker[w].fd] = Closed]
  /\ worker' = [worker EXCEPT
       ![w].fd = 0,
       ![w].pc = IF worker[w].outcome = "again" THEN "open" ELSE "finish",
       ![w].hops = IF worker[w].outcome = "again" THEN @ + 1 ELSE @]
  /\ UNCHANGED <<tasks, queue, next_handle, started, client, received>>

\* Mutant: the worker reports the request done although it was cancelled.
FinishDone(w) ==
  /\ worker[w].pc = "finish"
  /\ worker' = [worker EXCEPT ![w] = IdleWorker]
  /\ tasks' = [tasks EXCEPT ![worker[w].slot].state = "DONE",
                            ![worker[w].slot].worker_finished = TRUE,
                            ![worker[w].slot].ok = (worker[w].outcome = "ok")]
  /\ UNCHANGED <<queue, next_handle, started, sockets, client, received>>

\* Mutant: a request that failed frees its slot without being released.
FinishFrees(w) ==
  /\ worker[w].pc = "finish"
  /\ worker' = [worker EXCEPT ![w] = IdleWorker]
  /\ Clear(worker[w].slot)
  /\ UNCHANGED <<queue, next_handle, started, sockets, client>>

\* Mutant: the worker forgets a cancelled request, released or not.
FinishForgets(w) ==
  LET s == worker[w].slot IN
  /\ worker[w].pc = "finish"
  /\ worker' = [worker EXCEPT ![w] = IdleWorker]
  /\ tasks' = IF tasks[s].state = "RUNNING"
              THEN [tasks EXCEPT ![s].state = "DONE", ![s].worker_finished = TRUE]
              ELSE tasks
  /\ UNCHANGED <<queue, next_handle, started, sockets, client, received>>

FinishTask(w) ==
  LET s == worker[w].slot IN
  /\ worker[w].pc = "finish"
  /\ worker' = [worker EXCEPT ![w] = IdleWorker]
  /\ \/ /\ tasks[s].state = "RUNNING"
        /\ tasks' = [tasks EXCEPT ![s].state = "DONE",
                                  ![s].worker_finished = TRUE,
                                  ![s].ok = (worker[w].outcome = "ok")]
        /\ UNCHANGED received
     \/ /\ tasks[s].state # "RUNNING" /\ tasks[s].release_requested
        /\ Clear(s)
     \/ /\ tasks[s].state # "RUNNING" /\ ~tasks[s].release_requested
        /\ tasks' = [tasks EXCEPT ![s].worker_finished = TRUE]
        /\ UNCHANGED received
  /\ UNCHANGED <<queue, next_handle, started, sockets, client>>

-----------------------------------------------------------------------------
ClientCall ==
  \/ StartRejected
  \/ \E mode \in Modes : Start(mode)
  \/ \E id \in Handles : Cancel(id) \/ Release(id)
  \/ \E id \in Handles : WaitBlocks(id) \/ StreamReadBlocks(id)
  \/ \E id \in Handles, maximum \in 1 .. STREAM_CAPACITY : StreamRead(id, maximum)

ClientReturns ==
  WaitReturns \/ \E maximum \in 1 .. STREAM_CAPACITY : StreamReadResumes(maximum)

\* What a worker does of its own accord.
WorkerStep(w) ==
  \/ PopTask(w) \/ OpenSocket(w) \/ SetTransport(w)
  \/ Push(w) \/ PushRefused(w)
  \/ Unregister(w) \/ CloseSocket(w) \/ FinishTask(w)

\* What the network decides.
NetworkStep(w) ==
  \/ NoSocket(w) \/ TryAgain(w) \/ ResponseEnds(w) \/ ResponseFails(w)
  \/ \E n \in 1 .. Body : Receive(w, n)

Next ==
  \/ ClientCall
  \/ ClientReturns
  \/ \E w \in Workers : WorkerStep(w) \/ NetworkStep(w)

Spec == Init /\ [][Next]_vars
-----------------------------------------------------------------------------
(* Properties.                                                             *)

Busy(w) == worker[w].pc # "idle"

\* "The task cannot be released while running, so this slot is stable"
\* (async_worker_main): whatever the program cancels, releases or starts
\* meanwhile, the slot a worker works on keeps the request it was popped for
\* until the worker has finished it, and no other worker has that slot.
SlotStable ==
  \A w \in Workers : Busy(w) =>
    LET t == tasks[worker[w].slot] IN
    /\ t.id = worker[w].id
    /\ t.state \in {"RUNNING", "CANCELLED"}
    /\ ~t.worker_finished
    /\ \A v \in Workers \ {w} : Busy(v) => worker[v].slot # worker[w].slot

\* The queue lists exactly the requests no worker has taken: each slot that is
\* queued, or was cancelled while queued, once; never a running, finished or
\* free one.  So a popped entry is never skipped as stale, a cancelled slot is
\* reclaimed once, and async_start_impl finds queue[] full only with every
\* slot in use.
QueueExact ==
  /\ \A i, j \in 1 .. Len(queue) : queue[i] = queue[j] => i = j
  /\ \A s \in Slots :
       (\E i \in 1 .. Len(queue) : queue[i] = s) <=>
         \/ tasks[s].state = "QUEUED"
         \/ /\ tasks[s].state = "CANCELLED" /\ ~tasks[s].worker_finished
            /\ \A w \in Workers : Busy(w) => worker[w].slot # s

\* A handle names one request: two live slots never share it, even after
\* next_handle has gone round (the duplicate check of async_start_impl).
HandlesUnique ==
  \A s, r \in Slots : Live(s) /\ Live(r) /\ tasks[s].id = tasks[r].id => s = r

\* "shutdown() interrupts a blocked socket read/write; worker owns close()"
\* (async_cancel): a descriptor registered in a task is open and belongs to
\* the worker that runs this task, so a cancel can never shut down a socket
\* whose number was closed and handed out again; and no socket outlives the
\* request that opened it.
SocketsOwned ==
  /\ \A s \in Slots : tasks[s].active_transport # 0 =>
       \E w \in Workers :
         /\ Busy(w) /\ worker[w].slot = s
         /\ worker[w].fd = tasks[s].active_transport
         /\ sockets[tasks[s].active_transport].owner = w
  /\ \A f \in Fds : sockets[f].owner # None =>
       Busy(sockets[f].owner) /\ worker[sockets[f].owner].fd = f

\* A worker that exchanges data for a request that is no longer wanted does it
\* on a socket that was shut down: whichever way cancel, set_transport and
\* the close of an earlier socket interleave, no cancellation is missed.
CancelReachesSocket ==
  \A w \in Workers :
    worker[w].pc = "io" /\ tasks[worker[w].slot].state = "CANCELLED"
      => sockets[worker[w].fd].shut

\* wait() and stream_read() keep a task pointer across the condition wait:
\* the slot still holds the request they were called for when they look at it.
BlockedCallKeepsTask ==
  client.pc # "ready" =>
    Live(client.slot) /\ tasks[client.slot].id = client.id

\* The bytes the program has read followed by those in the ring are the body
\* from its first byte on: nothing is lost, repeated or reordered when the
\* ring wraps, when it is full, or when the request is cancelled or fails.
StreamInOrder ==
  \A s \in Slots :
    LET t == tasks[s]
        all == received[s] \o Oldest(t, t.stream_count)
    IN \A i \in 1 .. Len(all) : all[i] = i

-----------------------------------------------------------------------------
(* The pool implements AsyncRequests.                                      *)

PhaseOf(s) ==
  CASE tasks[s].state \in {"QUEUED", "RUNNING"} -> "pending"
    [] tasks[s].state = "DONE" -> "done"
    [] tasks[s].state = "CANCELLED" -> "cancelled"

Answers(s, h) == tasks[s].id = h /\ Live(s)

Seen(h, F(_), none) ==
  IF \E s \in Slots : Answers(s, h) THEN F(CHOOSE s \in Slots : Answers(s, h)) ELSE none

Requests == INSTANCE AsyncRequests WITH
  phase <- [h \in Handles |-> Seen(h, PhaseOf, "none")],
  mode <- [h \in Handles |-> Seen(h, LAMBDA s : tasks[s].mode, 0)],
  ok <- [h \in Handles |-> Seen(h, LAMBDA s : tasks[s].ok, FALSE)],
  received <- [h \in Handles |-> Seen(h, LAMBDA s : Len(received[s]), 0)]

\* Seen through its handles the pool behaves as AsyncRequests allows: a request
\* that was cancelled is never reported done, a finished one never cancelled,
\* and a successful stream cannot be released with bytes unread.
ImplementsRequests == Requests!Spec

-----------------------------------------------------------------------------
(* Progress.                                                               *)

\* A worker thread keeps running, and input on a socket that was shut down
\* ends; nothing is assumed of servers, nor of the program.
Interrupted(w) ==
  /\ worker[w].pc = "io" /\ sockets[worker[w].fd].shut
  /\ ResponseEnds(w) \/ ResponseFails(w)

FairSpec ==
  Spec /\ \A w \in Workers : WF_vars(WorkerStep(w)) /\ WF_vars(Interrupted(w))

\* A cancelled request lets go of its worker, even one that is blocked on a
\* full ring or connecting: the worker becomes idle again.  (The run has no
\* redirects; that none loses the cancellation is CancelReachesSocket.)
CancelFreesWorker ==
  \A w \in Workers :
    (Busy(w) /\ tasks[worker[w].slot].state = "CANCELLED") ~> ~Busy(w)

\* A cancelled request that was running and has been released gives back its
\* slot.
ReleaseFreesSlot ==
  \A s \in Slots :
    (/\ tasks[s].state = "CANCELLED" /\ tasks[s].release_requested
     /\ \E w \in Workers : Busy(w) /\ worker[w].slot = s) ~> ~Live(s)

\* Servers answer as well: every socket exchange ends or delivers bytes.
AnsweringSpec ==
  FairSpec /\ WF_vars(ClientReturns) /\ \A w \in Workers : WF_vars(NetworkStep(w))

\* "stream_read() blocks for data or EOF and returns a byte buffer"
\* (lib/std/net.vnt): when servers answer, a blocked read returns.
StreamReadReturns == client.pc = "read" ~> client.pc = "ready"
=============================================================================
