----------------------------- MODULE BuildTasks -----------------------------
(***************************************************************************)
(* The task graph of tools/vbuild.c: one VBuild invocation checks the      *)
(* graph of build.vbuild for cycles, finds out whether a task it will run  *)
(* mutates the project, takes the lock and executes the selected task      *)
(* after its dependencies.  The three recursive functions are one          *)
(* depth-first search with an explicit stack of calls; "phase" tells which *)
(* of them is running.                                                     *)
(***************************************************************************)
EXTENDS Naturals, Sequences, FiniteSets

CONSTANT NTASKS    \* tasks of build.vbuild, numbered in the order of the file

ASSUME TasksAssumption == NTASKS \in Nat \ {0}

VARIABLES
    deps,      \* the dependencies of each task, in order (0: an undefined name)
    mutates,   \* tasks whose action is neither check nor none
    target,    \* the task of the command line
    phase,     \* what main is doing, or how it ended
    root,      \* the next task load_tasks validates
    stack,     \* active calls, the innermost first: task and next dependency
    mark,      \* states / visited / Task.state
    locked,    \* is the project lock held?
    ran        \* history: tasks whose action succeeded, in order

vars == <<deps, mutates, target, phase, root, stack, mark, locked, ran>>
input == <<deps, mutates, target>>

Task == 1..NTASKS
Clear == [t \in Task |-> 0]
Elements(s) == {s[i] : i \in DOMAIN s}
NoDuplicates(s) == \A i, j \in DOMAIN s : s[i] = s[j] => i = j
DepLists(S) == UNION {{s \in [1..n -> S] : NoDuplicates(s)} : n \in 0..Cardinality(S)}

(* What load_tasks reads: duplicate dependencies have been refused.  The   *)
(* undefined names it refuses afterwards stand in the lists as 0.          *)
Init ==
    /\ deps \in [Task -> DepLists(Task)]
         \cup {[t \in Task |-> IF t = u THEN <<0>> ELSE <<>>] : u \in Task}
    /\ mutates \in SUBSET Task
    /\ target \in Task
    /\ phase = "names" /\ root = 1 /\ stack = <<>> /\ mark = Clear
    /\ locked = FALSE /\ ran = <<>>

Call(t) == <<[task |-> t, next |-> 1]>>
Dependency == deps[stack[1].task][stack[1].next]
More == stack # <<>> /\ stack[1].next <= Len(deps[stack[1].task])
Advanced == [stack EXCEPT ![1].next = @ + 1]

(* Every dependency must be the name of a task. *)
CheckNames ==
    /\ phase = "names"
    /\ phase' = IF \E t \in Task : 0 \in Elements(deps[t]) THEN "rejected" ELSE "validate"
    /\ UNCHANGED <<input, root, stack, mark, locked, ran>>

(* Mutant: a task that is still active counts as visited. *)
EnterLax(t, calls) ==
    IF mark[t] # 0 THEN stack' = calls /\ UNCHANGED <<mark, phase>>
    ELSE /\ mark' = [mark EXCEPT ![t] = 1]
         /\ stack' = Call(t) \o calls
         /\ UNCHANGED phase

(* The head of validate_task_graph and execute_task; "calls" are the       *)
(* active calls it returns to.                                             *)
Enter(t, calls) ==
    \/ mark[t] = 1 /\ phase' = "rejected" /\ UNCHANGED <<stack, mark>>
    \/ mark[t] = 2 /\ stack' = calls /\ UNCHANGED <<mark, phase>>
    \/ /\ mark[t] = 0
       /\ mark' = [mark EXCEPT ![t] = 1]
       /\ stack' = Call(t) \o calls
       /\ UNCHANGED phase

(* The loop of load_tasks over all tasks. *)
ValidateRoot ==
    /\ phase = "validate" /\ stack = <<>> /\ root <= NTASKS
    /\ Enter(root, <<>>)
    /\ root' = root + 1
    /\ UNCHANGED <<input, locked, ran>>

ValidateDependency ==
    /\ phase = "validate" /\ More
    /\ Enter(Dependency, Advanced)
    /\ UNCHANGED <<input, root, locked, ran>>

ValidateReturn ==
    /\ phase = "validate" /\ stack # <<>> /\ ~More
    /\ mark' = [mark EXCEPT ![stack[1].task] = 2]
    /\ stack' = Tail(stack)
    /\ UNCHANGED <<input, phase, root, locked, ran>>

(* Mutant: the selected task alone decides about the lock. *)
LookShallow(t, calls) ==
    /\ phase' = IF t \in mutates THEN "acquire" ELSE phase
    /\ stack' = IF t \in mutates THEN <<>> ELSE calls
    /\ mark' = [mark EXCEPT ![t] = 1]

(* The head of task_graph_requires_lock. *)
Look(t, calls) ==
    \/ mark[t] # 0 /\ stack' = calls /\ UNCHANGED <<mark, phase>>
    \/ /\ mark[t] = 0
       /\ mark' = [mark EXCEPT ![t] = 1]
       /\ IF t \in mutates THEN phase' = "acquire" /\ stack' = <<>>
          ELSE stack' = Call(t) \o calls /\ UNCHANGED phase

LoadTasks ==
    /\ phase = "validate" /\ stack = <<>> /\ root > NTASKS
    /\ phase' = "select" /\ mark' = Clear
    /\ UNCHANGED <<input, root, stack, locked, ran>>

RequiresLock ==
    /\ phase = "select" /\ stack = <<>>
    /\ IF mark[target] = 0 THEN Look(target, <<>>)
       ELSE phase' = "start" /\ UNCHANGED <<stack, mark>>
    /\ UNCHANGED <<input, root, locked, ran>>

LockDependency ==
    /\ phase = "select" /\ More
    /\ Look(Dependency, Advanced)
    /\ UNCHANGED <<input, root, locked, ran>>

LockReturn ==
    /\ phase = "select" /\ stack # <<>> /\ ~More
    /\ stack' = Tail(stack)
    /\ UNCHANGED <<input, phase, root, mark, locked, ran>>

(* acquire_project_lock, which fails while another VBuild holds the lock. *)
AcquireLock ==
    /\ phase = "acquire"
    /\ \/ locked' = TRUE /\ phase' = "start"
       \/ phase' = "busy" /\ UNCHANGED locked
    /\ UNCHANGED <<input, root, stack, mark, ran>>

(* main calls execute_task; Task.state of every task is still 0. *)
ExecuteTarget ==
    /\ phase = "start"
    /\ phase' = "execute"
    /\ mark' = [Clear EXCEPT ![target] = 1]
    /\ stack' = Call(target)
    /\ UNCHANGED <<input, root, locked, ran>>

(* Mutant: the loop over the dependencies does not advance. *)
ExecuteFirstDependency ==
    /\ phase = "execute" /\ More
    /\ Enter(Dependency, stack)
    /\ UNCHANGED <<input, root, locked, ran>>

ExecuteDependency ==
    /\ phase = "execute" /\ More
    /\ Enter(Dependency, Advanced)
    /\ UNCHANGED <<input, root, locked, ran>>

Finish(result) == phase' = result /\ locked' = FALSE

(* Mutant: a task whose action failed counts as not needed. *)
ExecuteActionLax ==
    /\ phase = "execute" /\ stack # <<>> /\ ~More
    /\ stack' = Tail(stack)
    /\ mark' = [mark EXCEPT ![stack[1].task] = 2]
    /\ \/ ran' = Append(ran, stack[1].task)
       \/ UNCHANGED ran
    /\ IF Len(stack) = 1 THEN Finish("done") ELSE UNCHANGED <<phase, locked>>
    /\ UNCHANGED <<input, root>>

(* execute_action and the return of execute_task: a failure ends all       *)
(* active calls, and main releases the lock.                               *)
ExecuteAction ==
    /\ phase = "execute" /\ stack # <<>> /\ ~More
    /\ \/ /\ ran' = Append(ran, stack[1].task)
          /\ mark' = [mark EXCEPT ![stack[1].task] = 2]
          /\ stack' = Tail(stack)
          /\ IF Len(stack) = 1 THEN Finish("done") ELSE UNCHANGED <<phase, locked>>
       \/ Finish("failed") /\ stack' = <<>> /\ UNCHANGED <<mark, ran>>
    /\ UNCHANGED <<input, root>>

Ended == phase \in {"rejected", "busy", "done", "failed"}
Stop == Ended /\ UNCHANGED vars

Next ==
    \/ CheckNames \/ ValidateRoot \/ ValidateDependency \/ ValidateReturn \/ LoadTasks
    \/ RequiresLock \/ LockDependency \/ LockReturn \/ AcquireLock
    \/ ExecuteTarget \/ ExecuteDependency \/ ExecuteAction \/ Stop

Spec == Init /\ [][Next]_vars
FairSpec == Spec /\ WF_vars(Next)
-----------------------------------------------------------------------------
(* Tasks reachable from S: the closure of S under dependencies.            *)
Closed(S) == \A t \in S : Elements(deps[t]) \subseteq S
ReachableFrom(S) == {t \in Task : \A U \in SUBSET Task : S \subseteq U /\ Closed(U) => t \in U}
Cyclic == \E t \in Task : t \in ReachableFrom(Elements(deps[t]))
Needed == ReachableFrom({target})

(* A graph is refused exactly when it names an undefined task or has a     *)
(* cycle anywhere, also one the selected task does not reach, and it is    *)
(* refused before any task runs or the lock is taken.                      *)
CyclesRejected ==
    /\ phase = "rejected" => (Cyclic \/ \E t \in Task : 0 \in Elements(deps[t])) /\ ran = <<>> /\ ~locked
    /\ phase \notin {"names", "validate", "rejected"} => ~Cyclic

(* The lock is held while tasks run exactly when a task that will run      *)
(* mutates the project.                                                    *)
LockWhenNeeded == phase = "execute" => (locked <=> Needed \cap mutates # {})

(* A task runs once at most, and only after each of its dependencies has   *)
(* run with success; VBuild reports success when all tasks the selected    *)
(* one needs have run, and no others.                                      *)
DependenciesFirst ==
    /\ \A i \in DOMAIN ran :
         /\ Elements(deps[ran[i]]) \subseteq Elements(SubSeq(ran, 1, i - 1))
         /\ ran[i] \notin Elements(SubSeq(ran, 1, i - 1))
    /\ phase = "done" => Elements(ran) = Needed

(* Every invocation ends, on cyclic graphs too.                            *)
InvocationEnds == <>Ended
=============================================================================
