------------------------------ MODULE TaskRefs ------------------------------
(***************************************************************************)
(* The references of the readers that look at one task: gb_vme_get() of    *)
(* kernel/src/vmexplorer.c and gb_taskview_get() of taskview.c, over       *)
(* gb_find_get_task() of helper.c, called by nl_vmexplorer.c and           *)
(* nl_taskview.c. Meanwhile tasks are forked, exit and are released, and   *)
(* their pids are reused.                                                  *)
(*                                                                         *)
(* The tasks are the kernel's own and modelled by what the readers rely    *)
(* on: task_struct and mm_struct are counted, a released task is not put   *)
(* before the RCU readers that may have found it are done, and a parent    *)
(* that exits hands on the children it still has, while a task that was    *)
(* released keeps the parent pointer it had. Tasks are numbered in the     *)
(* order of their start times: the number is the start_time, and task 1 is *)
(* init.                                                                   *)
(***************************************************************************)
EXTENDS Integers, FiniteSets

CONSTANTS
    Pids,       \* process ids of the initial namespace
    MaxTasks,   \* bound of the model: tasks ever forked, init included
    Requests    \* contexts that serve a netlink request

ASSUME PidsAssumption == Pids # {}
ASSUME MaxTasksAssumption == MaxTasks \in Nat \ {0}
ASSUME RequestsAssumption == IsFiniteSet(Requests)

VARIABLES
    born,      \* tasks forked so far
    pid,       \* pid[t]: task->pid
    parent,    \* parent[t]: task->parent
    linked,    \* the tasks that pid_task() finds
    exited,    \* the tasks that have passed do_exit()
    pending,   \* released tasks whose last reference of the kernel is not put yet
    waits,     \* waits[t]: RCU readers the put of t waits for
    usage,     \* usage[t]: references to the task_struct
    withMM,    \* the tasks with task->mm
    users,     \* users[t]: mm->mm_users of the mm that t was forked with
    pc,        \* pc[c]: where request c stands
    kind,      \* kind[c]: "vme" or "view"
    key,       \* key[c]: the gb_task_key asked for
    found,     \* found[c]: its task pointer, 0 for NULL
    dad,       \* dad[c]: the parent pointer it has read
    error,     \* error[c]: whether it will return an ERR_PTR
    heap,      \* heap[c]: its result is allocated
    from       \* from[c]: the task its result was filled from

taskVars == <<born, pid, parent, linked, exited, pending, waits, usage, withMM, users>>
requestVars == <<pc, kind, key, found, dad, error, heap, from>>
vars == <<taskVars, requestVars>>

Task == 1 .. MaxTasks
NoTask == 0
Key == [pid : Pids, start : Task]
Kind == {"vme", "view"}

\* What stands in for the key of a context that has no request.
AnyKey == [pid |-> CHOOSE p \in Pids : TRUE, start |-> 1]

Init ==
    /\ born = 1
    /\ pid = [t \in Task |-> AnyKey.pid]
    /\ parent = [t \in Task |-> 1]
    /\ linked = {1}
    /\ exited = {}
    /\ pending = {}
    /\ waits = [t \in Task |-> {}]
    /\ usage = [t \in Task |-> IF t = 1 THEN 1 ELSE 0]
    /\ withMM = {1}
    /\ users = [t \in Task |-> IF t = 1 THEN 1 ELSE 0]
    /\ pc = [c \in Requests |-> "idle"]
    /\ kind = [c \in Requests |-> "vme"]
    /\ key = [c \in Requests |-> AnyKey]
    /\ found = [c \in Requests |-> NoTask]
    /\ dad = [c \in Requests |-> NoTask]
    /\ error = [c \in Requests |-> FALSE]
    /\ heap = [c \in Requests |-> FALSE]
    /\ from = [c \in Requests |-> NoTask]

----------------------------------------------------------------------------
(* The tasks of the kernel.                                                *)

\* Mutant of InRCU: the lookup does not take rcu_read_lock().
InRCUForParentOnly(c) == pc[c] = "read_parent"

\* Between rcu_read_lock() and rcu_read_unlock().
InRCU(c) == pc[c] \in {"pin", "rcu_unlock", "read_parent"}

\* The pids that no task has had are alike: of these the next task takes a fixed one.
Fresh(p) == p = CHOOSE q \in Pids : \A u \in 1 .. born : pid[u] # q

\* The pid of a released task is free at once. A kernel thread has no mm.
Fork(p, mother) ==
    LET t == born + 1
    IN  /\ born < MaxTasks
        /\ \A u \in linked : pid[u] # p
        /\ Fresh(p) \/ \E u \in 1 .. born : pid[u] = p
        /\ mother \in linked \ exited
        /\ born' = t
        /\ pid' = [pid EXCEPT ![t] = p]
        /\ parent' = [parent EXCEPT ![t] = mother]
        /\ linked' = linked \cup {t}
        /\ usage' = [usage EXCEPT ![t] = 1]
        /\ \/ withMM' = withMM \cup {t} /\ users' = [users EXCEPT ![t] = 1]
           \/ UNCHANGED <<withMM, users>>
        /\ UNCHANGED <<exited, pending, waits, requestVars>>

\* do_exit() drops the mm and hands the children to init: those on its list of children,
\* from which release_task() has taken the released ones. init does not exit.
Exit(t) ==
    /\ t \in linked \ (exited \cup {1})
    /\ exited' = exited \cup {t}
    /\ withMM' = withMM \ {t}
    /\ users' = IF t \in withMM THEN [users EXCEPT ![t] = @ - 1] ELSE users
    /\ parent' = [u \in Task |-> IF u \in linked /\ parent[u] = t THEN 1 ELSE parent[u]]
    /\ UNCHANGED <<born, pid, linked, pending, waits, usage, requestVars>>

\* release_task(): off the pid hash; the put is left to call_rcu().
Release(t) ==
    /\ t \in linked \cap exited
    /\ linked' = linked \ {t}
    /\ pending' = pending \cup {t}
    /\ waits' = [waits EXCEPT ![t] = {c \in Requests : InRCU(c)}]
    /\ UNCHANGED <<born, pid, parent, exited, usage, withMM, users, requestVars>>

DelayedPut(t) ==
    /\ t \in pending
    /\ waits[t] = {}
    /\ pending' = pending \ {t}
    /\ usage' = [usage EXCEPT ![t] = @ - 1]
    /\ UNCHANGED <<born, pid, parent, linked, exited, waits, withMM, users, requestVars>>

----------------------------------------------------------------------------
(* Helpers of the requests.                                                *)

GoTo(c, at) == pc' = [pc EXCEPT ![c] = at]

\* A request that has ended keeps no local variable.
Return(c) ==
    /\ GoTo(c, "idle")
    /\ kind' = [kind EXCEPT ![c] = "vme"]
    /\ key' = [key EXCEPT ![c] = AnyKey]
    /\ found' = [found EXCEPT ![c] = NoTask]
    /\ error' = [error EXCEPT ![c] = FALSE]
    /\ from' = [from EXCEPT ![c] = NoTask]

\* rcu_read_unlock() of c.
LeaveRCU(c) == waits' = [t \in Task |-> waits[t] \ {c}]

unchangedTasks == <<born, pid, parent, linked, exited, pending, withMM>>

----------------------------------------------------------------------------
(* gb_vme_get() and gb_taskview_get(), up to the task. An invalid path,    *)
(* missing attributes or a kzalloc() that fails end a request before it    *)
(* has any state.                                                          *)

Ask(c) ==
    /\ pc[c] = "idle"
    /\ \E k \in Kind, asked \in Key :
         kind' = [kind EXCEPT ![c] = k] /\ key' = [key EXCEPT ![c] = asked]
    /\ heap' = [heap EXCEPT ![c] = TRUE]
    /\ GoTo(c, "lookup")
    /\ UNCHANGED <<taskVars, found, dad, error, from>>

\* rcu_read_lock() and pid_task(find_pid_ns()).
Lookup(c) ==
    /\ pc[c] = "lookup"
    /\ \E t \in linked :
         /\ pid[t] = key[c].pid
         /\ found' = [found EXCEPT ![c] = t]
    /\ GoTo(c, "pin")
    /\ UNCHANGED <<taskVars, kind, key, dad, error, heap, from>>

LookupFails(c) ==
    /\ pc[c] = "lookup"
    /\ \A t \in linked : pid[t] # key[c].pid
    /\ error' = [error EXCEPT ![c] = TRUE]
    /\ GoTo(c, "free")
    /\ UNCHANGED <<taskVars, kind, key, found, dad, heap, from>>

\* get_task_struct()
Pin(c) ==
    /\ pc[c] = "pin"
    /\ usage' = [usage EXCEPT ![found[c]] = @ + 1]
    /\ GoTo(c, "rcu_unlock")
    /\ UNCHANGED <<unchangedTasks, waits, users, kind, key, found, dad, error, heap, from>>

Unlock(c) ==
    /\ pc[c] = "rcu_unlock"
    /\ LeaveRCU(c)
    /\ GoTo(c, "compare")
    /\ UNCHANGED <<unchangedTasks, usage, users, kind, key, found, dad, error, heap, from>>

\* What follows a task that is found.
Use(c) == GoTo(c, IF kind[c] = "vme" THEN "get_mm" ELSE "get_parent")

\* Mutant of Compare: the start time is not compared.
CompareNothing(c) ==
    /\ pc[c] = "compare"
    /\ Use(c)
    /\ UNCHANGED <<taskVars, kind, key, found, dad, error, heap, from>>

Compare(c) ==
    /\ pc[c] = "compare"
    /\ found[c] = key[c].start
    /\ Use(c)
    /\ UNCHANGED <<taskVars, kind, key, found, dad, error, heap, from>>

\* Mutant of CompareFails: no put_task_struct().
CompareFailsKeepsTask(c) ==
    /\ pc[c] = "compare"
    /\ found[c] # key[c].start
    /\ error' = [error EXCEPT ![c] = TRUE]
    /\ GoTo(c, "free")
    /\ UNCHANGED <<taskVars, kind, key, found, dad, heap, from>>

\* Mutant of CompareFails: the caller puts the task once more.
CompareFailsPutsTwice(c) ==
    /\ pc[c] = "compare"
    /\ found[c] # key[c].start
    /\ error' = [error EXCEPT ![c] = TRUE]
    /\ usage' = [usage EXCEPT ![found[c]] = @ - 1]
    /\ GoTo(c, "put_task")
    /\ UNCHANGED <<unchangedTasks, waits, users, kind, key, found, dad, heap, from>>

\* The pid is another task's by now: put_task_struct() and NULL.
CompareFails(c) ==
    /\ pc[c] = "compare"
    /\ found[c] # key[c].start
    /\ error' = [error EXCEPT ![c] = TRUE]
    /\ GoTo(c, "put_task")
    /\ UNCHANGED <<taskVars, kind, key, found, dad, heap, from>>

----------------------------------------------------------------------------
(* gb_taskview_fill(): the parents, then the rest, the memory last. What   *)
(* is read of the task itself stands for one read.                         *)

\* rcu_read_lock() and the pointer.
GetParent(c) ==
    /\ pc[c] = "get_parent"
    /\ from' = [from EXCEPT ![c] = found[c]]
    /\ dad' = [dad EXCEPT ![c] = parent[found[c]]]
    /\ GoTo(c, "read_parent")
    /\ UNCHANGED <<taskVars, kind, key, found, error, heap>>

\* The parent's pid and start time, whatever stands there, and rcu_read_unlock().
ReadParent(c) ==
    /\ pc[c] = "read_parent"
    /\ LeaveRCU(c)
    /\ dad' = [dad EXCEPT ![c] = NoTask]
    /\ GoTo(c, "get_mm")
    /\ UNCHANGED <<unchangedTasks, usage, users, kind, key, found, error, heap, from>>

----------------------------------------------------------------------------
(* The memory: get_task_mm(), mmap_read_lock() and the reads, mmput().     *)

GetMM(c) ==
    /\ pc[c] = "get_mm"
    /\ found[c] \in withMM
    /\ users' = [users EXCEPT ![found[c]] = @ + 1]
    /\ GoTo(c, "walk")
    /\ UNCHANGED <<unchangedTasks, waits, usage, kind, key, found, dad, error, heap, from>>

\* A kernel thread or a task that exits: -ENXIO for the memory explorer, while a
\* task view goes without.
GetMMFails(c) ==
    /\ pc[c] = "get_mm"
    /\ found[c] \notin withMM
    /\ error' = [error EXCEPT ![c] = (kind[c] = "vme")]
    /\ GoTo(c, "put_task")
    /\ UNCHANGED <<taskVars, kind, key, found, dad, heap, from>>

\* A path that leads nowhere, or to the contents of a page, is an error.
Walk(c) ==
    /\ pc[c] = "walk"
    /\ \/ from' = [from EXCEPT ![c] = found[c]] /\ UNCHANGED error
       \/ /\ kind[c] = "vme"
          /\ error' = [error EXCEPT ![c] = TRUE]
          /\ UNCHANGED from
    /\ GoTo(c, "mmput")
    /\ UNCHANGED <<taskVars, kind, key, found, dad, heap>>

\* Mutant of MmPut: no mmput() after an error.
MmPutOnSuccess(c) ==
    /\ pc[c] = "mmput"
    /\ users' = IF error[c] THEN users ELSE [users EXCEPT ![found[c]] = @ - 1]
    /\ GoTo(c, "put_task")
    /\ UNCHANGED <<unchangedTasks, waits, usage, kind, key, found, dad, error, heap, from>>

MmPut(c) ==
    /\ pc[c] = "mmput"
    /\ users' = [users EXCEPT ![found[c]] = @ - 1]
    /\ GoTo(c, "put_task")
    /\ UNCHANGED <<unchangedTasks, waits, usage, kind, key, found, dad, error, heap, from>>

PutTask(c) ==
    /\ pc[c] = "put_task"
    /\ usage' = [usage EXCEPT ![found[c]] = @ - 1]
    /\ GoTo(c, IF error[c] THEN "free" ELSE "dump")
    /\ UNCHANGED <<unchangedTasks, waits, users, kind, key, found, dad, error, heap, from>>

\* Mutant of Free: kfree() is left out.
FreeNothing(c) ==
    /\ pc[c] = "free"
    /\ Return(c)
    /\ UNCHANGED <<taskVars, dad, heap>>

\* kfree() of the result on the way out with an error.
Free(c) ==
    /\ pc[c] = "free"
    /\ heap' = [heap EXCEPT ![c] = FALSE]
    /\ Return(c)
    /\ UNCHANGED <<taskVars, dad>>

\* The dump is over, or the socket closed; the reply sent, or failed.
Answered(c) ==
    /\ pc[c] = "dump"
    /\ heap' = [heap EXCEPT ![c] = FALSE]
    /\ Return(c)
    /\ UNCHANGED <<taskVars, dad>>

----------------------------------------------------------------------------
Serve(c) ==
    \/ Lookup(c) \/ LookupFails(c) \/ Pin(c) \/ Unlock(c)
    \/ Compare(c) \/ CompareFails(c) \/ GetParent(c) \/ ReadParent(c)
    \/ GetMM(c) \/ GetMMFails(c) \/ Walk(c) \/ MmPut(c) \/ PutTask(c) \/ Free(c)

Life ==
    \/ \E p \in Pids, t \in Task : Fork(p, t)
    \/ \E t \in Task : Exit(t) \/ Release(t) \/ DelayedPut(t)

Next == Life \/ \E c \in Requests : Ask(c) \/ Serve(c) \/ Answered(c)

Spec == Init /\ [][Next]_vars

\* A request that has begun is carried on by the thread that serves it, and a grace
\* period ends when its readers are done. Nobody has to fork, exit, reap or ask, nor
\* to take in the answer of a dump.
Fairness ==
    /\ \A c \in Requests : WF_vars(Serve(c))
    /\ \A t \in Task : WF_vars(DelayedPut(t))

FairSpec == Spec /\ Fairness

----------------------------------------------------------------------------
(* Properties.                                                             *)

\* Every variable keeps its shape.
TypeOK ==
    /\ born \in Task
    /\ pid \in [Task -> Pids]
    /\ parent \in [Task -> Task]
    /\ linked \subseteq Task /\ exited \subseteq Task /\ pending \subseteq Task
    /\ withMM \subseteq Task
    /\ waits \in [Task -> SUBSET Requests]
    /\ usage \in [Task -> Nat] /\ users \in [Task -> Nat]
    /\ pc \in [Requests -> {"idle", "lookup", "pin", "rcu_unlock", "compare",
                            "get_parent", "read_parent", "get_mm", "walk", "mmput",
                            "put_task", "free", "dump"}]
    /\ kind \in [Requests -> Kind]
    /\ key \in [Requests -> Key]
    /\ found \in [Requests -> Task \cup {NoTask}]
    /\ dad \in [Requests -> Task \cup {NoTask}]
    /\ error \in [Requests -> BOOLEAN] /\ heap \in [Requests -> BOOLEAN]
    /\ from \in [Requests -> Task \cup {NoTask}]

\* c has its own reference to the task it has found.
HoldsTask(c) ==
    pc[c] \in {"rcu_unlock", "compare", "get_parent", "read_parent", "get_mm", "walk",
               "mmput", "put_task"}

HoldsMM(c) == pc[c] \in {"walk", "mmput"}

\* The grace period of t's release, if it was released, has not ended without c.
Guarded(t, c) == t \in linked \/ (t \in pending /\ c \in waits[t])

\* Whatever exits and is released meanwhile: the task_struct that a request has found is
\* not freed before it is counted nor while it is read, and page tables that are walked
\* are not torn down. The parent is not freed while it is read either, if the task that
\* was found had not been released when the RCU section began that its pointer is read in.
PointersLive ==
    \A c \in Requests :
        /\ pc[c] = "pin" \/ HoldsTask(c) => usage[found[c]] > 0
        /\ pc[c] = "read_parent" /\ Guarded(found[c], c) => usage[dad[c]] > 0
        /\ HoldsMM(c) => users[found[c]] > 0

\* What gb_model.h:10 says of a gb_task_key, applied to the parent's key in a task view:
\* it identifies a task_struct, so that there is one when its two parts are read.
ParentIsTask == \A c \in Requests : pc[c] = "read_parent" => usage[dad[c]] > 0

\* What is handed out was read from the task that the key names by pid and start
\* time: a pid that was reused since the client saw it is never answered.
AnswersKey ==
    \A c \in Requests :
        pc[c] = "dump" =>
            /\ from[c] = key[c].start
            /\ pid[from[c]] = key[c].pid

\* Each reference is given back exactly once, on the way out of success and of each of
\* the errors: a count is what the kernel and the requests under way account for.
CountsBalanced ==
    \A t \in Task :
        /\ usage[t] = (IF t \in linked \cup pending THEN 1 ELSE 0)
                      + Cardinality({c \in Requests : HoldsTask(c) /\ found[c] = t})
        /\ users[t] = (IF t \in withMM THEN 1 ELSE 0)
                      + Cardinality({c \in Requests : HoldsMM(c) /\ found[c] = t})

\* gb_vme_get() and gb_taskview_get() free what they do not hand out.
ResultsFreed == \A c \in Requests : pc[c] = "idle" => ~heap[c]

\* Looking at a task does not keep it for ever, also when the client never takes the
\* answer in: once it has exited its address space goes, and once it is released, if it
\* is, its task_struct is freed.
TasksFreed ==
    \A t \in Task \ {1} :
        t \in exited ~> users[t] = 0 /\ (t \in linked \/ usage[t] = 0)
=============================================================================
