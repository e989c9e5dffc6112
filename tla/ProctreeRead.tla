---------------------------- MODULE ProctreeRead ----------------------------
(***************************************************************************)
(* The process tree on its way out of the kernel: the walk over all tasks  *)
(* of kernel/src/proctree.c, the dump of nl_proctree.c, which takes several *)
(* messages, and the client in bridge/nlclient that puts them together.    *)
(*                                                                         *)
(* The walk holds rcu_read_lock() only. Tasks are forked, exit and are     *)
(* released while it is under way. They are the kernel's own and modelled  *)
(* by what the walk relies on: a list of processes and one of threads for  *)
(* each process, to which RCU appends at the end and from which it takes   *)
(* an element out without touching that element's own pointer. Tasks are   *)
(* numbered as they are born; the number stands for pid and start_time.    *)
(***************************************************************************)
EXTENDS Integers, Sequences

CONSTANTS
    MaxTasks,   \* bound of the model: tasks ever born, init included
    Capacity,   \* GB_PROCTREE_MAX_NODES
    PerMessage  \* nodes that fit one netlink message

ASSUME MaxTasksAssumption == MaxTasks \in Nat \ {0}
ASSUME CapacityAssumption == Capacity \in Nat \ {0}
ASSUME PerMessageAssumption == PerMessage \in Nat \ {0}

VARIABLES
    born,        \* tasks born so far
    leader,      \* leader[t]: task->group_leader
    parent,      \* parent[t]: task->real_parent
    alive,       \* the tasks that have not passed do_exit()
    linked,      \* the tasks that are on the lists
    nextProc,    \* nextProc[p]: p->tasks.next, the head being that of task 0
    nextThread,  \* nextThread[t]: t->thread_node.next, 0 for the head
    pc,          \* where the dump stands
    process,     \* the loop variables of for_each_process_thread()
    thread,
    nodes,       \* tree->nodes, up to tree->num_nodes
    truncated,   \* tree->truncated
    index,       \* ctx->index
    received,    \* what the client has read of the answer
    before,      \* history: tasks born before the walk
    steady       \* history: tasks on the lists since the walk began

taskVars == <<born, leader, parent, alive, linked, nextProc, nextThread>>
walkVars == <<pc, process, thread, nodes, truncated>>
dumpVars == <<index, received>>
vars == <<taskVars, walkVars, dumpVars, before, steady>>

Task == 1 .. MaxTasks
\* The idle task, whose key is 0 0. It is not on the list of processes but its head.
Kernel == 0
None == 0

Node == [self : Task, leader : Task, real : Task \cup {Kernel}]

Init ==
    /\ born = 1
    /\ leader = [t \in Task |-> 1]
    /\ parent = [t \in Task |-> Kernel]
    /\ alive = {1}
    /\ linked = {1}
    /\ nextProc = [t \in 0 .. MaxTasks |-> IF t = Kernel THEN 1 ELSE None]
    /\ nextThread = [t \in Task |-> None]
    /\ pc = "idle"
    /\ process = None
    /\ thread = None
    /\ nodes = <<>>
    /\ truncated = FALSE
    /\ index = 0
    /\ received = <<>>
    /\ before = 0
    /\ steady = {}

----------------------------------------------------------------------------
(* The tasks of the kernel.                                                *)

Processes == {t \in linked : leader[t] = t}
Threads(p) == {t \in linked : leader[t] = p}

\* A process by any thread that runs.
Fork(mother) ==
    LET t == born + 1
    IN  /\ born < MaxTasks
        /\ mother \in alive
        /\ born' = t
        /\ leader' = [leader EXCEPT ![t] = t]
        /\ parent' = [parent EXCEPT ![t] = mother]
        /\ alive' = alive \cup {t}
        /\ linked' = linked \cup {t}
        /\ \E last \in Processes :
             /\ nextProc[last] = None
             /\ nextProc' = [nextProc EXCEPT ![last] = t]
        /\ UNCHANGED <<nextThread, walkVars, dumpVars, before, steady>>

\* A thread has the parent of its process.
Clone(sibling) ==
    LET t == born + 1
        p == leader[sibling]
    IN  /\ born < MaxTasks
        /\ sibling \in alive
        /\ born' = t
        /\ leader' = [leader EXCEPT ![t] = p]
        /\ parent' = [parent EXCEPT ![t] = parent[sibling]]
        /\ alive' = alive \cup {t}
        /\ linked' = linked \cup {t}
        /\ \E last \in Threads(p) :
             /\ nextThread[last] = None
             /\ nextThread' = [nextThread EXCEPT ![last] = t]
        /\ UNCHANGED <<nextProc, walkVars, dumpVars, before, steady>>

\* do_exit() hands the children to another thread of the process, or to init, which
\* does not exit itself.
Exit(t) ==
    LET others == (Threads(leader[t]) \cap alive) \ {t}
    IN  /\ t \in alive \ {1}
        /\ alive' = alive \ {t}
        /\ \E reaper \in IF others = {} THEN {1} ELSE others :
             parent' = [u \in Task |->
                          IF u \in linked /\ parent[u] = t THEN reaper ELSE parent[u]]
        /\ UNCHANGED <<born, leader, linked, nextProc, nextThread,
                       walkVars, dumpVars, before, steady>>

\* release_task(): a leader is the last of its process.
Release(t) ==
    /\ t \in linked \ alive
    /\ leader[t] = t => Threads(t) = {t}
    /\ linked' = linked \ {t}
    /\ steady' = steady \ {t}
    /\ IF leader[t] = t
       THEN /\ nextProc' = [u \in 0 .. MaxTasks |->
                              IF u \in Processes \cup {Kernel} /\ nextProc[u] = t
                              THEN nextProc[t] ELSE nextProc[u]]
            /\ UNCHANGED nextThread
       ELSE /\ nextThread' = [u \in Task |->
                                IF u \in Threads(leader[t]) /\ nextThread[u] = t
                                THEN nextThread[t] ELSE nextThread[u]]
            /\ UNCHANGED nextProc
    /\ UNCHANGED <<born, leader, parent, alive, walkVars, dumpVars, before>>

Life == \E t \in Task : Fork(t) \/ Clone(t) \/ Exit(t) \/ Release(t)

----------------------------------------------------------------------------
(* gb_proctree_get()                                                       *)

unchangedBesides == <<taskVars, dumpVars, before, steady>>

\* Both allocations have succeeded and rcu_read_lock() is taken. A failure ends the
\* request before it has any state.
Begin ==
    /\ pc = "idle"
    /\ pc' = "next_process"
    /\ before' = born
    /\ steady' = linked
    /\ UNCHANGED <<taskVars, process, thread, nodes, truncated, dumpVars>>

NextProcess ==
    /\ pc = "next_process"
    /\ nextProc[process] # None
    /\ process' = nextProc[process]
    /\ pc' = "first_thread"
    /\ UNCHANGED <<thread, nodes, truncated, unchangedBesides>>

\* The list of threads of a process that has been released meanwhile is empty.
FirstThread ==
    /\ pc = "first_thread"
    /\ IF process \in linked
       THEN thread' = process /\ pc' = "read"
       ELSE pc' = "next_process" /\ UNCHANGED thread
    /\ UNCHANGED <<process, nodes, truncated, unchangedBesides>>

\* Mutant of Read: "num_nodes > capacity".
ReadOneMore ==
    /\ pc = "read"
    /\ Len(nodes) <= Capacity
    /\ nodes' = Append(nodes, [self |-> thread, leader |-> process, real |-> parent[thread]])
    /\ pc' = "next_thread"
    /\ UNCHANGED <<process, thread, truncated, unchangedBesides>>

\* gb_proctree_read_task()
Read ==
    /\ pc = "read"
    /\ Len(nodes) < Capacity
    /\ nodes' = Append(nodes, [self |-> thread, leader |-> process, real |-> parent[thread]])
    /\ pc' = "next_thread"
    /\ UNCHANGED <<process, thread, truncated, unchangedBesides>>

\* The break leaves the inner one of the two loops of for_each_process_thread().
Truncate ==
    /\ pc = "read"
    /\ Len(nodes) >= Capacity
    /\ truncated' = TRUE
    /\ pc' = "next_process"
    /\ UNCHANGED <<process, thread, nodes, unchangedBesides>>

\* Mutant of NextThread: for_each_process() in place of for_each_process_thread().
NextThreadNone ==
    /\ pc = "next_thread"
    /\ pc' = "next_process"
    /\ UNCHANGED <<process, thread, nodes, truncated, unchangedBesides>>

NextThread ==
    /\ pc = "next_thread"
    /\ IF nextThread[thread] = None
       THEN pc' = "next_process" /\ UNCHANGED thread
       ELSE pc' = "read" /\ thread' = nextThread[thread]
    /\ UNCHANGED <<process, nodes, truncated, unchangedBesides>>

\* The end of both loops: rcu_read_unlock(), and ctx of the dump is set up.
EndWalk ==
    /\ pc = "next_process"
    /\ nextProc[process] = None
    /\ pc' = "dump"
    /\ process' = None
    /\ thread' = None
    /\ UNCHANGED <<nodes, truncated, unchangedBesides>>

----------------------------------------------------------------------------
(* gb_nl_proctree_dump() and proctreeClient.Dump()                         *)

Least(a, b) == IF a <= b THEN a ELSE b

\* Mutant of Dump: a node that did not fit is counted.
DumpSkipsUnfit ==
    LET end == Least(index + PerMessage, Len(nodes))
    IN  /\ pc = "dump"
        /\ index < Len(nodes)
        /\ received' = received \o SubSeq(nodes, index + 1, end)
        /\ index' = Least(end + 1, Len(nodes))
        /\ UNCHANGED <<taskVars, walkVars, before, steady>>

\* One message: nodes until one does not fit.
Dump ==
    LET end == Least(index + PerMessage, Len(nodes))
    IN  /\ pc = "dump"
        /\ index < Len(nodes)
        /\ received' = received \o SubSeq(nodes, index + 1, end)
        /\ index' = end
        /\ UNCHANGED <<taskVars, walkVars, before, steady>>

\* An empty message ends the dump; gb_nl_proctree_dump_done() frees the tree, of which
\* nodes keeps a copy for the properties. The bridge has the whole answer.
DumpDone ==
    /\ pc = "dump"
    /\ index = Len(nodes)
    /\ pc' = "answered"
    /\ UNCHANGED <<taskVars, process, thread, nodes, truncated, dumpVars, before, steady>>

Reset ==
    /\ pc' = "idle"
    /\ nodes' = <<>>
    /\ truncated' = FALSE
    /\ index' = 0
    /\ received' = <<>>
    /\ before' = 0
    /\ steady' = {}
    /\ UNCHANGED <<taskVars, process, thread>>

\* Execute() fails on the way: the client returns no node.
DumpFails == pc = "dump" /\ Reset

\* The answer has been handed on.
HandOn == pc = "answered" /\ Reset

Walk ==
    \/ Begin \/ NextProcess \/ FirstThread \/ Read \/ Truncate \/ NextThread \/ EndWalk
    \/ Dump \/ DumpDone \/ DumpFails \/ HandOn

Next == Life \/ Walk

Spec == Init /\ [][Next]_vars

----------------------------------------------------------------------------
(* Properties.                                                             *)

\* Every variable keeps its shape; no node is written behind the end of the array.
TypeOK ==
    /\ born \in Task
    /\ leader \in [Task -> Task]
    /\ parent \in [Task -> Task \cup {Kernel}]
    /\ alive \subseteq linked /\ linked \subseteq Task
    /\ nextProc \in [0 .. MaxTasks -> Task \cup {None}]
    /\ nextThread \in [Task -> Task \cup {None}]
    /\ pc \in {"idle", "next_process", "first_thread", "read", "next_thread", "dump",
               "answered"}
    /\ process \in Task \cup {None} /\ thread \in Task \cup {None}
    /\ nodes \in Seq(Node) /\ Len(nodes) <= Capacity
    /\ truncated \in BOOLEAN
    /\ index \in 0 .. Len(nodes)
    /\ received \in Seq(Node)
    /\ before \in 0 .. MaxTasks
    /\ steady \subseteq Task

WasRead(t) == \E i \in 1 .. Len(nodes) : nodes[i].self = t

\* However tasks come and go around the walk, which may stand on tasks that have been
\* taken off the lists: each task that is there from its beginning to its end is read,
\* unless the tree says that it is truncated, and no task is read twice.
WalkComplete ==
    /\ pc \in {"dump", "answered"} /\ ~truncated => \A t \in steady : WasRead(t)
    /\ \A i, j \in 1 .. Len(nodes) : nodes[i].self = nodes[j].self => i = j

\* What the bridge puts together is the tree that was read, though it came in
\* several messages.
AnswerWhole == pc = "answered" => received = nodes
=============================================================================
