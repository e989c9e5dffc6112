------------------------- MODULE ProctreeReadProofs -------------------------
(***************************************************************************)
(* The walk over the process tree, for any number of tasks and any size of *)
(* the tree and of the messages. It meets tasks that come and go; the      *)
(* proof says what the lists of the kernel promise to one who stands on a  *)
(* task that is on them, or that has been taken off them meanwhile.        *)
(***************************************************************************)
EXTENDS ProctreeView, FiniteSetTheorems, WellFoundedInduction, TLAPS

USE MaxTasksAssumption, CapacityAssumption, PerMessageAssumption

Walking == {"next_process", "first_thread", "read", "next_thread"}

----------------------------------------------------------------------------
(* The inductive invariant.                                                *)

\* Groups: a leader is the oldest of its process and the last to be released.
GroupInv ==
    /\ linked \subseteq 1 .. born /\ 1 \in alive
    /\ \A t \in 1 .. born :
          leader[t] \in 1 .. t /\ leader[leader[t]] = leader[t]
    /\ \A t \in linked : leader[t] \in linked

\* The lists are in the order of birth and hold what is linked.
ListInv ==
    /\ \A u \in Processes \cup {Kernel}, p \in Processes : u < p =>
          nextProc[u] # None /\ nextProc[u] <= p
    /\ \A u \in Processes \cup {Kernel} : nextProc[u] # None =>
          nextProc[u] \in Processes /\ u < nextProc[u]
    /\ \A u, t \in linked : u < t /\ leader[u] = leader[t] =>
          nextThread[u] # None /\ nextThread[u] <= t
    /\ \A u \in linked : nextThread[u] # None =>
          /\ nextThread[u] \in Threads(leader[u])
          /\ u < nextThread[u]
    /\ \A t \in Task : t > born => nextProc[t] = None /\ nextThread[t] = None

\* A parent runs, and its process is older.
KinInv ==
    \A t \in linked : parent[t] # Kernel =>
        parent[t] \in alive /\ leader[parent[t]] < leader[t]

\* The history variables agree: who is on the lists since the walk began is who is on
\* them and was born before.
HistoryInv ==
    /\ before \in 0 .. born
    /\ steady = {t \in linked : t <= before}

\* What the pointers of the tasks in Gone, which were released while the walk was on,
\* still promise: they lead on, and past no task that the walk must not miss.
GoneInv(Gone) ==
    /\ Gone \subseteq (1 .. born) \ linked
    /\ \A u \in Gone :
          /\ leader[u] = u =>
               /\ nextProc[u] # None =>
                    /\ nextProc[u] \in linked \cup Gone
                    /\ leader[nextProc[u]] = nextProc[u] /\ u < nextProc[u]
               /\ \A p \in Processes : u < p =>
                    IF nextProc[u] # None THEN nextProc[u] <= p ELSE before < p
          /\ nextThread[u] # None =>
               /\ nextThread[u] \in linked \cup Gone
               /\ leader[nextThread[u]] = leader[u] /\ u < nextThread[u]
          /\ \A t \in linked : u < t /\ leader[u] = leader[t] /\ t <= before =>
               nextThread[u] # None /\ nextThread[u] <= t

\* Where the walk stands.
PlaceInv(Gone) ==
    /\ process # Kernel => process \in linked \cup Gone /\ leader[process] = process
    /\ pc \in {"first_thread", "read", "next_thread"} => process # Kernel
    /\ pc \in {"read", "next_thread"} =>
         thread \in linked \cup Gone /\ leader[thread] = process

\* The walk is past t.
Behind(t) ==
    \/ leader[t] < process
    \/ /\ leader[t] = process
       /\ \/ pc = "next_process"
          \/ pc = "read" /\ t < thread
          \/ pc = "next_thread" /\ t <= thread

\* A parent that is in the tree, or that is a thread and came while the walk was on.
Known(p) == p = Kernel \/ WasRead(p) \/ (p \in before + 1 .. born /\ leader[p] # p)

\* What the walk is past has been read, if it was there from the beginning or is the
\* leader of a process that is still there; nothing else has been. Where the walk is to
\* read a leader its parent is known, though the leader may be released by now and its
\* parent, which nobody corrects any more, gone.
ProgressInv ==
    /\ ~truncated =>
         \A t \in linked : (t <= before \/ leader[t] = t) /\ Behind(t) => WasRead(t)
    /\ \A i \in 1 .. Len(nodes) : Behind(nodes[i].self)
    /\ pc = "next_thread" \/ (pc = "read" /\ thread # process) => WasRead(process)
    /\ ~truncated /\ pc = "read" /\ thread = process => Known(parent[process])

\* The nodes: each once, with its leader, and a leader with a parent that is known.
NodesInv ==
    /\ \A i \in 1 .. Len(nodes) :
         /\ nodes[i].self \in 1 .. born
         /\ nodes[i].leader = leader[nodes[i].self]
         /\ WasRead(nodes[i].leader)
         /\ nodes[i].self = nodes[i].leader => Known(nodes[i].real)
    /\ \A i, j \in 1 .. Len(nodes) : nodes[i].self = nodes[j].self => i = j
    /\ truncated => Len(nodes) >= Capacity

WalkInv ==
    /\ pc \in Walking =>
         ProgressInv /\ \E Gone \in SUBSET Task : GoneInv(Gone) /\ PlaceInv(Gone)
    /\ pc \notin Walking => process = None
    /\ pc = "idle" => nodes = <<>> /\ before = 0
    /\ pc \in {"dump", "answered"} /\ ~truncated => \A t \in steady : WasRead(t)

\* The answer so far is the beginning of the tree.
DumpInv ==
    /\ pc \notin {"dump", "answered"} => index = 0
    /\ Len(received) = index
    /\ \A i \in 1 .. index : received[i] = nodes[i]
    /\ pc = "answered" => index = Len(nodes)

TreeInv ==
    GroupInv /\ ListInv /\ KinInv /\ HistoryInv /\ NodesInv /\ WalkInv /\ DumpInv

----------------------------------------------------------------------------
(* Types. A task is read where the walk stands on one.                     *)

TypeInv ==
    /\ TypeOK
    /\ pc \in {"first_thread", "read", "next_thread"} => process \in Task
    /\ pc \in {"read", "next_thread"} => thread \in Task

LEMMA Values ==
    /\ Task \subseteq Nat \ {0} /\ 1 \in Task /\ MaxTasks \in Nat
    /\ 0 .. MaxTasks = Task \cup {Kernel}
    /\ Kernel = None /\ None \notin Task
  BY DEF Task, Kernel, None

LEMMA TypeInit == Init => TypeInv
<1> SUFFICES ASSUME Init PROVE TypeInv
  OBVIOUS
<1>1. nodes \in Seq(Node) /\ received \in Seq(Node) /\ Len(nodes) = 0
  BY DEF Init
<1>2. nextProc \in [0 .. MaxTasks -> Task \cup {None}]
  BY Values DEF Init
<1> QED
  BY <1>1, <1>2, Values DEF Init, TypeInv, TypeOK

LEMMA LifeTypes == TypeInv /\ Life => TypeInv'
<1> SUFFICES ASSUME TypeInv, Life PROVE TypeInv'
  OBVIOUS
<1>1. UNCHANGED <<walkVars, dumpVars, before>> /\ steady' \subseteq steady
  BY DEF Life, Fork, Clone, Exit, Release
<1> DEFINE Shape ==
      /\ born \in Task
      /\ leader \in [Task -> Task]
      /\ parent \in [Task -> Task \cup {Kernel}]
      /\ alive \subseteq linked /\ linked \subseteq Task
      /\ nextProc \in [0 .. MaxTasks -> Task \cup {None}]
      /\ nextThread \in [Task -> Task \cup {None}]
<1>2. Shape
  BY DEF TypeInv, TypeOK
<1> SUFFICES Shape'
  BY <1>1 DEF TypeInv, TypeOK, walkVars, dumpVars
<1> PICK u \in Task : Fork(u) \/ Clone(u) \/ Exit(u) \/ Release(u)
  BY DEF Life
<1>3. CASE Fork(u) \/ Clone(u)
  <2>1. born + 1 \in Task
    BY <1>2, <1>3, Values DEF Fork, Clone, Task
  <2>2. leader' \in [Task -> Task] /\ parent' \in [Task -> Task \cup {Kernel}]
    BY <1>2, <1>3, <2>1 DEF Fork, Clone
  <2>3. \A last \in linked :
          /\ [nextProc EXCEPT ![last] = born + 1] \in [0 .. MaxTasks -> Task \cup {None}]
          /\ [nextThread EXCEPT ![last] = born + 1] \in [Task -> Task \cup {None}]
    BY <1>2, <2>1, Values
  <2> QED
    BY <1>2, <1>3, <2>1, <2>2, <2>3 DEF Fork, Clone, Processes, Threads
<1>4. CASE Exit(u)
  BY <1>2, <1>4, Values DEF Exit, Threads
<1>5. CASE Release(u)
  <2>1. nextProc' \in [0 .. MaxTasks -> Task \cup {None}]
    BY <1>2, <1>5, Values DEF Release
  <2>2. nextThread' \in [Task -> Task \cup {None}]
    <3>1. nextThread' = nextThread
             \/ nextThread' = [t \in Task |->
                                 IF t \in Threads(leader[u]) /\ nextThread[t] = u
                                 THEN nextThread[u] ELSE nextThread[t]]
      BY <1>5 DEF Release
    <3> QED
      BY <1>2, <3>1
  <2> QED
    BY <1>2, <1>5, <2>1, <2>2 DEF Release
<1> QED
  BY <1>3, <1>4, <1>5

LEMMA WalkTypes == TypeInv /\ Walk => TypeInv'
<1> SUFFICES ASSUME TypeInv, Walk PROVE TypeInv'
  OBVIOUS
<1> USE DEF TypeInv, TypeOK
<1>0. UNCHANGED taskVars
  BY DEF Walk, Begin, NextProcess, FirstThread, Read, Truncate, NextThread, EndWalk, Dump,
         DumpDone, DumpFails, HandOn, Reset, unchangedBesides
<1>1. CASE Begin \/ NextProcess \/ FirstThread \/ Truncate \/ NextThread \/ EndWalk
  BY <1>0, <1>1, Values DEF Begin, NextProcess, FirstThread, Truncate, NextThread, EndWalk,
         unchangedBesides, taskVars, dumpVars
<1>2. CASE Read
  <2> DEFINE node == [self |-> thread, leader |-> process, real |-> parent[thread]]
  <2>1. node \in Node
    BY <1>2 DEF Read, Node
  <2>2. nodes' \in Seq(Node) /\ Len(nodes') = Len(nodes) + 1
    BY <1>2, <2>1 DEF Read
  <2> QED
    BY <1>0, <1>2, <2>2 DEF Read, unchangedBesides, taskVars, dumpVars
<1>3. CASE Dump
  <2> DEFINE end == Least(index + PerMessage, Len(nodes))
  <2>1. end \in index + 1 .. Len(nodes)
    BY <1>3 DEF Dump, Least
  <2>2. SubSeq(nodes, index + 1, end) \in Seq(Node)
    BY <2>1
  <2>3. received' \in Seq(Node)
    BY <1>3, <2>2 DEF Dump
  <2> QED
    BY <1>0, <1>3, <2>1, <2>3 DEF Dump, taskVars, walkVars
<1>4. CASE DumpDone
  BY <1>0, <1>4 DEF DumpDone, taskVars, dumpVars
<1>5. CASE DumpFails \/ HandOn
  <2>1. nodes' = <<>> /\ received' = <<>> /\ nodes' \in Seq(Node) /\ received' \in Seq(Node)
    BY <1>5 DEF DumpFails, HandOn, Reset
  <2>2. Len(nodes') = 0
    BY <2>1
  <2>3. pc' = "idle" /\ truncated' = FALSE /\ index' = 0 /\ before' = 0 /\ steady' = {}
        /\ UNCHANGED <<process, thread>>
    BY <1>5 DEF DumpFails, HandOn, Reset
  <2>4. Len(nodes') <= Capacity /\ index' \in 0 .. Len(nodes') /\ before' \in 0 .. MaxTasks
    BY <2>2, <2>3
  <2>5. pc' \notin {"first_thread", "read", "next_thread"}
    BY <2>3
  <2> QED
    BY <1>0, <2>1, <2>3, <2>4, <2>5 DEF taskVars
<1> QED
  BY <1>1, <1>2, <1>3, <1>4, <1>5 DEF Walk

LEMMA TypeStep == TypeInv /\ [Next]_vars => TypeInv'
<1>1. TypeInv /\ UNCHANGED vars => TypeInv'
  BY DEF TypeInv, TypeOK, vars, taskVars, walkVars, dumpVars
<1> QED
  BY <1>1, LifeTypes, WalkTypes DEF Next

\* No variable of the walk, of the dump or of the client ever leaves its range, and the
\* array of nodes is never written behind its end.
THEOREM TypeCorrect == Spec => []TypeOK
<1>1. TypeInv => TypeOK
  BY DEF TypeInv
<1> QED
  BY <1>1, TypeInit, TypeStep, PTL DEF Spec

----------------------------------------------------------------------------
(* The dump: a message takes up where the one before it ended.             *)

LEMMA Spliced ==
    ASSUME NEW S, NEW a \in Seq(S), NEW b \in Seq(S), NEW n \in Nat, n <= Len(b),
           Len(a) <= n, \A k \in 1 .. Len(a) : a[k] = b[k],
           NEW c, c = a \o SubSeq(b, Len(a) + 1, n)
    PROVE  Len(c) = n /\ \A k \in 1 .. n : c[k] = b[k]
<1> DEFINE d == SubSeq(b, Len(a) + 1, n)
<1>1. /\ d \in Seq(S) /\ Len(d) = n - Len(a)
      /\ \A k \in 1 .. n - Len(a) : d[k] = b[Len(a) + k]
  OBVIOUS
<1>2. /\ Len(c) = Len(a) + Len(d)
      /\ \A k \in 1 .. Len(a) : c[k] = a[k]
      /\ \A k \in Len(a) + 1 .. Len(a) + Len(d) : c[k] = d[k - Len(a)]
  BY <1>1
<1>3. ASSUME NEW k \in Len(a) + 1 .. n PROVE c[k] = b[k]
  <2>1. k - Len(a) \in 1 .. n - Len(a) /\ k \in Len(a) + 1 .. Len(a) + Len(d)
        /\ Len(a) + (k - Len(a)) = k
    BY <1>1
  <2> QED
    BY <1>1, <1>2, <2>1
<1> HIDE DEF d
<1>4. Len(c) = n
  BY <1>1, <1>2
<1>5. \A k \in 1 .. n : k \in 1 .. Len(a) \/ k \in Len(a) + 1 .. n
  OBVIOUS
<1> QED
  BY <1>2, <1>3, <1>4, <1>5

LEMMA DumpInit == Init => DumpInv
  BY DEF Init, DumpInv

LEMMA DumpStep == TypeInv /\ DumpInv /\ [Next]_vars => DumpInv'
<1> SUFFICES ASSUME TypeInv, DumpInv, [Next]_vars PROVE DumpInv'
  OBVIOUS
<1>1. CASE Life \/ UNCHANGED vars
  <2>1. UNCHANGED <<walkVars, dumpVars>>
    BY <1>1 DEF Life, Fork, Clone, Exit, Release, vars
  <2> QED
    BY <2>1 DEF DumpInv, walkVars, dumpVars
<1>2. CASE Begin \/ NextProcess \/ FirstThread \/ Read \/ Truncate \/ NextThread \/ EndWalk
  <2>1. pc \notin {"dump", "answered"} /\ pc' # "answered" /\ UNCHANGED dumpVars
    BY <1>2 DEF Begin, NextProcess, FirstThread, Read, Truncate, NextThread, EndWalk,
           unchangedBesides
  <2> QED
    BY <2>1 DEF DumpInv, dumpVars
<1>3. CASE Dump
  <2> DEFINE end == Least(index + PerMessage, Len(nodes))
  <2>1. end \in index + 1 .. Len(nodes) /\ index \in Nat
    BY <1>3 DEF Dump, Least, TypeInv, TypeOK
  <2>2. pc' = "dump" /\ nodes' = nodes /\ index' = end
        /\ received' = received \o SubSeq(nodes, Len(received) + 1, end)
    BY <1>3 DEF Dump, walkVars, DumpInv
  <2>3. Len(received') = end /\ \A k \in 1 .. end : received'[k] = nodes[k]
    <3> HIDE DEF end
    <3>1. nodes \in Seq(Node) /\ received \in Seq(Node) /\ Len(received) = index
          /\ \A k \in 1 .. Len(received) : received[k] = nodes[k]
      BY DEF TypeInv, TypeOK, DumpInv
    <3>2. end \in Nat /\ end <= Len(nodes) /\ Len(received) <= end
      BY <2>1, <3>1
    <3> QED
      BY <2>2, <3>1, <3>2, Spliced
  <2> HIDE DEF end
  <2> QED
    BY <2>2, <2>3 DEF DumpInv
<1>4. CASE DumpDone
  BY <1>4 DEF DumpInv, DumpDone, dumpVars
<1>5. CASE DumpFails \/ HandOn
  <2>1. pc' = "idle" /\ index' = 0 /\ received' = <<>>
    BY <1>5 DEF DumpFails, HandOn, Reset
  <2> QED
    BY <2>1 DEF DumpInv
<1> QED
  BY <1>1, <1>2, <1>3, <1>4, <1>5 DEF Next, Walk

\* However many nodes there are and however few fit a message, the client puts together
\* the tree that the walk has read.
THEOREM Whole == Spec => []AnswerWhole
<1>1. TypeInv /\ DumpInv => AnswerWhole
  <2> SUFFICES ASSUME TypeInv, DumpInv, pc = "answered" PROVE received = nodes
    BY DEF AnswerWhole
  <2>1. received \in Seq(Node) /\ nodes \in Seq(Node) /\ Len(received) = Len(nodes)
        /\ \A k \in 1 .. Len(nodes) : received[k] = nodes[k]
    BY DEF TypeInv, TypeOK, DumpInv
  <2> QED
    BY <2>1
<1> QED
  BY <1>1, TypeInit, TypeStep, DumpInit, DumpStep, PTL DEF Spec

----------------------------------------------------------------------------
(* The lists of the kernel.                                                *)

KernelInv == GroupInv /\ ListInv /\ KinInv /\ HistoryInv

LEMMA KernelInit == Init => KernelInv
<1> SUFFICES ASSUME Init PROVE KernelInv
  OBVIOUS
<1>1. GroupInv /\ KinInv /\ HistoryInv
  BY Values DEF Init, GroupInv, KinInv, HistoryInv
<1>2. Processes = {1} /\ nextProc[Kernel] = 1 /\ nextProc[1] = None
      /\ \A t \in Task : nextThread[t] = None
  BY Values DEF Init, Processes, Kernel
<1>3. \A t \in Task : t > born => nextProc[t] = None
  BY Values DEF Init, Kernel, Task
<1>4. Kernel < 1 /\ 1 # None /\ linked = {1}
  BY DEF Init, Kernel, None
<1>5. ListInv
  <2>1. \A u \in Processes \cup {Kernel}, p \in Processes : u < p =>
          nextProc[u] # None /\ nextProc[u] <= p
    BY <1>2, <1>4
  <2>2. \A u \in Processes \cup {Kernel} : nextProc[u] # None =>
          nextProc[u] \in Processes /\ u < nextProc[u]
    BY <1>2, <1>4
  <2> QED
    BY <1>2, <1>3, <1>4, <2>1, <2>2, Values DEF ListInv
<1> QED
  BY <1>1, <1>5 DEF KernelInv

\* What all the proofs below use of the types.
LEMMA Shapes ==
    ASSUME TypeInv
    PROVE  /\ born \in Nat /\ born >= 1 /\ born <= MaxTasks /\ 1 .. born \subseteq Task
           /\ leader \in [Task -> Task]
           /\ parent \in [Task -> Task \cup {Kernel}]
           /\ alive \subseteq linked /\ linked \subseteq Task /\ Processes \subseteq Task
           /\ nextProc \in [Task \cup {Kernel} -> Task \cup {None}]
           /\ nextThread \in [Task -> Task \cup {None}]
<1>1. nextProc \in [Task \cup {Kernel} -> Task \cup {None}]
  BY Values DEF TypeInv, TypeOK
<1>2. born \in 1 .. MaxTasks /\ MaxTasks \in Nat
  BY DEF TypeInv, TypeOK, Task
<1>3. born \in Nat /\ born >= 1 /\ born <= MaxTasks /\ 1 .. born \subseteq Task
  BY <1>2 DEF Task
<1> QED
  BY <1>1, <1>3 DEF TypeInv, TypeOK, Processes

LEMMA Newborn ==
    ASSUME TypeInv, born < MaxTasks
    PROVE  born + 1 \in Task /\ born + 1 \in Nat /\ born \in Nat /\ \A u \in 1 .. born : u < born + 1
<1>1. born \in Nat /\ born + 1 <= MaxTasks /\ MaxTasks \in Nat
  BY Shapes, Values
<1> QED
  BY <1>1 DEF Task

\* A new task is younger than all others.
LEMMA ForkKernel ==
    ASSUME TypeInv, KernelInv, NEW mother \in Task, Fork(mother)
    PROVE  KernelInv'
<1> DEFINE t == born + 1
<1>0. /\ t = born + 1 /\ t \in Task /\ t \in Nat /\ born \in Nat
      /\ \A u \in 1 .. born : u < t
      /\ born' = t /\ mother \in alive
      /\ leader' = [leader EXCEPT ![t] = t]
      /\ parent' = [parent EXCEPT ![t] = mother]
      /\ alive' = alive \cup {t} /\ linked' = linked \cup {t}
      /\ nextThread' = nextThread /\ before' = before /\ steady' = steady
  <2>1. t \in Task /\ t \in Nat /\ born \in Nat /\ \A u \in 1 .. born : u < t
    BY Newborn DEF Fork
  <2> QED
    BY <2>1 DEF Fork
<1> PICK last \in Processes :
      nextProc[last] = None /\ nextProc' = [nextProc EXCEPT ![last] = t]
  BY DEF Fork
<1> HIDE DEF t
<1>1. /\ linked \subseteq 1 .. born /\ 1 \in alive /\ linked \subseteq Nat
      /\ t \notin 1 .. born /\ \A u \in linked : u < t
      /\ \A u \in 1 .. born : leader'[u] = leader[u] /\ parent'[u] = parent[u]
      /\ leader'[t] = t /\ parent'[t] = mother
      /\ \A u \in 1 .. born : leader[u] \in 1 .. u /\ leader[leader[u]] = leader[u]
      /\ \A u \in 1 .. born : leader[u] \in 1 .. born
      /\ \A u \in linked : leader[u] \in linked
  BY <1>0, Shapes DEF KernelInv, GroupInv
<1>2. Processes' = Processes \cup {t} /\ Processes \subseteq linked
  BY <1>0, <1>1 DEF Processes
<1>3. GroupInv'
  <2>1. \A u \in 1 .. t : u \in 1 .. born \/ u = t
    BY <1>0
  <2>2. t \in 1 .. t /\ 1 .. born \subseteq 1 .. t
    BY <1>0
  <2> QED
    BY <1>0, <1>1, <2>1, <2>2 DEF GroupInv
<1>4. ListInv'
  <2>1. \A p \in Processes : p <= last /\ nextProc'[p] = IF p = last THEN t ELSE nextProc[p]
    BY <1>1, <1>2, Shapes DEF KernelInv, ListInv
  <2>2. last # Kernel /\ nextProc'[Kernel] = nextProc[Kernel] /\ Kernel < t /\ Kernel < last
        /\ t # None
    BY <1>0, Shapes, Values DEF Kernel
  <2>3. nextProc'[t] = None /\ nextThread[t] = None /\ last # t /\ last < t
    BY <1>0, <1>1, <1>2, Shapes DEF KernelInv, ListInv
  <2>4. ASSUME NEW u \in Processes' \cup {Kernel}, NEW p \in Processes', u < p
        PROVE  nextProc'[u] # None /\ nextProc'[u] <= p
    <3>1. CASE p = t
      <4>1. u # t
        BY <1>0, <3>1, <2>4
      <4>2. CASE u = last
        BY <1>0, <2>1, <2>2, <3>1, <4>2
      <4>3. CASE u # last
        <5>1. u < last /\ u \in Processes \cup {Kernel} /\ nextProc'[u] = nextProc[u]
          BY <1>1, <1>2, <2>1, <2>2, <4>1, <4>3
        <5>2. nextProc[u] # None /\ nextProc[u] <= last
          BY <5>1 DEF KernelInv, ListInv
        <5> QED
          BY <1>0, <1>1, <1>2, <2>3, <3>1, <5>1, <5>2, Shapes, Values
      <4> QED
        BY <4>2, <4>3
    <3>2. CASE p # t
      <4>1. p \in Processes /\ p <= last /\ p < t /\ p \in Nat
        BY <1>1, <1>2, <2>1, <3>2
      <4>2. u # t /\ u # last /\ u \in Processes \cup {Kernel}
        BY <1>0, <1>1, <1>2, <2>4, <4>1
      <4>3. nextProc'[u] = nextProc[u]
        BY <2>1, <2>2, <4>2
      <4> QED
        BY <2>4, <4>1, <4>2, <4>3 DEF KernelInv, ListInv
    <3> QED
      BY <3>1, <3>2
  <2>5. ASSUME NEW u \in Processes' \cup {Kernel}, nextProc'[u] # None
        PROVE  nextProc'[u] \in Processes' /\ u < nextProc'[u]
    <3>1. u # t
      BY <2>3, <2>5
    <3>2. CASE u = last
      BY <1>2, <2>1, <2>3, <3>2
    <3>3. CASE u # last
      BY <1>2, <2>1, <2>2, <2>5, <3>1, <3>3 DEF KernelInv, ListInv
    <3> QED
      BY <3>2, <3>3
  <2>6. \A u \in linked : leader'[u] = leader[u] /\ leader[u] # t /\ u # t
    BY <1>1
  <2>7. \A u, v \in linked' : u < v /\ leader'[u] = leader'[v] =>
          nextThread'[u] # None /\ nextThread'[u] <= v
    BY <1>0, <1>1, <2>6 DEF KernelInv, ListInv
  <2>8. \A u \in linked' : nextThread'[u] # None =>
          nextThread'[u] \in Threads(leader[u])' /\ u < nextThread'[u]
    BY <1>0, <1>1, <2>3, <2>6 DEF KernelInv, ListInv, Threads
  <2>9. \A u \in linked' : nextThread'[u] # None =>
          nextThread'[u] \in Threads(leader[u])' /\ leader'[u] = leader[u]
    BY <1>0, <2>3, <2>6, <2>8
  <2>10. \A u \in Task : u > t => nextProc'[u] = None /\ nextThread'[u] = None
    BY <1>0, <1>1, <1>2, Shapes, Values DEF KernelInv, ListInv
  <2> QED
    BY <1>0, <2>4, <2>5, <2>7, <2>8, <2>9, <2>10 DEF ListInv, Threads
<1>5. KinInv'
  <2>1. mother \in linked /\ leader[mother] < t
    BY <1>0, <1>1, Shapes
  <2>2. \A u \in linked : parent[u] # Kernel =>
          parent[u] \in alive /\ leader[parent[u]] < leader[u]
    BY DEF KernelInv, KinInv
  <2> QED
    BY <1>0, <1>1, <2>1, <2>2, Shapes DEF KinInv
<1>6. HistoryInv'
  BY <1>0, <1>1 DEF KernelInv, HistoryInv
<1> QED
  BY <1>3, <1>4, <1>5, <1>6 DEF KernelInv

LEMMA CloneKernel ==
    ASSUME TypeInv, KernelInv, NEW sibling \in Task, Clone(sibling)
    PROVE  KernelInv'
<1> DEFINE t == born + 1
           g == leader[sibling]
<1>0. /\ t = born + 1 /\ t \in Task /\ t \in Nat /\ born \in Nat
      /\ \A u \in 1 .. born : u < t
      /\ born' = t /\ sibling \in alive
      /\ leader' = [leader EXCEPT ![t] = g]
      /\ parent' = [parent EXCEPT ![t] = parent[sibling]]
      /\ alive' = alive \cup {t} /\ linked' = linked \cup {t}
      /\ nextProc' = nextProc /\ before' = before /\ steady' = steady
  <2>1. t \in Task /\ t \in Nat /\ born \in Nat /\ \A u \in 1 .. born : u < t
    BY Newborn DEF Clone
  <2> QED
    BY <2>1 DEF Clone
<1> PICK last \in Threads(g) :
      nextThread[last] = None /\ nextThread' = [nextThread EXCEPT ![last] = t]
  BY DEF Clone
<1> HIDE DEF t
<1>1. /\ linked \subseteq 1 .. born /\ 1 \in alive /\ linked \subseteq Nat
      /\ t \notin 1 .. born /\ \A u \in linked : u < t
      /\ \A u \in 1 .. born : leader'[u] = leader[u] /\ parent'[u] = parent[u]
      /\ leader'[t] = g /\ parent'[t] = parent[sibling]
      /\ \A u \in 1 .. born : leader[u] \in 1 .. u /\ leader[leader[u]] = leader[u]
      /\ \A u \in 1 .. born : leader[u] \in 1 .. born
      /\ \A u \in linked : leader[u] \in linked
  BY <1>0, Shapes DEF KernelInv, GroupInv
<1>2. /\ sibling \in linked /\ g \in linked /\ g \in 1 .. born /\ leader[g] = g /\ g < t
      /\ g # t /\ last \in linked /\ leader[last] = g
  BY <1>0, <1>1, Shapes DEF Threads
<1>3. Processes' = Processes /\ Processes \subseteq linked
  BY <1>0, <1>1, <1>2 DEF Processes
<1>4. GroupInv'
  <2>1. \A u \in 1 .. t : u \in 1 .. born \/ u = t
    BY <1>0
  <2>2. g \in 1 .. t /\ 1 .. born \subseteq 1 .. t /\ t \in 1 .. t
    BY <1>0, <1>2
  <2>3. leader'[leader'[t]] = leader'[t]
    BY <1>1, <1>2
  <2> QED
    BY <1>0, <1>1, <1>2, <2>1, <2>2, <2>3 DEF GroupInv
<1>5. ListInv'
  <2>1. \A u \in Threads(g) :
          u <= last /\ nextThread'[u] = IF u = last THEN t ELSE nextThread[u]
    BY <1>1, <1>2, Shapes DEF KernelInv, ListInv, Threads
  <2>2. \A u \in linked : leader[u] # g => nextThread'[u] = nextThread[u]
    BY <1>1, <1>2, Shapes
  <2>3. /\ nextProc[t] = None /\ nextThread'[t] = None /\ last # t /\ last < t
        /\ t # None
    BY <1>0, <1>1, <1>2, Shapes, Values DEF KernelInv, ListInv
  <2>4. \A u \in linked : leader'[u] = leader[u] /\ u # t
    BY <1>1
  <2>5. ASSUME NEW u \in linked', NEW v \in linked', u < v, leader'[u] = leader'[v]
        PROVE  nextThread'[u] # None /\ nextThread'[u] <= v
    <3>1. u \in linked /\ u # t
      BY <1>0, <1>1, <2>5
    <3>2. CASE v = t
      <4>1. u \in Threads(g)
        BY <1>1, <2>4, <2>5, <3>1, <3>2 DEF Threads
      <4>2. CASE u = last
        BY <1>0, <2>1, <2>3, <3>2, <4>1, <4>2
      <4>3. CASE u # last
        <5>1. u < last /\ nextThread'[u] = nextThread[u]
          BY <1>1, <1>2, <2>1, <3>1, <4>1, <4>3
        <5>2. nextThread[u] # None /\ nextThread[u] <= last
          BY <1>2, <3>1, <4>1, <5>1 DEF KernelInv, ListInv, Threads
        <5> QED
          BY <1>0, <1>1, <1>2, <2>3, <3>1, <3>2, <5>1, <5>2, Shapes, Values
      <4> QED
        BY <4>2, <4>3
    <3>3. CASE v # t
      <4>1. v \in linked /\ leader[u] = leader[v]
        BY <1>0, <2>4, <2>5, <3>1, <3>3
      <4>2. u # last
        <5>1. u = last => v \in Threads(g)
          BY <1>2, <4>1 DEF Threads
        <5>2. u = last => v <= u
          BY <2>1, <5>1
        <5>3. u \in Nat /\ v \in Nat
          BY <1>1, <3>1, <4>1
        <5> QED
          BY <2>5, <5>2, <5>3
      <4>3. nextThread'[u] = nextThread[u]
        BY <2>1, <2>2, <3>1, <4>2 DEF Threads
      <4> QED
        BY <2>5, <3>1, <4>1, <4>3 DEF KernelInv, ListInv
    <3> QED
      BY <3>2, <3>3
  <2>6. ASSUME NEW u \in linked', nextThread'[u] # None
        PROVE  nextThread'[u] \in Threads(leader[u])' /\ u < nextThread'[u]
    <3>1. u \in linked /\ leader'[u] = leader[u]
      BY <1>0, <2>3, <2>4, <2>6
    <3>2. CASE u = last
      BY <1>0, <1>1, <1>2, <2>1, <2>3, <2>4, <3>1, <3>2 DEF Threads
    <3>3. CASE u # last
      <4>1. nextThread'[u] = nextThread[u]
        BY <2>1, <2>2, <3>1, <3>3 DEF Threads
      <4> QED
        BY <1>0, <2>4, <2>6, <3>1, <4>1 DEF KernelInv, ListInv, Threads
    <3> QED
      BY <3>2, <3>3
  <2>7. \A u \in Task : u > t => nextProc'[u] = None /\ nextThread'[u] = None
    BY <1>0, <1>1, <1>2, Shapes, Values DEF KernelInv, ListInv
  <2>8. \A u \in Processes' \cup {Kernel}, p \in Processes' : u < p =>
          nextProc'[u] # None /\ nextProc'[u] <= p
    BY <1>0, <1>3 DEF KernelInv, ListInv
  <2>9. \A u \in Processes' \cup {Kernel} : nextProc'[u] # None =>
          nextProc'[u] \in Processes' /\ u < nextProc'[u]
    BY <1>0, <1>3 DEF KernelInv, ListInv
  <2> QED
    BY <1>0, <2>5, <2>6, <2>7, <2>8, <2>9 DEF ListInv, Threads
<1>6. KinInv'
  <2>1. \A u \in linked : parent[u] # Kernel =>
          parent[u] \in alive /\ leader[parent[u]] < leader[u]
    BY DEF KernelInv, KinInv
  <2> QED
    BY <1>0, <1>1, <1>2, <2>1, Shapes DEF KinInv
<1>7. HistoryInv'
  BY <1>0, <1>1 DEF KernelInv, HistoryInv
<1> QED
  BY <1>4, <1>5, <1>6, <1>7 DEF KernelInv

\* The children of one who exits pass to a thread of the same process, or to init.
LEMMA ExitKernel ==
    ASSUME TypeInv, KernelInv, NEW t \in Task, Exit(t)
    PROVE  KernelInv'
<1>1. /\ UNCHANGED <<born, leader, linked, nextProc, nextThread, before, steady>>
      /\ t \in alive /\ t # 1 /\ alive' = alive \ {t}
  BY DEF Exit
<1> PICK reaper \in alive \ {t} :
      /\ reaper = 1 \/ leader[reaper] = leader[t]
      /\ parent' = [u \in Task |->
                      IF u \in linked /\ parent[u] = t THEN reaper ELSE parent[u]]
  <2>1. 1 \in alive \ {t}
    BY <1>1 DEF KernelInv, GroupInv
  <2> QED
    BY <2>1 DEF Exit, Threads
<1>2. GroupInv' /\ ListInv' /\ HistoryInv'
  BY <1>1 DEF KernelInv, GroupInv, ListInv, HistoryInv, Processes, Threads
<1>3. ASSUME NEW u \in linked, parent'[u] # Kernel
      PROVE  parent'[u] \in alive' /\ leader[parent'[u]] < leader[u]
  <2>1. parent[u] # Kernel => parent[u] \in alive /\ leader[parent[u]] < leader[u]
    BY DEF KernelInv, KinInv
  <2>2. CASE parent[u] = t
    <3>1. parent'[u] = reaper /\ leader[t] < leader[u]
      BY <2>1, <2>2, Shapes, Values
    <3>2. leader[1] = 1 /\ leader[t] \in Nat /\ leader[t] >= 1 /\ leader[u] \in Nat
      <4>1. 1 \in 1 .. born /\ t \in 1 .. born /\ u \in 1 .. born
        BY <1>1, Shapes DEF KernelInv, GroupInv
      <4> QED
        BY <4>1 DEF KernelInv, GroupInv
    <3> QED
      BY <1>1, <3>1, <3>2
  <2>3. CASE parent[u] # t
    BY <1>1, <1>3, <2>1, <2>3, Shapes
  <2> QED
    BY <2>2, <2>3
<1>4. KinInv'
  BY <1>1, <1>3 DEF KinInv
<1> QED
  BY <1>2, <1>4 DEF KernelInv

\* Who is released is taken out of the list: its predecessor now points where it does.
LEMMA ReleaseKernel ==
    ASSUME TypeInv, KernelInv, NEW t \in Task, Release(t)
    PROVE  /\ KernelInv'
           /\ nextProc'[t] = nextProc[t] /\ nextThread'[t] = nextThread[t]
           /\ \A u \in Task \ linked :
                nextProc'[u] = nextProc[u] /\ nextThread'[u] = nextThread[u]
<1>1. /\ UNCHANGED <<born, leader, parent, alive, before>>
      /\ t \in linked /\ t \notin alive /\ t # 1
      /\ leader[t] = t => Threads(t) = {t}
      /\ linked' = linked \ {t} /\ steady' = steady \ {t}
  BY DEF Release, KernelInv, GroupInv
<1>2. /\ linked \subseteq 1 .. born /\ 1 \in alive /\ linked \subseteq Nat
      /\ \A u \in linked : leader[u] \in linked /\ leader[leader[u]] = leader[u]
  BY Shapes DEF KernelInv, GroupInv
<1>3. GroupInv'
  BY <1>1, <1>2 DEF KernelInv, GroupInv, Threads
<1>4. KinInv' /\ HistoryInv'
  BY <1>1 DEF KernelInv, KinInv, HistoryInv
<1>5. CASE leader[t] = t
  <2>1. /\ nextThread' = nextThread
        /\ \A u \in Processes \cup {Kernel} :
             nextProc'[u] = IF nextProc[u] = t THEN nextProc[t] ELSE nextProc[u]
        /\ \A u \in Task \ Processes : nextProc'[u] = nextProc[u]
    BY <1>1, <1>5, Shapes, Values DEF Release
  <2>2. /\ t \in Processes /\ Processes' = Processes \ {t} /\ Processes \subseteq Nat
        /\ Kernel \in Nat /\ t # Kernel
    BY <1>1, <1>2, <1>5, Shapes, Values DEF Processes, Kernel
  <2>3. nextProc[t] # t /\ t \in Nat
    BY <2>2, Values DEF KernelInv, ListInv
  <2>4. ASSUME NEW u \in Processes' \cup {Kernel}, NEW p \in Processes', u < p
        PROVE  nextProc'[u] # None /\ nextProc'[u] <= p
    <3>1. nextProc[u] # None /\ nextProc[u] <= p /\ u \in Processes \cup {Kernel} /\ p # t
      BY <2>2, <2>4 DEF KernelInv, ListInv
    <3>2. CASE nextProc[u] = t
      <4>1. t < p
        BY <2>2, <2>4, <3>1, <3>2
      <4> QED
        BY <2>1, <2>2, <2>4, <3>1, <3>2, <4>1 DEF KernelInv, ListInv
    <3>3. CASE nextProc[u] # t
      BY <2>1, <3>1, <3>3
    <3> QED
      BY <3>2, <3>3
  <2>5. ASSUME NEW u \in Processes' \cup {Kernel}, nextProc'[u] # None
        PROVE  nextProc'[u] \in Processes' /\ u < nextProc'[u]
    <3>1. u \in Processes \cup {Kernel} /\ u \in Nat
      BY <2>2
    <3>2. CASE nextProc[u] = t
      <4>1. nextProc'[u] = nextProc[t] /\ u < t /\ nextProc[t] \in Processes /\ t < nextProc[t]
        BY <2>1, <2>2, <2>5, <3>1, <3>2, Values DEF KernelInv, ListInv
      <4>2. nextProc[t] \in Nat /\ nextProc[t] \in Processes'
        BY <2>2, <2>3, <4>1
      <4> QED
        BY <2>3, <3>1, <4>1, <4>2
    <3>3. CASE nextProc[u] # t
      BY <2>1, <2>2, <2>5, <3>1, <3>3 DEF KernelInv, ListInv
    <3> QED
      BY <3>2, <3>3
  <2>6. \A u \in linked' : leader[u] # t
    BY <1>1, <1>5 DEF Threads
  <2>7. \A u \in linked' : nextThread'[u] # None =>
          nextThread'[u] \in Threads(leader[u])' /\ u < nextThread'[u]
    BY <1>1, <1>5, <2>1, <2>6 DEF KernelInv, ListInv, Threads
  <2>8. \A u, v \in linked' : u < v /\ leader[u] = leader[v] =>
          nextThread'[u] # None /\ nextThread'[u] <= v
    BY <1>1, <2>1 DEF KernelInv, ListInv
  <2>9. \A u \in Task : u > born => nextProc'[u] = None /\ nextThread'[u] = None
    BY <1>2, <2>1, <2>2, Shapes DEF KernelInv, ListInv, Processes
  <2>10. ListInv'
    BY <1>1, <2>4, <2>5, <2>7, <2>8, <2>9 DEF ListInv, Threads
  <2> QED
    BY <1>3, <1>4, <2>1, <2>2, <2>3, <2>10 DEF KernelInv, Processes
<1>6. CASE leader[t] # t
  <2> DEFINE g == leader[t]
  <2>1. /\ nextProc' = nextProc
        /\ \A u \in Threads(g) :
             nextThread'[u] = IF nextThread[u] = t THEN nextThread[t] ELSE nextThread[u]
        /\ \A u \in Task \ Threads(g) : nextThread'[u] = nextThread[u]
    BY <1>1, <1>6, Shapes, Values DEF Release, Threads
  <2>2. Processes' = Processes /\ t \in Threads(g) /\ \A u : Threads(u) \subseteq Nat
    BY <1>1, <1>2, <1>6 DEF Processes, Threads
  <2>3. nextThread[t] # t /\ t \in Nat
    BY <1>1, <1>2, Values DEF KernelInv, ListInv
  <2>4. ASSUME NEW u \in linked', NEW v \in linked', u < v, leader[u] = leader[v]
        PROVE  nextThread'[u] # None /\ nextThread'[u] <= v
    <3>1. u \in linked /\ v \in linked /\ u # t /\ v # t /\ nextThread[u] # None
          /\ nextThread[u] <= v
      BY <1>1, <2>4 DEF KernelInv, ListInv
    <3>2. nextThread[u] # None => nextThread[u] \in Threads(leader[u])
      BY <3>1 DEF KernelInv, ListInv
    <3>3. CASE nextThread[u] = t
      <4>1. leader[u] = g /\ u \in Threads(g) /\ t <= v
        BY <3>1, <3>2, <3>3 DEF Threads
      <4>3. t < v
        BY <1>2, <2>3, <3>1, <4>1
      <4>2. nextThread'[u] = nextThread[t]
        BY <2>1, <3>3, <4>1
      <4> QED
        BY <1>1, <2>4, <3>1, <4>1, <4>2, <4>3 DEF KernelInv, ListInv
    <3>4. CASE nextThread[u] # t
      <4>1. nextThread'[u] = nextThread[u]
        BY <1>2, <2>1, <3>1, <3>4, Shapes DEF Threads
      <4> QED
        BY <3>1, <4>1
    <3> QED
      BY <3>3, <3>4
  <2>5. ASSUME NEW u \in linked', nextThread'[u] # None
        PROVE  /\ nextThread'[u] \in linked' /\ leader[nextThread'[u]] = leader[u]
               /\ u < nextThread'[u]
    <3>1. u \in linked /\ u # t /\ u \in Nat
      BY <1>1, <1>2
    <3>2. CASE nextThread[u] = t
      <4>1. t \in Threads(leader[u]) /\ u < t
        BY <3>1, <3>2, <1>1, <1>2, Shapes, Values DEF KernelInv, ListInv
      <4>2. leader[u] = g /\ u \in Threads(g)
        BY <3>1, <4>1 DEF Threads
      <4>3. nextThread'[u] = nextThread[t] /\ nextThread[t] \in Threads(g) /\ t < nextThread[t]
        BY <1>1, <2>1, <2>5, <3>2, <4>2 DEF KernelInv, ListInv
      <4>4. nextThread[t] \in Nat /\ nextThread[t] \in linked' /\ leader[nextThread[t]] = g
        BY <1>1, <1>2, <2>3, <4>3 DEF Threads
      <4> QED
        BY <2>3, <3>1, <4>1, <4>2, <4>3, <4>4
    <3>3. CASE nextThread[u] # t
      <4>1. nextThread'[u] = nextThread[u]
        BY <1>2, <2>1, <3>1, <3>3, Shapes DEF Threads
      <4> QED
        BY <1>1, <2>5, <3>1, <3>3, <4>1 DEF KernelInv, ListInv, Threads
    <3> QED
      BY <3>2, <3>3
  <2>6. \A u \in Task : u > born => nextProc'[u] = None /\ nextThread'[u] = None
    <3>1. \A u \in Task : u > born => u \notin Threads(g)
      BY <1>2, Shapes, Values DEF Threads
    <3> QED
      BY <2>1, <3>1 DEF KernelInv, ListInv
  <2>7. /\ \A u \in Processes' \cup {Kernel}, p \in Processes' : u < p =>
             nextProc'[u] # None /\ nextProc'[u] <= p
        /\ \A u \in Processes' \cup {Kernel} : nextProc'[u] # None =>
             nextProc'[u] \in Processes' /\ u < nextProc'[u]
    BY <2>1, <2>2 DEF KernelInv, ListInv
  <2>8. ListInv'
    BY <1>1, <2>4, <2>5, <2>6, <2>7 DEF ListInv, Threads
  <2> QED
    BY <1>3, <1>4, <2>1, <2>2, <2>3, <2>8 DEF KernelInv, Threads
<1> QED
  BY <1>5, <1>6

LEMMA KernelStep == TypeInv /\ KernelInv /\ [Next]_vars => KernelInv'
<1> SUFFICES ASSUME TypeInv, KernelInv, [Next]_vars PROVE KernelInv'
  OBVIOUS
<1>1. CASE Life
  BY <1>1, ForkKernel, CloneKernel, ExitKernel, ReleaseKernel DEF Life
<1>2. ASSUME UNCHANGED taskVars PROVE (GroupInv /\ ListInv /\ KinInv)'
  BY <1>2 DEF taskVars, KernelInv, GroupInv, ListInv, KinInv, Processes, Threads
<1>3. CASE Begin
  <2>1. before' = born /\ steady' = linked /\ UNCHANGED taskVars
    BY <1>3 DEF Begin
  <2>2. linked = {t \in linked : t <= born} /\ born \in 0 .. born
    <3>1. \A t \in linked : t <= born
      BY DEF KernelInv, GroupInv
    <3> QED
      BY <3>1, Shapes
  <2>3. HistoryInv'
    BY <2>1, <2>2 DEF taskVars, HistoryInv
  <2> QED
    BY <1>2, <2>1, <2>3 DEF KernelInv
<1>4. CASE DumpFails \/ HandOn
  <2>1. before' = 0 /\ steady' = {} /\ UNCHANGED taskVars
    BY <1>4 DEF DumpFails, HandOn, Reset
  <2>2. {t \in linked : t <= 0} = {} /\ 0 \in 0 .. born
    <3>1. \A t \in linked : ~(t <= 0)
      BY DEF KernelInv, GroupInv
    <3> QED
      BY <3>1, Shapes
  <2>3. HistoryInv'
    BY <2>1, <2>2 DEF taskVars, HistoryInv
  <2> QED
    BY <1>2, <2>1, <2>3 DEF KernelInv
<1>5. CASE \/ NextProcess \/ FirstThread \/ Read \/ Truncate \/ NextThread \/ EndWalk
           \/ Dump \/ DumpDone \/ UNCHANGED vars
  <2>1. UNCHANGED <<taskVars, before, steady>>
    BY <1>5 DEF NextProcess, FirstThread, Read, Truncate, NextThread, EndWalk, Dump,
                DumpDone, unchangedBesides, vars
  <2>2. HistoryInv'
    BY <2>1 DEF taskVars, HistoryInv, KernelInv
  <2> QED
    BY <1>2, <2>1, <2>2 DEF KernelInv
<1> QED
  BY <1>1, <1>3, <1>4, <1>5 DEF Next, Walk

----------------------------------------------------------------------------
(* Where the walk may stand.                                               *)

\* On the lists or off them, the pointers lead on and past nothing that must be read.
LEMMA ProcLeads ==
    ASSUME TypeInv, KernelInv, NEW Gone \in SUBSET Task, GoneInv(Gone), PlaceInv(Gone)
    PROVE  /\ nextProc[process] # None =>
                /\ nextProc[process] \in linked \cup Gone
                /\ leader[nextProc[process]] = nextProc[process]
                /\ process < nextProc[process]
           /\ \A p \in Processes : process < p =>
                IF nextProc[process] # None THEN nextProc[process] <= p ELSE before < p
<1>1. CASE process \in Processes \cup {Kernel}
  BY <1>1, Shapes DEF KernelInv, ListInv, Processes
<1>2. CASE process \in Gone /\ leader[process] = process
  BY <1>2 DEF GoneInv
<1> QED
  BY <1>1, <1>2 DEF PlaceInv, Processes

LEMMA ThreadLeads ==
    ASSUME TypeInv, KernelInv, NEW Gone \in SUBSET Task, GoneInv(Gone),
           NEW t \in linked \cup Gone
    PROVE  /\ nextThread[t] # None =>
                /\ nextThread[t] \in linked \cup Gone
                /\ leader[nextThread[t]] = leader[t] /\ t < nextThread[t]
           /\ \A v \in linked : t < v /\ leader[t] = leader[v] /\ v <= before =>
                nextThread[t] # None /\ nextThread[t] <= v
<1>1. CASE t \in linked
  BY <1>1 DEF KernelInv, ListInv, Threads
<1>2. CASE t \in Gone
  BY <1>2 DEF GoneInv
<1> QED
  BY <1>1, <1>2

\* What the walk may stand on is a task, and is not older than the leader of its process.
LEMMA PlaceValues ==
    ASSUME TypeInv, KernelInv, NEW Gone \in SUBSET Task, GoneInv(Gone), PlaceInv(Gone)
    PROVE  /\ born \in Nat /\ before \in 0 .. born /\ linked \subseteq 1 .. born
           /\ \A t \in linked \cup Gone : t \in 1 .. born
           /\ \A t \in 1 .. born : leader[t] \in 1 .. t /\ leader[leader[t]] = leader[t]
           /\ \A t \in linked : leader[t] \in Processes
           /\ process \in 0 .. born
           /\ pc \in {"first_thread", "read", "next_thread"} => process \in 1 .. born
           /\ pc \in {"read", "next_thread"} =>
                thread \in 1 .. born /\ leader[thread] = process /\ process <= thread
<1>1. /\ born \in Nat /\ before \in 0 .. born /\ linked \subseteq 1 .. born
      /\ Gone \subseteq 1 .. born
      /\ \A t \in 1 .. born : leader[t] \in 1 .. t /\ leader[leader[t]] = leader[t]
  BY Shapes DEF KernelInv, HistoryInv, GroupInv, GoneInv
<1>2. \A t \in linked : leader[t] \in Processes
  BY <1>1 DEF KernelInv, GroupInv, Processes
<1>3. process = Kernel \/ process \in 1 .. born
  BY <1>1 DEF PlaceInv
<1>4. process \in 0 .. born
  BY <1>1, <1>3 DEF Kernel
<1>5. pc \in {"read", "next_thread"} => thread \in 1 .. born /\ leader[thread] = process
  BY <1>1 DEF PlaceInv
<1>6. pc \in {"first_thread", "read", "next_thread"} => process \in 1 .. born
  BY <1>3 DEF PlaceInv
<1> QED
  BY <1>1, <1>2, <1>4, <1>5, <1>6

----------------------------------------------------------------------------
(* The walk, while tasks come and go.                                      *)

\* What a step of the kernel leaves alone: the walk, and the groups of the tasks there are.
Grown ==
    /\ UNCHANGED <<walkVars, dumpVars, before>> /\ steady' \subseteq steady
    /\ born <= born'
    /\ \A t \in 1 .. born : leader'[t] = leader[t]
    /\ \A t \in linked' : t \in linked \/ t \in born + 1 .. born'

LEMMA LifeGrown == TypeInv /\ KernelInv /\ Life => Grown
<1> SUFFICES ASSUME TypeInv, KernelInv, Life PROVE Grown
  OBVIOUS
<1>1. PICK t \in Task : Fork(t) \/ Clone(t) \/ Exit(t) \/ Release(t)
  BY DEF Life
<1>2. CASE Fork(t) \/ Clone(t)
  <2>1. /\ UNCHANGED <<walkVars, dumpVars, before, steady>>
        /\ born' = born + 1 /\ linked' = linked \cup {born + 1}
        /\ \E g : leader' = [leader EXCEPT ![born + 1] = g]
    BY <1>2 DEF Fork, Clone
  <2> QED
    BY <2>1, Shapes DEF Grown
<1>3. CASE Exit(t) \/ Release(t)
  BY <1>3, Shapes DEF Exit, Release, Grown
<1> QED
  BY <1>1, <1>2, <1>3

LEMMA GoneLife ==
    ASSUME TypeInv, KernelInv, Life,
           NEW Gone \in SUBSET Task, GoneInv(Gone), PlaceInv(Gone)
    PROVE  \E Gone2 \in SUBSET Task : GoneInv(Gone2)' /\ PlaceInv(Gone2)'
<1>1. Grown /\ Gone \subseteq 1 .. born
  BY LifeGrown DEF GoneInv
<1>2. ASSUME NEW Gone2 \in SUBSET Task, linked \cup Gone \subseteq linked' \cup Gone2
      PROVE  PlaceInv(Gone2)'
  BY <1>1, <1>2, Shapes DEF Grown, PlaceInv, walkVars, KernelInv, GroupInv
<1>3. PICK t \in Task : Fork(t) \/ Clone(t) \/ Exit(t) \/ Release(t)
  BY DEF Life
<1>4. CASE Fork(t) \/ Clone(t) \/ Exit(t)
  <2>1. linked \subseteq linked' /\ \A u \in Gone : nextProc'[u] = nextProc[u]
                                                  /\ nextThread'[u] = nextThread[u]
    <3>1. CASE Fork(t) \/ Clone(t)
      <4>1. \A u \in Gone : u \notin linked
        BY DEF GoneInv
      <4> QED
        BY <3>1, <4>1, Shapes DEF Fork, Clone, Processes, Threads
    <3>2. CASE Exit(t)
      BY <3>2 DEF Exit
    <3> QED
      BY <1>4, <3>1, <3>2
  <2>2. GoneInv(Gone)'
    <3>1. Gone \subseteq (1 .. born') \ linked' /\ linked \cup Gone \subseteq linked' \cup Gone
          /\ linked \cup Gone \subseteq 1 .. born
      <4>1. Gone \cap linked = {} /\ Gone \subseteq 1 .. born /\ linked \subseteq 1 .. born
        BY DEF GoneInv, KernelInv, GroupInv
      <4>2. Gone \subseteq 1 .. born' /\ Gone \cap linked' = {}
        <5>1. born' \in Nat /\ born \in Nat /\ born <= born'
          BY <1>1, LifeTypes, Shapes, Values DEF Grown, TypeInv, TypeOK
        <5>2. \A u \in linked' : u \in linked \/ u > born
          BY <1>1, <5>1 DEF Grown
        <5>3. ASSUME NEW u \in Gone PROVE u \in 1 .. born' /\ u \notin linked'
          <6>1. u \in 1 .. born /\ u \notin linked
            BY <4>1
          <6> QED
            BY <5>1, <5>2, <6>1
        <5> QED
          BY <5>3
      <4> QED
        BY <2>1, <4>1, <4>2
    <3>2. ASSUME NEW u \in Gone, leader'[u] = u, nextProc'[u] # None
          PROVE  /\ nextProc'[u] \in linked' \cup Gone
                 /\ leader'[nextProc'[u]] = nextProc'[u] /\ u < nextProc'[u]
      BY <1>1, <2>1, <3>1, <3>2 DEF GoneInv, Grown
    <3>3. ASSUME NEW u \in Gone, leader'[u] = u, NEW p \in Processes', u < p
          PROVE  IF nextProc'[u] # None THEN nextProc'[u] <= p ELSE before' < p
      <4>1. leader[u] = u /\ before' = before /\ nextProc'[u] = nextProc[u] /\ before <= born
        BY <1>1, <2>1, <3>3 DEF Grown, KernelInv, HistoryInv
      <4>2. CASE p \in linked
        <5>1. p \in Processes
          BY <1>1, <3>1, <3>3, <4>2 DEF Grown, Processes
        <5> QED
          BY <3>3, <4>1, <5>1 DEF GoneInv
      <4>3. CASE p \notin linked
        <5>1. p \in born + 1 .. born'
          BY <1>1, <3>3, <4>3 DEF Grown, Processes
        <5>2. nextProc[u] # None => nextProc[u] \in 1 .. born
          BY <3>1, <4>1 DEF GoneInv
        <5> QED
          BY <4>1, <5>1, <5>2, Shapes DEF KernelInv, HistoryInv
      <4> QED
        BY <4>2, <4>3
    <3>4. ASSUME NEW u \in Gone, nextThread'[u] # None
          PROVE  /\ nextThread'[u] \in linked' \cup Gone
                 /\ leader'[nextThread'[u]] = leader'[u] /\ u < nextThread'[u]
      BY <1>1, <2>1, <3>1, <3>4 DEF GoneInv, Grown
    <3>5. ASSUME NEW u \in Gone, NEW v \in linked', u < v, leader'[u] = leader'[v], v <= before'
          PROVE  nextThread'[u] # None /\ nextThread'[u] <= v
      <4>1. v \in linked /\ leader[u] = leader[v] /\ v <= before
        BY <1>1, <3>1, <3>5, Shapes DEF Grown, KernelInv, HistoryInv
      <4> QED
        BY <2>1, <3>5, <4>1 DEF GoneInv
    <3> QED
      BY <3>1, <3>2, <3>3, <3>4, <3>5 DEF GoneInv
  <2> QED
    BY <1>2, <2>1, <2>2
<1>5. CASE Release(t)
  <2> DEFINE Gone2 == Gone \cup {t}
  <2>1. /\ UNCHANGED <<born, leader, before>>
        /\ t \in linked /\ linked' = linked \ {t}
    BY <1>5 DEF Release
  <2>2. /\ nextProc'[t] = nextProc[t] /\ nextThread'[t] = nextThread[t]
        /\ \A u \in Gone : nextProc'[u] = nextProc[u] /\ nextThread'[u] = nextThread[u]
    BY <1>5, ReleaseKernel DEF GoneInv
  <2>3. linked' \cup Gone2 = linked \cup Gone /\ Processes' \subseteq Processes
    BY <2>1 DEF Processes
  <2>4. Gone2 \subseteq (1 .. born') \ linked' /\ t \in 1 .. born
    BY <2>1 DEF GoneInv, KernelInv, GroupInv
  <2>5. leader[t] = t =>
          /\ nextProc[t] # None =>
               /\ nextProc[t] \in linked
               /\ leader[nextProc[t]] = nextProc[t] /\ t < nextProc[t]
          /\ \A p \in Processes : t < p => nextProc[t] # None /\ nextProc[t] <= p
    BY <2>1 DEF KernelInv, ListInv, Processes
  <2>6. /\ nextThread[t] # None =>
             /\ nextThread[t] \in linked
             /\ leader[nextThread[t]] = leader[t] /\ t < nextThread[t]
        /\ \A v \in linked : t < v /\ leader[t] = leader[v] =>
             nextThread[t] # None /\ nextThread[t] <= v
    BY <2>1 DEF KernelInv, ListInv, Threads
  <2>7. ASSUME NEW u \in Gone2
        PROVE  /\ leader[u] = u =>
                    /\ nextProc[u] # None =>
                         /\ nextProc[u] \in linked \cup Gone
                         /\ leader[nextProc[u]] = nextProc[u] /\ u < nextProc[u]
                    /\ \A p \in Processes : u < p =>
                         IF nextProc[u] # None THEN nextProc[u] <= p ELSE before < p
               /\ nextThread[u] # None =>
                    /\ nextThread[u] \in linked \cup Gone
                    /\ leader[nextThread[u]] = leader[u] /\ u < nextThread[u]
               /\ \A v \in linked : u < v /\ leader[u] = leader[v] /\ v <= before =>
                    nextThread[u] # None /\ nextThread[u] <= v
    <3>1. CASE u = t
      BY <2>5, <2>6, <3>1
    <3>2. CASE u \in Gone
      BY <3>2 DEF GoneInv
    <3> QED
      BY <3>1, <3>2
  <2>8. \A u \in Gone2 : nextProc'[u] = nextProc[u] /\ nextThread'[u] = nextThread[u]
    BY <2>2
  <2> HIDE DEF Gone2
  <2>9. GoneInv(Gone2)'
    BY <2>1, <2>3, <2>4, <2>7, <2>8 DEF GoneInv
  <2>10. Gone2 \in SUBSET Task
    BY DEF Gone2
  <2> QED
    BY <1>2, <2>3, <2>9, <2>10
<1> QED
  BY <1>3, <1>4, <1>5

\* No new task is behind the walk, and no node changes what it says.
LEMMA ProgressLife ==
    ASSUME TypeInv, KernelInv, Life, NodesInv
    PROVE  /\ NodesInv'
           /\ ProgressInv /\ (\E Gone \in SUBSET Task : GoneInv(Gone) /\ PlaceInv(Gone))
                => ProgressInv'
<1>1. /\ Grown /\ born \in Nat /\ born' \in Nat /\ before \in 0 .. born
      /\ \A t \in linked' : t \in linked \/ t > born
      /\ \A t \in 1 .. born : leader'[t] = leader[t] /\ leader[t] \in 1 .. t
      /\ linked \subseteq 1 .. born
  <2>1. born \in Nat /\ born' \in Nat
    BY LifeTypes, Shapes, Values DEF TypeInv, TypeOK
  <2> QED
    BY LifeGrown, <2>1 DEF Grown, KernelInv, HistoryInv, GroupInv
<1>2. /\ UNCHANGED <<pc, process, thread, nodes, truncated, before>>
      /\ \A t : WasRead(t)' = WasRead(t)
  BY <1>1 DEF Grown, walkVars, WasRead
<1>3. \A p : Known(p) => Known(p)'
  <2>1. ASSUME NEW p \in before + 1 .. born, leader[p] # p
        PROVE  p \in before + 1 .. born' /\ leader'[p] # p
    <3>1. p \in 1 .. born /\ born <= born'
      BY <1>1 DEF Grown
    <3> QED
      BY <1>1, <2>1, <3>1
  <2> QED
    BY <1>2, <2>1 DEF Known
<1>5. NodesInv'
  <2>1. \A i \in 1 .. Len(nodes) : nodes[i].self \in 1 .. born
    BY DEF NodesInv
  <2>2. \A t \in 1 .. born : t \in 1 .. born' /\ leader'[t] = leader[t]
    BY <1>1 DEF Grown
  <2> QED
    BY <1>2, <1>3, <2>1, <2>2 DEF NodesInv
<1>4. ASSUME ProgressInv, NEW Gone \in SUBSET Task, GoneInv(Gone), PlaceInv(Gone)
      PROVE  ProgressInv'
  <2>1. \A t \in 1 .. born : Behind(t)' = Behind(t)
    BY <1>1, <1>2 DEF Behind
  <2>2. ASSUME ~truncated, NEW t \in linked', t <= before \/ leader'[t] = t, Behind(t)'
        PROVE  WasRead(t)
    <3>1. CASE t \in linked
      <4>1. t \in 1 .. born /\ Behind(t) /\ leader'[t] = leader[t]
        BY <1>1, <2>1, <2>2, <3>1
      <4> QED
        BY <1>4, <2>2, <3>1, <4>1 DEF ProgressInv
    <3>2. CASE t \notin linked
      <4>1. t \in Nat /\ t > born /\ leader'[t] = t
        <5>1. t \in Nat
          BY <2>2, LifeTypes, Shapes, Values DEF TypeInv, TypeOK
        <5> QED
          BY <1>1, <2>2, <3>2, <5>1
      <4>2. process \in 0 .. born
        <5>1. process = Kernel \/ process \in 1 .. born
          BY <1>1, <1>4 DEF PlaceInv, GoneInv
        <5> QED
          BY <1>1, <5>1 DEF Kernel
      <4>3. t < process \/ t = process
        BY <1>2, <2>2, <4>1 DEF Behind
      <4> QED
        BY <1>1, <4>1, <4>2, <4>3
    <3> QED
      BY <3>1, <3>2
  <2>3. \A i \in 1 .. Len(nodes) : Behind(nodes[i].self)'
    BY <1>2, <1>4, <2>1 DEF ProgressInv, NodesInv
  <2>4. ASSUME ~truncated, pc = "read", thread = process PROVE Known(parent[process])'
    <3>1. CASE process \in linked'
      <4>1. parent'[process] # Kernel =>
              parent'[process] \in linked' /\ leader'[parent'[process]] < leader'[process]
        BY <3>1, KernelStep, LifeTypes, Shapes DEF Next, KernelInv, KinInv, TypeInv, TypeOK
      <4>2. leader'[process] = process
        BY <1>1, <1>4, <2>4, PlaceValues
      <4>3. PICK q \in Task \cup {Kernel} : q = parent'[process]
        BY <1>1, <1>4, <2>4, LifeTypes, PlaceValues, Shapes DEF TypeInv, TypeOK
      <4>4. q = Kernel \/ (q \in linked' /\ q \in 1 .. born' /\ Behind(q)')
        BY <1>2, <4>1, <4>2, <4>3, KernelStep DEF Next, KernelInv, GroupInv, Behind
      <4>5. ASSUME q # Kernel, q \notin before + 1 .. born' \/ leader'[q] = q
            PROVE  WasRead(q)
        <5>1. q <= before \/ leader'[q] = q
          BY <1>1, <4>4, <4>5
        <5> QED
          BY <2>2, <2>4, <4>4, <4>5, <5>1
      <4>6. Known(q)'
        BY <1>2, <4>5 DEF Known
      <4> QED
        BY <1>2, <4>3, <4>6
    <3>2. CASE process \notin linked'
      <4>1. parent'[process] = parent[process]
        <5>1. process \in 1 .. born
          BY <1>4, <2>4, PlaceValues
        <5> QED
          BY <3>2, <5>1, Shapes DEF Life, Fork, Clone, Exit, Release
      <4>2. Known(parent[process])
        BY <1>4, <2>4 DEF ProgressInv
      <4> QED
        BY <1>2, <1>3, <4>1, <4>2
    <3> QED
      BY <3>1, <3>2
  <2> QED
    BY <1>2, <1>4, <2>2, <2>3, <2>4 DEF ProgressInv
<1> QED
  BY <1>4, <1>5

LEMMA LifeStep ==
    ASSUME TypeInv, KernelInv, NodesInv, WalkInv, Life
    PROVE  NodesInv' /\ WalkInv'
<1>1. /\ UNCHANGED <<pc, process, thread, nodes, truncated, before>>
      /\ steady' \subseteq steady /\ \A t : WasRead(t)' = WasRead(t)
  BY LifeGrown DEF Grown, walkVars, WasRead
<1>2. ASSUME pc \in Walking
      PROVE  ProgressInv' /\ \E Gone \in SUBSET Task : GoneInv(Gone)' /\ PlaceInv(Gone)'
  <2>1. PICK Gone \in SUBSET Task : GoneInv(Gone) /\ PlaceInv(Gone)
    BY <1>2 DEF WalkInv
  <2>2. ProgressInv
    BY <1>2 DEF WalkInv
  <2> QED
    BY <2>1, <2>2, GoneLife, ProgressLife
<1> QED
  BY <1>1, <1>2, ProgressLife DEF WalkInv

----------------------------------------------------------------------------
(* The steps of the walk.                                                  *)

\* A step inside of the walk.
Steps == NextProcess \/ FirstThread \/ Read \/ Truncate \/ NextThread

LEMMA StepFrame ==
    ASSUME Steps
    PROVE  /\ UNCHANGED <<taskVars, before, steady>> /\ pc \in Walking /\ pc' \in Walking
           /\ \A Gone : GoneInv(Gone)' = GoneInv(Gone)
<1>1. UNCHANGED <<taskVars, before, steady>> /\ pc \in Walking /\ pc' \in Walking
  BY DEF Steps, NextProcess, FirstThread, Read, Truncate, NextThread, unchangedBesides, Walking
<1> QED
  BY <1>1 DEF taskVars, GoneInv, Processes

LEMMA PlaceStep ==
    ASSUME TypeInv, KernelInv, NEW Gone \in SUBSET Task, GoneInv(Gone), PlaceInv(Gone), Steps
    PROVE  PlaceInv(Gone)'
<1>1. UNCHANGED taskVars
  BY StepFrame
<1>2. CASE NextProcess
  <2>1. process' = nextProc[process] /\ nextProc[process] # None /\ pc' = "first_thread"
    BY <1>2 DEF NextProcess
  <2> QED
    BY <1>1, <2>1, ProcLeads, Values DEF PlaceInv, taskVars
<1>3. CASE FirstThread
  <2>1. process' = process /\ process # Kernel /\ pc = "first_thread"
    BY <1>3 DEF FirstThread, PlaceInv
  <2>2. process \in linked \cup Gone /\ leader[process] = process
    BY <2>1 DEF PlaceInv
  <2>3. thread' = process \/ pc' = "next_process"
    BY <1>3 DEF FirstThread
  <2> QED
    BY <1>1, <2>1, <2>2, <2>3 DEF PlaceInv, taskVars
<1>4. CASE Read \/ Truncate
  BY <1>1, <1>4 DEF Read, Truncate, PlaceInv, taskVars
<1>5. CASE NextThread
  <2>1. pc = "next_thread" /\ process' = process /\ process # Kernel
        /\ process \in linked \cup Gone /\ leader[process] = process
        /\ thread \in linked \cup Gone /\ leader[thread] = process
    BY <1>5 DEF NextThread, PlaceInv
  <2>2. \/ pc' = "next_process"
        \/ pc' = "read" /\ thread' = nextThread[thread] /\ nextThread[thread] # None
    BY <1>5 DEF NextThread
  <2> QED
    BY <1>1, <2>1, <2>2, ThreadLeads DEF PlaceInv, taskVars
<1> QED
  BY <1>2, <1>3, <1>4, <1>5 DEF Steps

\* The steps that read nothing: what comes to be behind the walk was behind it already,
\* or need not be read.
LEMMA Overtaken ==
    ASSUME TypeInv, KernelInv, NEW Gone \in SUBSET Task, GoneInv(Gone), PlaceInv(Gone),
           NextProcess \/ FirstThread \/ NextThread
    PROVE  /\ \A t \in linked : (t <= before \/ leader[t] = t) /\ Behind(t)' => Behind(t)
           /\ \A t \in 1 .. born : Behind(t) => Behind(t)'
<1>0. UNCHANGED taskVars
  BY StepFrame DEF Steps
<1> USE PlaceValues
<1>1. CASE NextProcess
  <2>1. /\ pc = "next_process" /\ pc' = "first_thread"
        /\ process' = nextProc[process] /\ nextProc[process] # None
        /\ process < process' /\ process' \in 1 .. born
        /\ \A p \in Processes : process < p => process' <= p
    BY <1>1, ProcLeads DEF NextProcess
  <2>2. \A t : Behind(t) <=> leader[t] < process \/ leader[t] = process
    BY <2>1 DEF Behind
  <2>3. \A t : Behind(t)' <=> leader[t] < process'
    BY <1>0, <2>1 DEF Behind, taskVars
  <2>4. ASSUME NEW t \in linked, leader[t] < process' PROVE ~(process < leader[t])
    <3>1. leader[t] \in Processes /\ leader[t] \in Nat
      OBVIOUS
    <3> QED
      BY <2>1, <2>4, <3>1
  <2>5. ASSUME NEW t \in linked, Behind(t)' PROVE Behind(t)
    <3>1. leader[t] \in Nat /\ process \in Nat
      OBVIOUS
    <3> QED
      BY <2>2, <2>3, <2>4, <2>5, <3>1
  <2>6. ASSUME NEW t \in 1 .. born, Behind(t) PROVE Behind(t)'
    <3>1. leader[t] \in Nat /\ process \in Nat
      OBVIOUS
    <3> QED
      BY <2>1, <2>2, <2>3, <2>6, <3>1
  <2> QED
    BY <2>5, <2>6
<1>2. CASE FirstThread
  <2>1. pc = "first_thread" /\ process' = process /\ process \in 1 .. born
    BY <1>2 DEF FirstThread
  <2>2. \A t : Behind(t) <=> leader[t] < process
    BY <2>1 DEF Behind
  <2>3. CASE process \in linked
    <3>1. thread' = process /\ pc' = "read"
      BY <1>2, <2>3 DEF FirstThread
    <3>2. \A t : Behind(t)' <=> leader[t] < process \/ (leader[t] = process /\ t < process)
      BY <1>0, <2>1, <3>1 DEF Behind, taskVars
    <3>3. \A t \in 1 .. born : leader[t] \in Nat /\ leader[t] <= t
      OBVIOUS
    <3> QED
      BY <2>1, <2>2, <3>2, <3>3
  <2>4. CASE process \notin linked
    <3>1. pc' = "next_process"
      BY <1>2, <2>4 DEF FirstThread
    <3>2. \A t : Behind(t)' <=> leader[t] < process \/ leader[t] = process
      BY <1>0, <2>1, <3>1 DEF Behind, taskVars
    <3>3. \A t \in linked : leader[t] # process
      BY <2>4 DEF Processes
    <3> QED
      BY <2>2, <3>2, <3>3
  <2> QED
    BY <2>3, <2>4
<1>3. CASE NextThread
  <2>1. /\ pc = "next_thread" /\ process' = process /\ process \in 1 .. born
        /\ thread \in linked \cup Gone /\ thread \in 1 .. born /\ process <= thread
        /\ leader[thread] = process
    BY <1>3 DEF NextThread, PlaceInv
  <2>2. \A t : Behind(t) <=> leader[t] < process \/ (leader[t] = process /\ t <= thread)
    BY <2>1 DEF Behind
  <2>3. \A v \in linked : thread < v /\ leader[v] = process /\ v <= before =>
          nextThread[thread] # None /\ nextThread[thread] <= v
    BY <2>1, ThreadLeads
  <2>4. CASE nextThread[thread] = None
    <3>1. pc' = "next_process"
      BY <1>3, <2>4 DEF NextThread
    <3>2. \A t : Behind(t)' <=> leader[t] < process \/ leader[t] = process
      BY <1>0, <2>1, <3>1 DEF Behind, taskVars
    <3>3. ASSUME NEW t \in linked, t <= before \/ leader[t] = t, leader[t] = process
          PROVE  t <= thread
      <4>1. t \in Nat /\ thread \in Nat /\ process \in Nat
        BY <2>1
      <4> QED
        BY <2>1, <2>3, <2>4, <3>3, <4>1
    <3> QED
      BY <2>2, <3>2, <3>3
  <2>5. CASE nextThread[thread] # None
    <3>1. pc' = "read" /\ thread' = nextThread[thread] /\ thread < thread' /\ thread' \in 1 .. born
      BY <1>3, <2>1, <2>5, ThreadLeads DEF NextThread
    <3>2. \A t : Behind(t)' <=> leader[t] < process \/ (leader[t] = process /\ t < thread')
      BY <1>0, <2>1, <3>1 DEF Behind, taskVars
    <3>3. ASSUME NEW t \in linked, t <= before \/ leader[t] = t, leader[t] = process, t < thread'
          PROVE  t <= thread
      <4>1. t \in Nat /\ thread \in Nat /\ process \in Nat /\ thread' \in Nat
        BY <2>1, <3>1
      <4> QED
        BY <2>1, <2>3, <3>1, <3>3, <4>1
    <3>4. \A t \in 1 .. born : t <= thread => t < thread'
      BY <2>1, <3>1
    <3> QED
      BY <2>2, <3>2, <3>3, <3>4
  <2> QED
    BY <2>4, <2>5
<1> QED
  BY <1>1, <1>2, <1>3

\* Where a leader that is on the lists is about to be read, its parent is known.
LEMMA ParentKnown ==
    ASSUME TypeInv, KernelInv, ProgressInv, ~truncated,
           NEW Gone \in SUBSET Task, GoneInv(Gone), PlaceInv(Gone),
           process \in linked, leader[process] = process
    PROVE  Known(parent[process])
<1> DEFINE p == parent[process]
<1> SUFFICES ASSUME p # Kernel, p \notin before + 1 .. born \/ leader[p] = p
             PROVE  WasRead(p)
  BY DEF Known
<1>1. p \in linked /\ p \in 1 .. born /\ leader[p] < leader[process]
  BY Shapes DEF KernelInv, KinInv, GroupInv
<1>2. Behind(p)
  BY <1>1 DEF Behind
<1>3. p <= before \/ leader[p] = p
  BY <1>1, PlaceValues
<1> QED
  BY <1>1, <1>2, <1>3 DEF ProgressInv

LEMMA MovesStep ==
    ASSUME TypeInv, KernelInv, NodesInv, ProgressInv,
           NEW Gone \in SUBSET Task, GoneInv(Gone), PlaceInv(Gone),
           NextProcess \/ FirstThread \/ NextThread
    PROVE  NodesInv' /\ ProgressInv'
<1>1. /\ UNCHANGED <<taskVars, before, nodes, truncated>>
      /\ \A t : WasRead(t)' = WasRead(t)
  BY StepFrame DEF Steps, NextProcess, FirstThread, NextThread, WasRead
<1>2. \A t : Known(t)' = Known(t)
  BY <1>1 DEF Known, taskVars
<1>3. NodesInv'
  BY <1>1, <1>2 DEF NodesInv, taskVars
<1>4. ~truncated => \A t \in linked : (t <= before \/ leader[t] = t) /\ Behind(t)' => WasRead(t)
  BY Overtaken DEF ProgressInv
<1>5. \A i \in 1 .. Len(nodes) : Behind(nodes[i].self)'
  <2>1. \A i \in 1 .. Len(nodes) : nodes[i].self \in 1 .. born /\ Behind(nodes[i].self)
    BY DEF NodesInv, ProgressInv
  <2>2. \A t \in 1 .. born : Behind(t) => Behind(t)'
    BY Overtaken
  <2> QED
    BY <1>1, <2>1, <2>2
<1>6. pc' = "next_thread" \/ (pc' = "read" /\ thread' # process') => WasRead(process')
  BY DEF NextProcess, FirstThread, NextThread, ProgressInv
<1>7. ASSUME ~truncated, pc' = "read", thread' = process'
      PROVE  Known(parent[process'])
  <2>1. CASE FirstThread
    <3>1. process' = process /\ process \in linked /\ leader[process] = process
      BY <1>7, <2>1 DEF FirstThread, PlaceInv
    <3> QED
      BY <1>7, <3>1, ParentKnown
  <2>2. CASE NextThread
    <3>1. /\ thread \in linked \cup Gone /\ thread \in 1 .. born /\ process <= thread
          /\ process' = process /\ process \in 1 .. born
          /\ thread' = nextThread[thread] /\ nextThread[thread] # None
      BY <1>7, <2>2, PlaceValues DEF NextThread, PlaceInv
    <3>2. thread < thread' /\ thread' \in 1 .. born
      BY <3>1, ThreadLeads, PlaceValues
    <3> QED
      BY <1>7, <3>1, <3>2
  <2>3. CASE NextProcess
    BY <1>7, <2>3 DEF NextProcess
  <2> QED
    BY <2>1, <2>2, <2>3
<1> QED
  BY <1>1, <1>2, <1>3, <1>4, <1>5, <1>6, <1>7 DEF ProgressInv, taskVars

LEMMA ReadStep ==
    ASSUME TypeInv, KernelInv, NodesInv, ProgressInv,
           NEW Gone \in SUBSET Task, GoneInv(Gone), PlaceInv(Gone), Read
    PROVE  NodesInv' /\ ProgressInv'
<1> DEFINE node == [self |-> thread, leader |-> process, real |-> parent[thread]]
           last == Len(nodes) + 1
<1>1. /\ UNCHANGED <<taskVars, before, process, thread, truncated>>
      /\ pc = "read" /\ pc' = "next_thread" /\ Len(nodes) < Capacity
      /\ nodes' = Append(nodes, node)
  BY StepFrame DEF Steps, Read
<1>2. ~truncated
  BY <1>1 DEF NodesInv, TypeInv, TypeOK
<1>3. /\ Len(nodes) \in Nat /\ Len(nodes') = last
      /\ \A i \in 1 .. Len(nodes) : nodes'[i] = nodes[i]
      /\ nodes'[last].self = thread /\ nodes'[last].leader = process
      /\ nodes'[last].real = parent[thread]
      /\ \A i \in 1 .. last : i \in 1 .. Len(nodes) \/ i = last
      /\ last \in 1 .. last /\ 1 .. Len(nodes) \subseteq 1 .. last
  <2>1. nodes \in Seq(Node)
    BY DEF TypeInv, TypeOK
  <2> QED
    BY <1>1, <2>1
<1> HIDE DEF node, last
<1>4. \A t : WasRead(t)' <=> WasRead(t) \/ t = thread
  BY <1>3 DEF WasRead
<1>5. \A t : Known(t) => Known(t)'
  BY <1>1, <1>4 DEF Known, taskVars
<1>6. /\ thread \in 1 .. born /\ leader[thread] = process /\ process <= thread
      /\ process \in 1 .. born /\ born \in Nat
      /\ \A t \in 1 .. born : leader[t] \in 1 .. t
  BY <1>1, PlaceValues
<1>7. /\ \A t : Behind(t) <=> leader[t] < process \/ (leader[t] = process /\ t < thread)
      /\ \A t : Behind(t)' <=> leader[t] < process \/ (leader[t] = process /\ t <= thread)
  BY <1>1 DEF Behind, taskVars
<1>8. ~Behind(thread) /\ Behind(thread)'
  BY <1>1, <1>6, <1>7
<1>9. ASSUME NEW t \in 1 .. born PROVE Behind(t)' <=> Behind(t) \/ t = thread
  <2>1. t <= thread <=> t < thread \/ t = thread
    BY <1>6
  <2> QED
    BY <1>6, <1>7, <2>1
<1>10. WasRead(process)'
  BY <1>1, <1>4 DEF ProgressInv
<1>11. NodesInv'
  <2>1. ASSUME NEW i \in 1 .. last
        PROVE  /\ nodes'[i].self \in 1 .. born
               /\ nodes'[i].leader = leader[nodes'[i].self]
               /\ WasRead(nodes[i].leader)'
               /\ nodes'[i].self = nodes'[i].leader => Known(nodes[i].real)'
    <3>1. CASE i \in 1 .. Len(nodes)
      BY <1>3, <1>4, <1>5, <3>1 DEF NodesInv
    <3>2. CASE i = last
      <4>1. nodes'[i].self = thread /\ nodes'[i].leader = process
            /\ nodes'[i].real = parent[thread]
        BY <1>3, <3>2
      <4>2. thread = process => Known(parent[thread])'
        BY <1>1, <1>2, <1>5 DEF ProgressInv, taskVars
      <4>3. WasRead(nodes[i].leader)'
        BY <1>1, <1>10, <4>1 DEF WasRead
      <4>4. thread = process => Known(nodes[i].real)'
        BY <1>1, <4>1, <4>2 DEF Known, WasRead, taskVars
      <4> QED
        BY <1>1, <1>6, <4>1, <4>3, <4>4
    <3> QED
      BY <1>3, <2>1, <3>1, <3>2
  <2>2. ASSUME NEW i \in 1 .. last, NEW j \in 1 .. last, nodes'[i].self = nodes'[j].self
        PROVE  i = j
    <3>1. \A k \in 1 .. Len(nodes) : nodes'[k].self # thread
      BY <1>3, <1>8 DEF ProgressInv
    <3> QED
      BY <1>3, <2>2, <3>1 DEF NodesInv
  <2> QED
    BY <1>1, <1>2, <1>3, <2>1, <2>2 DEF NodesInv, taskVars
<1>12. ASSUME NEW t \in linked, t <= before \/ leader[t] = t, Behind(t)'
       PROVE  WasRead(t)'
  <2>1. t \in 1 .. born
    BY PlaceValues
  <2> QED
    BY <1>2, <1>4, <1>9, <1>12, <2>1 DEF ProgressInv
<1>13. ASSUME NEW i \in 1 .. last PROVE Behind(nodes[i].self)'
  BY <1>3, <1>6, <1>8, <1>9, <1>13 DEF ProgressInv, NodesInv
<1> QED
  BY <1>1, <1>3, <1>10, <1>11, <1>12, <1>13 DEF ProgressInv, taskVars

LEMMA TruncateStep ==
    ASSUME TypeInv, KernelInv, NodesInv, ProgressInv,
           NEW Gone \in SUBSET Task, GoneInv(Gone), PlaceInv(Gone), Truncate
    PROVE  NodesInv' /\ ProgressInv'
<1>1. /\ UNCHANGED <<taskVars, before, process, thread, nodes>>
      /\ pc = "read" /\ pc' = "next_process" /\ Len(nodes) >= Capacity /\ truncated'
      /\ \A t : WasRead(t)' = WasRead(t)
  BY StepFrame DEF Steps, Truncate, WasRead
<1>2. NodesInv'
  BY <1>1 DEF NodesInv, Known, taskVars
<1>3. \A t : Behind(t) => Behind(t)'
  BY <1>1 DEF Behind, taskVars
<1> QED
  BY <1>1, <1>2, <1>3 DEF ProgressInv

LEMMA BeginStep ==
    ASSUME TypeInv, KernelInv, NodesInv, WalkInv, Begin
    PROVE  NodesInv' /\ WalkInv'
<1>1. /\ UNCHANGED <<taskVars, process, thread, nodes, truncated>>
      /\ pc' = "next_process" /\ nodes = <<>> /\ process = Kernel
  BY Values DEF Begin, WalkInv, Walking
<1>2. Len(nodes) = 0 /\ Len(nodes') = 0
  BY <1>1
<1>3. ~truncated
  BY <1>2 DEF NodesInv
<1>4. NodesInv'
  BY <1>1, <1>2, <1>3 DEF NodesInv
<1>5. \A t \in linked : leader[t] >= 1
  BY Shapes, Values
<1>6. \A t \in linked' : ~Behind(t)'
  BY <1>1, <1>5, Shapes, Values DEF Behind, taskVars, Kernel
<1>7. ProgressInv'
  BY <1>1, <1>2, <1>6 DEF ProgressInv
<1>8. GoneInv({})' /\ PlaceInv({})'
  BY <1>1 DEF GoneInv, PlaceInv
<1> QED
  BY <1>1, <1>4, <1>7, <1>8 DEF WalkInv, Walking

\* At the end of the list everything that was there from the beginning is behind.
LEMMA EndStep ==
    ASSUME TypeInv, KernelInv, NodesInv, WalkInv, EndWalk
    PROVE  NodesInv' /\ WalkInv'
<1>1. /\ UNCHANGED <<taskVars, before, steady, nodes, truncated>>
      /\ pc = "next_process" /\ pc' = "dump" /\ process' = None /\ nextProc[process] = None
      /\ \A t : WasRead(t)' = WasRead(t)
  BY DEF EndWalk, unchangedBesides, WasRead
<1>2. PICK Gone \in SUBSET Task : GoneInv(Gone) /\ PlaceInv(Gone)
  BY <1>1 DEF WalkInv, Walking
<1>3. NodesInv'
  BY <1>1 DEF NodesInv, Known, taskVars
<1>4. ASSUME ~truncated, NEW t \in steady PROVE WasRead(t)
  <2>1. t \in linked /\ t <= before
    BY DEF KernelInv, HistoryInv
  <2>2. leader[t] \in Processes /\ leader[t] \in Nat /\ leader[t] <= t /\ t \in Nat
        /\ before \in Nat /\ process \in Nat
    BY <1>2, <2>1, PlaceValues
  <2>3. process < leader[t] => before < leader[t]
    BY <1>1, <1>2, <2>2, ProcLeads
  <2>4. leader[t] <= process
    BY <2>1, <2>2, <2>3
  <2>5. Behind(t)
    BY <1>1, <2>2, <2>4 DEF Behind
  <2> QED
    BY <1>1, <1>4, <2>1, <2>5 DEF WalkInv, Walking, ProgressInv
<1> QED
  BY <1>1, <1>3, <1>4 DEF WalkInv, Walking

LEMMA WalkInit == Init => NodesInv /\ WalkInv
<1> SUFFICES ASSUME Init PROVE NodesInv /\ WalkInv
  OBVIOUS
<1>1. pc = "idle" /\ nodes = <<>> /\ Len(nodes) = 0 /\ ~truncated /\ process = None /\ before = 0
  BY DEF Init
<1> QED
  BY <1>1 DEF NodesInv, WalkInv, Walking

LEMMA WalkStep ==
    TypeInv /\ KernelInv /\ NodesInv /\ WalkInv /\ [Next]_vars => NodesInv' /\ WalkInv'
<1> SUFFICES ASSUME TypeInv, KernelInv, NodesInv, WalkInv, [Next]_vars
             PROVE  NodesInv' /\ WalkInv'
  OBVIOUS
<1>1. CASE Life
  BY <1>1, LifeStep
<1>2. CASE Steps
  <2>1. PICK Gone \in SUBSET Task : GoneInv(Gone) /\ PlaceInv(Gone)
    BY <1>2, StepFrame DEF WalkInv
  <2>2. GoneInv(Gone)' /\ PlaceInv(Gone)' /\ pc' \in Walking
    BY <1>2, <2>1, StepFrame, PlaceStep
  <2>3. ProgressInv
    BY <1>2, StepFrame DEF WalkInv
  <2>4. NodesInv' /\ ProgressInv'
    BY <1>2, <2>1, <2>3, MovesStep, ReadStep, TruncateStep DEF Steps
  <2> QED
    BY <2>2, <2>4 DEF WalkInv, Walking
<1>3. CASE Begin
  BY <1>3, BeginStep
<1>4. CASE EndWalk
  BY <1>4, EndStep
<1>5. CASE Dump \/ DumpDone \/ UNCHANGED vars
  <2>1. /\ UNCHANGED <<taskVars, before, steady, process, thread, nodes, truncated>>
        /\ pc' = pc \/ (pc = "dump" /\ pc' = "answered")
        /\ \A t : WasRead(t)' = WasRead(t)
    BY <1>5 DEF Dump, DumpDone, vars, walkVars, WasRead
  <2>2. NodesInv'
    BY <2>1 DEF NodesInv, Known, taskVars
  <2>3. CASE pc \in Walking
    <3>1. pc' = pc
      BY <2>1, <2>3 DEF Walking
    <3>2. ProgressInv'
      BY <2>1, <2>3, <3>1 DEF WalkInv, ProgressInv, Behind, Known, taskVars
    <3>3. \A Gone : (GoneInv(Gone) => GoneInv(Gone)') /\ (PlaceInv(Gone) => PlaceInv(Gone)')
      BY <2>1, <3>1 DEF GoneInv, PlaceInv, Processes, taskVars
    <3> QED
      BY <2>2, <2>3, <3>1, <3>2, <3>3 DEF WalkInv, Walking
  <2>4. CASE pc \notin Walking
    BY <2>1, <2>2, <2>4 DEF WalkInv, Walking
  <2> QED
    BY <2>3, <2>4
<1>6. CASE DumpFails \/ HandOn
  <2>1. /\ pc' = "idle" /\ nodes' = <<>> /\ before' = 0 /\ truncated' = FALSE
        /\ process' = process /\ process = None
    BY <1>6 DEF DumpFails, HandOn, Reset, WalkInv, Walking
  <2>2. Len(nodes') = 0
    BY <2>1
  <2> QED
    BY <2>1, <2>2 DEF NodesInv, WalkInv, Walking
<1> QED
  BY <1>1, <1>2, <1>3, <1>4, <1>5, <1>6 DEF Next, Walk, Steps

\* However tasks come and go around the walk, which may stand on tasks that have been
\* released: each task that is there from its beginning to its end is read, unless the
\* tree says that it is truncated, and none is read twice.
THEOREM Complete == Spec => []WalkComplete
<1>1. NodesInv /\ WalkInv => WalkComplete
  BY DEF NodesInv, WalkInv, WalkComplete
<1> QED
  BY <1>1, TypeInit, TypeStep, KernelInit, KernelStep, WalkInit, WalkStep, PTL DEF Spec

\* What the adapter of the web application builds on: the leader of each node that the
\* client is given is among the nodes, and so is the parent of each leader, but for
\* threads that came after the walk had begun. The truncation, which leaves
\* children out, never leaves out the parent of one that is in.
ParentsGiven ==
    pc = "answered" =>
        \A i \in 1 .. Len(received) :
            LET n == received[i]
                Given(t) == \E j \in 1 .. Len(received) : received[j].self = t
            IN  /\ n.leader = leader[n.self] /\ Given(n.leader)
                /\ n.self = n.leader =>
                     \/ n.real = Kernel \/ Given(n.real)
                     \/ n.real > before /\ leader[n.real] # n.real

THEOREM ParentsGivenAlways == Spec => []ParentsGiven
<1>1. TypeInv /\ HistoryInv /\ NodesInv /\ AnswerWhole => ParentsGiven
  <2> SUFFICES ASSUME TypeInv, HistoryInv, NodesInv, received = nodes,
                      NEW i \in 1 .. Len(nodes)
               PROVE  /\ nodes[i].leader = leader[nodes[i].self] /\ WasRead(nodes[i].leader)
                      /\ nodes[i].self = nodes[i].leader =>
                           \/ nodes[i].real = Kernel \/ WasRead(nodes[i].real)
                           \/ nodes[i].real > before /\ leader[nodes[i].real] # nodes[i].real
    BY DEF ParentsGiven, AnswerWhole, WasRead
  <2>1. before \in Nat /\ born \in Nat
    BY Shapes DEF HistoryInv
  <2> QED
    BY <2>1 DEF NodesInv, Known
<1> QED
  BY <1>1, Whole, TypeInit, TypeStep, KernelInit, KernelStep, WalkInit, WalkStep, PTL
     DEF Spec, KernelInv
----------------------------------------------------------------------------
(* The tree of the web application.                                        *)

Lesser == OpToRel(<, Nat)

LEMMA LesserIs == \A m, n \in Nat : <<n, m>> \in Lesser <=> n < m
BY DEF OpToRel, Lesser

\* A set of numbers has a least one, and so has what fails for some number.
LEMMA Smallest ==
    ASSUME NEW S \in SUBSET Nat, S # {}
    PROVE  \E m \in S : \A n \in S : m <= n
<1>1. IsWellFoundedOn(Lesser, Nat)
  BY NatLessThanWellFounded DEF Lesser
<1>2. PICK m \in S : \A n \in S : ~(<<n, m>> \in Lesser)
  BY <1>1, WFMin, Zenon
<1>3. \A n \in S : ~(n < m)
  BY <1>2, LesserIs
<1> QED BY <1>3

\* Induction up to a number, over a set in place of a predicate.
LEMMA UpTo ==
    ASSUME NEW n \in Nat, NEW S, 0 \in S,
           \A k \in 0 .. n : k \in S /\ k < n => k + 1 \in S
    PROVE  \A k \in 0 .. n : k \in S
<1> DEFINE bad == {k \in 0 .. n : k \notin S}
<1> SUFFICES ASSUME bad # {} PROVE FALSE
  OBVIOUS
<1>1. bad \in SUBSET Nat
  OBVIOUS
<1>2. PICK m \in bad : \A k \in bad : m <= k
  <2> HIDE DEF bad
  <2> QED BY <1>1, Smallest
<1>3. m # 0 /\ m \in 0 .. n /\ m - 1 \in 0 .. n /\ m - 1 < n
  OBVIOUS
<1>4. m - 1 \notin bad
  BY <1>2, <1>3
<1>5. (m - 1) + 1 = m
  BY <1>3
<1> QED BY <1>3, <1>4, <1>5

\* s has each element of S once.
Listed(s, S) ==
    /\ Len(s) \in Nat /\ s \in [1 .. Len(s) -> S]
    /\ \A k, l \in 1 .. Len(s) : s[k] = s[l] => k = l
    /\ \A x \in S : \E k \in 1 .. Len(s) : s[k] = x

LEMMA FilteredListed ==
    ASSUME NEW ns, NEW I, IsFiniteSet(I), I \subseteq Nat,
           \A i, j \in I : ns[i] = ns[j] => i = j
    PROVE  Listed(Filtered(ns, I), {ns[i] : i \in I})
<1> DEFINE upto(i) == {j \in I : j <= i}
           rank == [i \in I |-> Cardinality(upto(i))]
           size == Cardinality(I)
           nth(k) == CHOOSE i \in I : Cardinality(upto(i)) = k
<1>1. size \in Nat
  BY FS_CardinalityType
<1>2. ASSUME NEW i \in I
      PROVE  IsFiniteSet(upto(i)) /\ Cardinality(upto(i)) \in 1 .. size
  <2>1. upto(i) \in SUBSET I /\ i \in upto(i)
    OBVIOUS
  <2> HIDE DEF upto
  <2>2. IsFiniteSet(upto(i)) /\ Cardinality(upto(i)) \in Nat /\ Cardinality(upto(i)) <= size
    BY <2>1, FS_Subset, FS_CardinalityType
  <2>3. Cardinality(upto(i)) # 0
    BY <2>1, <2>2, FS_EmptySet
  <2> QED BY <1>1, <2>2, <2>3
<1>3. ASSUME NEW i \in I, NEW j \in I, i < j PROVE Cardinality(upto(i)) # Cardinality(upto(j))
  <2>1. i \in Nat /\ j \in Nat /\ \A k \in I : k \in Nat
    OBVIOUS
  <2>2. \A k \in I : k <= i => k <= j
    BY <1>3, <2>1
  <2>3. j <= j /\ ~(j <= i)
    BY <1>3, <2>1
  <2>4. upto(i) \in SUBSET upto(j) /\ j \in upto(j) /\ j \notin upto(i)
    BY <2>2, <2>3
  <2> HIDE DEF upto
  <2> QED BY <1>2, <2>4, FS_Subset
<1>4. rank \in [I -> 1 .. size] /\ \A i \in I : rank[i] = Cardinality(upto(i))
  <2> HIDE DEF upto, size
  <2> QED BY <1>2
<1>5. \A i, j \in I : rank[i] = rank[j] => i = j
  <2>1. \A i, j \in I : i = j \/ i < j \/ j < i
    OBVIOUS
  <2> HIDE DEF rank, upto
  <2> QED BY <1>3, <1>4, <2>1
<1>6. \A k \in 1 .. size : \E i \in I : rank[i] = k
  <2> HIDE DEF rank, size
  <2>1. rank \in Injection(I, 1 .. size)
    BY <1>4, <1>5 DEF Injection, IsInjective
  <2>2. IsFiniteSet(1 .. size) /\ Cardinality(1 .. size) = size
    BY <1>1, FS_Interval
  <2>3. rank \in Surjection(I, 1 .. size)
    BY <2>1, <2>2, FS_Injection DEF size
  <2> QED BY <2>3 DEF Surjection
<1>7. \A k \in 1 .. size : nth(k) \in I /\ rank[nth(k)] = k
  <2> HIDE DEF size, upto
  <2> QED BY <1>4, <1>6
<1>8. \A i \in I : rank[i] \in 1 .. size /\ nth(rank[i]) = i
  <2> SUFFICES ASSUME NEW i \in I PROVE rank[i] \in 1 .. size /\ nth(rank[i]) = i
    OBVIOUS
  <2> HIDE DEF size, rank, nth
  <2>1. rank[i] \in 1 .. size
    BY <1>4
  <2>2. nth(rank[i]) \in I /\ rank[nth(rank[i])] = rank[i]
    BY <1>7, <2>1
  <2> QED BY <1>5, <2>1, <2>2
<1> DEFINE s == Filtered(ns, I)
<1>9. s = [k \in 1 .. size |-> ns[nth(k)]]
  BY DEF Filtered
<1> HIDE DEF nth, rank, upto, size, s
<1>10. Len(s) = size /\ \A k \in 1 .. size : s[k] = ns[nth(k)]
  BY <1>1, <1>9
<1>11. s \in [1 .. Len(s) -> {ns[i] : i \in I}]
  BY <1>7, <1>9, <1>10
<1>12. \A k, l \in 1 .. Len(s) : s[k] = s[l] => k = l
  <2> SUFFICES ASSUME NEW k \in 1 .. size, NEW l \in 1 .. size, s[k] = s[l] PROVE k = l
    BY <1>10
  <2>1. nth(k) \in I /\ nth(l) \in I /\ ns[nth(k)] = ns[nth(l)]
    BY <1>7, <1>10
  <2>2. nth(k) = nth(l)
    BY <2>1
  <2>3. rank[nth(k)] = k /\ rank[nth(l)] = l
    BY <1>7
  <2> QED BY <2>2, <2>3
<1>13. \A x \in {ns[i] : i \in I} : \E k \in 1 .. Len(s) : s[k] = x
  BY <1>8, <1>10
<1> QED BY <1>1, <1>10, <1>11, <1>12, <1>13 DEF Listed, s

\* What the adapter is given: each task has one node, and its leader has one and leads itself.
WellFormed(ns) ==
    /\ ns \in Seq(Node)
    /\ \A i, j \in DOMAIN ns : ns[i].self = ns[j].self => i = j
    /\ \A i \in DOMAIN ns :
          \E j \in DOMAIN ns : ns[j].self = ns[i].leader /\ ns[j].leader = ns[j].self

LEMMA Indexed ==
    ASSUME NEW ns, WellFormed(ns)
    PROVE  /\ DOMAIN ns = 1 .. Len(ns) /\ Len(ns) \in Nat /\ IsFiniteSet(DOMAIN ns)
           /\ \A I \in SUBSET DOMAIN ns : IsFiniteSet(I) /\ I \subseteq Nat
           /\ \A i \in DOMAIN ns : /\ ns[i] \in Node /\ ns[i].self # kernelId
                                   /\ ns[i].leader # kernelId
<1>1. DOMAIN ns = 1 .. Len(ns) /\ Len(ns) \in Nat
  BY DEF WellFormed
<1>2. IsFiniteSet(1 .. Len(ns))
  BY <1>1, FS_Interval
<1>3. \A i \in DOMAIN ns : ns[i] \in Node
  BY DEF WellFormed
<1>4. \A n \in Node : n.self # kernelId /\ n.leader # kernelId
  BY MaxTasksAssumption DEF Node, Task, kernelId, Kernel
<1> QED BY <1>1, <1>2, <1>3, <1>4, FS_Subset

\* The ids of some of the nodes.
LEMMA SelfIdsListed ==
    ASSUME NEW ns, WellFormed(ns), NEW I \in SUBSET DOMAIN ns
    PROVE  Listed(SelfIds(ns, I), {ns[i].self : i \in I})
<1> DEFINE f == Filtered(ns, I)
           s == SelfIds(ns, I)
<1>1. IsFiniteSet(I) /\ I \subseteq Nat
  BY Indexed
<1>2. \A i, j \in I : ns[i] = ns[j] => i = j
  BY DEF WellFormed
<1>3. Listed(f, {ns[i] : i \in I})
  BY <1>1, <1>2, FilteredListed
<1>4. Len(f) = Cardinality(I)
  <2>1. Cardinality(I) \in Nat
    BY <1>1, FS_CardinalityType
  <2> QED BY <2>1 DEF Filtered
<1>5. Len(f) \in Nat /\ s = [k \in 1 .. Len(f) |-> f[k].self]
  BY <1>3, <1>4 DEF SelfIds, Listed
<1> HIDE DEF f, s
<1>6. Len(s) = Len(f) /\ \A k \in 1 .. Len(f) : s[k] = f[k].self
  BY <1>5
<1>7. \A k \in 1 .. Len(f) : \E i \in I : f[k] = ns[i]
  BY <1>3 DEF Listed
<1>8. s \in [1 .. Len(s) -> {ns[i].self : i \in I}]
  BY <1>5, <1>6, <1>7
<1>9. \A k, l \in 1 .. Len(s) : s[k] = s[l] => k = l
  <2> SUFFICES ASSUME NEW k \in 1 .. Len(f), NEW l \in 1 .. Len(f), s[k] = s[l] PROVE k = l
    BY <1>6
  <2>1. PICK i \in I : f[k] = ns[i]
    BY <1>7
  <2>2. PICK j \in I : f[l] = ns[j]
    BY <1>7
  <2>3. ns[i].self = ns[j].self
    BY <1>6, <2>1, <2>2
  <2>4. i = j
    BY <2>3 DEF WellFormed
  <2> QED BY <1>3, <2>1, <2>2, <2>4 DEF Listed
<1>10. \A x \in {ns[i].self : i \in I} : \E k \in 1 .. Len(s) : s[k] = x
  <2> SUFFICES ASSUME NEW i \in I PROVE \E k \in 1 .. Len(s) : s[k] = ns[i].self
    OBVIOUS
  <2>1. PICK k \in 1 .. Len(f) : f[k] = ns[i]
    BY <1>3 DEF Listed
  <2> QED BY <1>6, <2>1
<1> QED BY <1>5, <1>6, <1>8, <1>9, <1>10 DEF Listed, s

\* The ids of the groups below a task or a group, and of the threads of a group.
Children(ns, id) == {ns[i].self : i \in {i \in groupLeaders(ns) : ToTgid(ns, ns[i].real) = id}}
ThreadIds(ns, id) == {ns[i].self : i \in {i \in childThreads(ns) : ns[i].leader = id}}

LEMMA IdsListed ==
    ASSUME NEW ns, WellFormed(ns), NEW id
    PROVE  Listed(ChildIds(ns, id), Children(ns, id)) /\ Listed(SubNodes(ns, id), ThreadIds(ns, id))
<1>1. /\ {i \in groupLeaders(ns) : ToTgid(ns, ns[i].real) = id} \in SUBSET DOMAIN ns
      /\ {i \in childThreads(ns) : ns[i].leader = id} \in SUBSET DOMAIN ns
  BY DEF groupLeaders, childThreads
<1> QED BY <1>1, SelfIdsListed DEF ChildIds, SubNodes, Children, ThreadIds

\* What is known of a group of the tree, and of the tree.
IsGroup(ns, g) ==
    /\ g.childTreeNodeIds = ChildIds(ns, g.id)
    /\ \/ g.id = kernelId /\ g.subNodes = <<>>
       \/ \E i \in groupLeaders(ns) :
             /\ g.id = ns[i].self /\ g.parentId = ns[i].real
             /\ g.parentTreeNodeId = ToTgid(ns, ns[i].real)
             /\ g.subNodes = SubNodes(ns, ns[i].self)

IsTree(ns, T) ==
    /\ Len(T) \in Nat \ {0} /\ DOMAIN T = 1 .. Len(T)
    /\ T[1].id = kernelId /\ T[1].parentTreeNodeId = kernelId
    /\ \A k \in 1 .. Len(T) : IsGroup(ns, T[k])
    /\ \A k, l \in 1 .. Len(T) : T[k].id = T[l].id => k = l
    /\ \A i \in groupLeaders(ns) : ns[i].self \in IdsOf(T)

LEMMA TreeIs ==
    ASSUME NEW ns, WellFormed(ns)
    PROVE  IsTree(ns, toTreeNodes(ns))
<1> DEFINE I == groupLeaders(ns)
           leaders == Filtered(ns, I)
           size == Len(leaders)
           kernelNode == [id |-> kernelId, parentId |-> kernelId,
                          parentTreeNodeId |-> kernelId, subNodes |-> <<>>,
                          childTreeNodeIds |-> ChildIds(ns, kernelId)]
           mainNode(n) == [id |-> n.self, parentId |-> n.real,
                           parentTreeNodeId |-> ToTgid(ns, n.real),
                           subNodes |-> SubNodes(ns, n.self),
                           childTreeNodeIds |-> ChildIds(ns, n.self)]
           mains == [i \in 1 .. size |-> mainNode(leaders[i])]
           T == toTreeNodes(ns)
<1>1. I \in SUBSET DOMAIN ns /\ IsFiniteSet(I) /\ I \subseteq Nat
  BY Indexed DEF groupLeaders
<1>2. \A i, j \in I : ns[i] = ns[j] => i = j
  BY <1>1 DEF WellFormed
<1>3. Listed(leaders, {ns[i] : i \in I})
  <2> HIDE DEF I
  <2> QED BY <1>1, <1>2, FilteredListed
<1>4. T = <<kernelNode>> \o mains
  BY DEF toTreeNodes
<1>5. /\ kernelNode.id = kernelId /\ kernelNode.parentTreeNodeId = kernelId
      /\ IsGroup(ns, kernelNode)
  BY DEF IsGroup
<1>6. \A i \in I : mainNode(ns[i]).id = ns[i].self /\ IsGroup(ns, mainNode(ns[i]))
  BY DEF IsGroup
<1> HIDE DEF kernelNode, mainNode, leaders, I, T, size
<1>7. size \in Nat /\ Len(mains) = size
  BY <1>3 DEF Listed, size
<1>8. /\ Len(T) = size + 1 /\ DOMAIN T = 1 .. size + 1 /\ T[1] = kernelNode
      /\ \A k \in 2 .. size + 1 : T[k] = mainNode(leaders[k - 1])
  BY <1>4, <1>7
<1>9. ASSUME NEW k \in 2 .. size + 1
      PROVE  /\ k - 1 \in 1 .. size
             /\ \E i \in I : leaders[k - 1] = ns[i] /\ T[k].id = ns[i].self /\ IsGroup(ns, T[k])
  <2>1. k - 1 \in 1 .. size
    BY <1>7
  <2>2. PICK i \in I : leaders[k - 1] = ns[i]
    BY <1>3, <2>1 DEF Listed, size
  <2> QED BY <1>6, <1>8, <2>1, <2>2
<1>10. \A k \in 1 .. size + 1 : k = 1 \/ k \in 2 .. size + 1
  BY <1>7
<1>11. \A k \in 1 .. size + 1 : IsGroup(ns, T[k])
  BY <1>5, <1>8, <1>9, <1>10
<1>12. \A k \in 2 .. size + 1 : T[k].id # kernelId
  BY <1>1, <1>9, Indexed
<1>13. ASSUME NEW k \in 2 .. size + 1, NEW l \in 2 .. size + 1, T[k].id = T[l].id PROVE k = l
  <2>1. PICK i \in I : leaders[k - 1] = ns[i] /\ T[k].id = ns[i].self
    BY <1>9
  <2>2. PICK j \in I : leaders[l - 1] = ns[j] /\ T[l].id = ns[j].self
    BY <1>9
  <2>3. i = j
    BY <1>1, <1>13, <2>1, <2>2 DEF WellFormed
  <2>4. k - 1 = l - 1
    BY <1>3, <1>9, <2>1, <2>2, <2>3 DEF Listed, size
  <2> QED BY <1>7, <2>4
<1>14. \A k, l \in 1 .. size + 1 : T[k].id = T[l].id => k = l
  BY <1>5, <1>8, <1>10, <1>12, <1>13
<1>15. ASSUME NEW i \in I PROVE ns[i].self \in IdsOf(T)
  <2>1. PICK k \in 1 .. size : leaders[k] = ns[i]
    BY <1>3 DEF Listed, size
  <2>2. k + 1 \in 2 .. size + 1 /\ (k + 1) - 1 = k
    BY <1>7
  <2>3. T[k + 1] = mainNode(ns[i])
    BY <1>8, <2>1, <2>2
  <2>4. k + 1 \in DOMAIN T /\ T[k + 1].id = ns[i].self
    BY <1>6, <1>8, <2>2, <2>3
  <2> QED BY <2>4 DEF IdsOf
<1> QED BY <1>5, <1>7, <1>8, <1>11, <1>14, <1>15 DEF IsTree, I, T

\* A list of groups of a tree in which no id is there twice finds each group by its id.
LEMMA NodeIs ==
    ASSUME NEW d, DOMAIN d \subseteq Nat, \A a, b \in DOMAIN d : d[a].id = d[b].id => a = b,
           NEW a \in DOMAIN d
    PROVE  IdToNode(d, d[a].id) = d[a]
<1> DEFINE at == {i \in DOMAIN d : d[i].id = d[a].id}
<1>1. at = {a} /\ a \in Nat
  OBVIOUS
<1>2. Max({a}) = a
  BY <1>1 DEF Max
<1>3. IdToNode(d, d[a].id) = d[Max(at)]
  BY DEF IdToNode
<1> HIDE DEF at
<1> QED BY <1>1, <1>2, <1>3

LEMMA LookupIs ==
    ASSUME NEW ns, NEW T, IsTree(ns, T), NEW ids, NEW S, Listed(ids, S), S \subseteq IdsOf(T)
    PROVE  LET r == Lookup(T, ids)
           IN  /\ Len(r) \in Nat /\ r \in Seq(Range(T))
               /\ \A k \in 1 .. Len(r) : r[k].id \in S
               /\ \A k, l \in 1 .. Len(r) : r[k].id = r[l].id => k = l
               /\ \A x \in S : \E k \in 1 .. Len(r) : r[k].id = x
<1> DEFINE I == {i \in DOMAIN ids : ids[i] \in IdsOf(T)}
           known == Filtered(ids, I)
           r == Lookup(T, ids)
<1>1. I = 1 .. Len(ids) /\ Len(ids) \in Nat
  BY DEF Listed
<1>2. Listed(known, {ids[i] : i \in I})
  <2>1. IsFiniteSet(1 .. Len(ids)) /\ 1 .. Len(ids) \subseteq Nat
    BY <1>1, FS_Interval
  <2>2. \A i, j \in 1 .. Len(ids) : ids[i] = ids[j] => i = j
    BY DEF Listed
  <2> HIDE DEF I
  <2> QED BY <1>1, <2>1, <2>2, FilteredListed
<1>3. {ids[i] : i \in I} = S
  BY <1>1 DEF Listed
<1>4. Listed(known, S)
  BY <1>2, <1>3
<1>5. r = [k \in 1 .. Len(known) |-> IdToNode(T, known[k])]
  BY DEF Lookup
<1> HIDE DEF known, r, I
<1>6. Len(known) \in Nat /\ Len(r) = Len(known)
  BY <1>4, <1>5 DEF Listed
<1>7. ASSUME NEW k \in 1 .. Len(known)
      PROVE  r[k] \in Range(T) /\ r[k].id = known[k]
  <2>1. known[k] \in IdsOf(T)
    BY <1>4 DEF Listed
  <2>2. PICK a \in DOMAIN T : T[a].id = known[k]
    BY <2>1 DEF IdsOf
  <2>3. DOMAIN T \subseteq Nat /\ \A i, j \in DOMAIN T : T[i].id = T[j].id => i = j
    BY DEF IsTree
  <2>4. IdToNode(T, known[k]) = T[a]
    BY <2>2, <2>3, NodeIs
  <2> QED BY <1>5, <2>2, <2>4 DEF Range
<1>8. r \in Seq(Range(T))
  <2>1. r \in [1 .. Len(known) -> Range(T)]
    BY <1>5, <1>7
  <2> QED BY <1>6, <2>1
<1>9. \A k \in 1 .. Len(r) : r[k].id \in S
  BY <1>4, <1>6, <1>7 DEF Listed
<1>10. \A k, l \in 1 .. Len(r) : r[k].id = r[l].id => k = l
  BY <1>4, <1>6, <1>7 DEF Listed
<1>11. \A x \in S : \E k \in 1 .. Len(r) : r[k].id = x
  BY <1>4, <1>6, <1>7 DEF Listed
<1> QED BY <1>6, <1>8, <1>9, <1>10, <1>11 DEF r

LEMMA ChildrenKnown ==
    ASSUME NEW ns, WellFormed(ns), NEW T, IsTree(ns, T)
    PROVE  \A p : /\ Children(ns, p) \subseteq IdsOf(T) /\ kernelId \notin Children(ns, p)
                  /\ \A q : \A x \in Children(ns, p) \cap Children(ns, q) : p = q
<1>1. \A i \in groupLeaders(ns) : i \in DOMAIN ns /\ ns[i].self \in IdsOf(T)
  BY DEF IsTree, groupLeaders
<1>2. \A i \in groupLeaders(ns) : ns[i].self # kernelId
  BY <1>1, Indexed
<1>3. \A i, j \in groupLeaders(ns) : ns[i].self = ns[j].self => i = j
  BY <1>1 DEF WellFormed
<1> QED BY <1>1, <1>2, <1>3 DEF Children

\* The client is given what the adapter needs.
LEMMA GivenIs ==
    ASSUME TypeInv, KernelInv, NodesInv, ParentsGiven, received = nodes, pc = "answered"
    PROVE  WellFormed(received)
<1>1. received \in Seq(Node) /\ DOMAIN received = 1 .. Len(received)
  BY DEF TypeInv, TypeOK
<1>2. \A i, j \in DOMAIN received : received[i].self = received[j].self => i = j
  BY <1>1 DEF NodesInv
<1>3. \A i \in DOMAIN received :
          /\ received[i].leader = leader[received[i].self]
          /\ leader[received[i].leader] = received[i].leader
          /\ \E j \in DOMAIN received : received[j].self = received[i].leader
  <2>1. \A i \in 1 .. Len(received) :
            /\ received[i].leader = leader[received[i].self]
            /\ \E j \in 1 .. Len(received) : received[j].self = received[i].leader
    BY Zenon DEF ParentsGiven
  <2>2. \A i \in 1 .. Len(received) : leader[received[i].leader] = received[i].leader
    BY DEF NodesInv, KernelInv, GroupInv
  <2> QED BY <1>1, <2>1, <2>2
<1>4. ASSUME NEW i \in DOMAIN received
      PROVE  \E j \in DOMAIN received :
                received[j].self = received[i].leader /\ received[j].leader = received[j].self
  <2>1. PICK j \in DOMAIN received : received[j].self = received[i].leader
    BY <1>3
  <2>2. received[j].leader = leader[received[i].leader]
    BY <1>3, <2>1
  <2> QED BY <1>3, <2>1, <2>2
<1> QED BY <1>1, <1>2, <1>4 DEF WellFormed

\* The groups in the tree are those of the leaders that were given.
LEMMA Adapted ==
    ASSUME WellFormed(received)
    PROVE  /\ IsTree(received, Tree) /\ Ids = IdsOf(Tree) /\ kernelId \in Ids
           /\ \A i \in groupLeaders(received) : received[i].self \in Ids
           /\ \A k \in 1 .. Len(Tree) :
                \/ Tree[k].parentTreeNodeId = kernelId
                \/ \E i \in groupLeaders(received) :
                      Tree[k].parentTreeNodeId = ToTgid(received, received[i].real)
<1>1. IsTree(received, Tree)
  BY TreeIs DEF Tree
<1>2. Ids = IdsOf(Tree)
  BY <1>1 DEF IsTree, Ids, IdsOf
<1>3. kernelId \in Ids
  <2>1. 1 \in 1 .. Len(Tree) /\ Tree[1].id = kernelId
    BY <1>1 DEF IsTree
  <2> QED BY <2>1 DEF Ids
<1>4. \A i \in groupLeaders(received) : received[i].self \in Ids
  BY <1>1, <1>2 DEF IsTree
<1>5. ASSUME NEW k \in 1 .. Len(Tree)
      PROVE  \/ Tree[k].parentTreeNodeId = kernelId
             \/ \E i \in groupLeaders(received) :
                   Tree[k].parentTreeNodeId = ToTgid(received, received[i].real)
  <2>1. IsGroup(received, Tree[k])
    BY <1>1 DEF IsTree
  <2>2. CASE Tree[k].id = kernelId
    <3>1. 1 \in 1 .. Len(Tree) /\ Tree[1].id = kernelId /\ Tree[1].parentTreeNodeId = kernelId
      BY <1>1 DEF IsTree
    <3>2. k = 1
      BY <1>1, <2>2, <3>1 DEF IsTree
    <3> QED BY <3>1, <3>2
  <2>3. CASE Tree[k].id # kernelId
    BY <2>1, <2>3 DEF IsGroup
  <2> QED BY <2>2, <2>3
<1> QED BY <1>1, <1>2, <1>3, <1>4, <1>5

LEMMA Orphans ==
    ASSUME WellFormed(received), pc = "answered", ParentsGiven,
           \A i \in 1 .. Len(received) : leader[received[i].leader] = received[i].leader,
           \A i, j \in 1 .. Len(received) : received[i].self = received[j].self => i = j
    PROVE  OrphansOfLateThreads
<1>0. received \in Seq(Node)
  BY DEF WellFormed
<1> DEFINE Given(t) == \E j \in 1 .. Len(received) : received[j].self = t
<1>1. \A i \in 1 .. Len(received) :
        /\ received[i].leader = leader[received[i].self] /\ Given(received[i].leader)
        /\ received[i].self = received[i].leader =>
             \/ received[i].real = Kernel \/ Given(received[i].real)
             \/ received[i].real > before /\ leader[received[i].real] # received[i].real
  BY Zenon DEF ParentsGiven
<1>2. ASSUME NEW t, Given(t) PROVE ToTgid(received, t) = leader[t] /\ leader[t] \in Ids
  <2>1. PICK i \in 1 .. Len(received) : received[i].self = t
    BY <1>2
  <2>2. {j \in DOMAIN received : received[j].self = t} = {i} /\ i \in Nat
    BY <1>0, <2>1
  <2>3. Max({i}) = i
    BY <2>2 DEF Max
  <2>4. /\ received[i].leader = leader[t] /\ Given(leader[t])
        /\ leader[leader[t]] = leader[t]
    BY <1>1, <2>1
  <2>5. ToTgid(received, t) = leader[t]
    <3> DEFINE at == {j \in DOMAIN received : received[j].self = t}
    <3>1. at # {}
      BY <2>2
    <3>2. ToTgid(received, t) = received[Max(at)].leader
      BY <3>1 DEF ToTgid
    <3> QED BY <2>2, <2>3, <2>4, <3>2
  <2>6. PICK k \in 1 .. Len(received) : received[k].self = leader[t]
    BY <2>4
  <2>7. received[k].leader = received[k].self
    BY <1>1, <2>4, <2>6
  <2>8. k \in groupLeaders(received)
    BY <1>0, <2>6, <2>7 DEF groupLeaders, isGroupLeader
  <2> QED BY <2>5, <2>6, <2>8, Adapted
<1>3. ASSUME NEW t, ~Given(t) PROVE ToTgid(received, t) = t
  <2>1. {j \in DOMAIN received : received[j].self = t} = {}
    BY <1>0, <1>3
  <2> QED BY <2>1 DEF ToTgid
<1>4. ASSUME NEW i \in groupLeaders(received)
      PROVE  LET p == ToTgid(received, received[i].real)
             IN  p \in Ids \/ (p > before /\ leader[p] # p)
  <2>1. i \in 1 .. Len(received) /\ received[i].self = received[i].leader
    BY <1>0 DEF groupLeaders, isGroupLeader
  <2>2. CASE Given(received[i].real)
    BY <1>2, <2>2
  <2>3. CASE ~Given(received[i].real)
    <3>1. ToTgid(received, received[i].real) = received[i].real
      BY <1>3, <2>3
    <3>2. \/ received[i].real = Kernel
          \/ received[i].real > before /\ leader[received[i].real] # received[i].real
      BY <1>1, <2>1, <2>3
    <3> QED BY <3>1, <3>2, Adapted DEF kernelId
  <2> QED BY <2>2, <2>3
<1> QED BY <1>4, Adapted DEF OrphansOfLateThreads

\* Whatever is born, exits and is released around the walk, and wherever the tree is cut: the
\* web application has the parent of each group, but for a thread that was cloned
\* while the walk was past its process.
THEOREM OrphansAlways == Spec => []OrphansOfLateThreads
<1>1. TypeInv /\ KernelInv /\ NodesInv /\ AnswerWhole /\ ParentsGiven => OrphansOfLateThreads
  <2> SUFFICES ASSUME TypeInv, KernelInv, NodesInv, ParentsGiven, received = nodes,
                      pc = "answered"
               PROVE  OrphansOfLateThreads
    BY DEF OrphansOfLateThreads, AnswerWhole
  <2>1. WellFormed(received)
    BY GivenIs
  <2>2. \A i \in 1 .. Len(received) : leader[received[i].leader] = received[i].leader
    BY DEF NodesInv, KernelInv, GroupInv
  <2>3. \A i, j \in 1 .. Len(received) : received[i].self = received[j].self => i = j
    BY DEF NodesInv
  <2> QED BY <2>1, <2>2, <2>3, Orphans
<1> QED
  BY <1>1, Whole, ParentsGivenAlways, TypeInit, TypeStep, KernelInit, KernelStep,
     WalkInit, WalkStep, PTL DEF Spec

----------------------------------------------------------------------------
(* The search.                                                             *)

\* all is what the search has come upon, in the order of the queue, and the first n of it
\* have been taken from there.
Found(ns, T, expanded, all, n) ==
    /\ Len(all) \in Nat \ {0} /\ all \in Seq(Range(T)) /\ n \in 0 .. Len(all)
    /\ all[1] = T[1]
    /\ \A a, b \in 1 .. Len(all) : all[a].id = all[b].id => a = b
    /\ \A a \in 2 .. Len(all) :
          \E b \in 1 .. n : /\ b < a /\ all[b].id \in expanded
                            /\ all[a].id \in Children(ns, all[b].id)
    /\ \A b \in 1 .. n :
          all[b].id \in expanded =>
              \A x \in Children(ns, all[b].id) : \E a \in 1 .. Len(all) : all[a].id = x

More(T, expanded, g) ==
    IF g.id \in expanded THEN Lookup(T, g.childTreeNodeIds) ELSE <<>>

\* r has the groups below g, each once, if g is expanded.
Below(ns, T, expanded, g, r) ==
    /\ Len(r) \in Nat /\ r \in Seq(Range(T))
    /\ \A k \in 1 .. Len(r) : g.id \in expanded /\ r[k].id \in Children(ns, g.id)
    /\ \A k, l \in 1 .. Len(r) : r[k].id = r[l].id => k = l
    /\ g.id \in expanded =>
          \A x \in Children(ns, g.id) : \E k \in 1 .. Len(r) : r[k].id = x

LEMMA MoreIs ==
    ASSUME NEW ns, WellFormed(ns), NEW T, IsTree(ns, T), NEW expanded, NEW g \in Range(T)
    PROVE  Below(ns, T, expanded, g, More(T, expanded, g))
<1>1. g.childTreeNodeIds = ChildIds(ns, g.id)
  BY DEF IsTree, IsGroup, Range
<1>2. Listed(ChildIds(ns, g.id), Children(ns, g.id))
  BY IdsListed
<1>3. Children(ns, g.id) \subseteq IdsOf(T)
  BY ChildrenKnown
<1>4. CASE g.id \in expanded
  BY <1>1, <1>2, <1>3, <1>4, LookupIs DEF More, Below
<1>5. CASE g.id \notin expanded
  BY <1>5 DEF More, Below
<1> QED BY <1>4, <1>5

LEMMA FoundMore ==
    ASSUME NEW ns, WellFormed(ns), NEW T, IsTree(ns, T), NEW expanded, NEW all, NEW n,
           Found(ns, T, expanded, all, n), n < Len(all)
    PROVE  Found(ns, T, expanded, all \o More(T, expanded, all[n + 1]), n + 1)
<1> DEFINE h == all[n + 1]
           r == More(T, expanded, h)
           new == all \o r
           m == Len(all)
<1>1. /\ m \in Nat \ {0} /\ n \in Nat /\ n + 1 \in 1 .. m /\ n + 1 \in Nat
      /\ all \in Seq(Range(T)) /\ h \in Range(T)
  BY DEF Found
<1>2. /\ Len(r) \in Nat /\ r \in Seq(Range(T))
      /\ \A k \in 1 .. Len(r) : h.id \in expanded /\ r[k].id \in Children(ns, h.id)
      /\ \A k, l \in 1 .. Len(r) : r[k].id = r[l].id => k = l
      /\ h.id \in expanded => \A x \in Children(ns, h.id) : \E k \in 1 .. Len(r) : r[k].id = x
  <2>1. Below(ns, T, expanded, h, r)
    <3> HIDE DEF h
    <3> QED BY <1>1, MoreIs
  <2> HIDE DEF h, r
  <2> QED BY <2>1 DEF Below
<1> HIDE DEF r, h
<1>3. /\ new \in Seq(Range(T)) /\ Len(new) = m + Len(r) /\ Len(new) \in Nat \ {0}
      /\ \A a \in 1 .. m : new[a] = all[a]
      /\ \A k \in 1 .. Len(r) : new[m + k] = r[k]
  BY <1>1, <1>2
<1>4. \A a \in 1 .. m + Len(r) :
          a \in 1 .. m \/ \E k \in 1 .. Len(r) : a = m + k
  <2> SUFFICES ASSUME NEW a \in 1 .. m + Len(r), a \notin 1 .. m
               PROVE  \E k \in 1 .. Len(r) : a = m + k
    OBVIOUS
  <2>1. a - m \in 1 .. Len(r) /\ a = m + (a - m)
    BY <1>1, <1>2
  <2> QED BY <2>1
<1>5. \A a \in 1 .. m : a \in 1 .. m + Len(r)
  BY <1>1, <1>2
<1>6. \A k \in 1 .. Len(r) : m + k \in 1 .. m + Len(r)
  BY <1>1, <1>2
<1> HIDE DEF new
<1>7. \A a \in 2 .. m :
          \E b \in 1 .. n : /\ b < a /\ all[b].id \in expanded
                            /\ all[a].id \in Children(ns, all[b].id)
  BY DEF Found
<1>8. ASSUME NEW a \in 1 .. m, NEW k \in 1 .. Len(r) PROVE all[a].id # r[k].id
  <2>1. r[k].id \in Children(ns, h.id)
    BY <1>2
  <2>2. CASE a = 1
    <3>1. all[a].id = kernelId
      BY <2>2 DEF Found, IsTree
    <3> QED BY <2>1, <3>1, ChildrenKnown
  <2>3. CASE a # 1
    <3>1. PICK b \in 1 .. n : all[a].id \in Children(ns, all[b].id)
      BY <1>1, <1>7, <2>3
    <3>2. b \in 1 .. m /\ b # n + 1
      BY <1>1
    <3>3. all[b].id # h.id
      BY <1>1, <3>2 DEF Found, h
    <3> QED BY <2>1, <3>1, <3>3, ChildrenKnown
  <2> QED BY <2>2, <2>3
<1>9. \A a, b \in 1 .. Len(new) : new[a].id = new[b].id => a = b
  <2> SUFFICES ASSUME NEW a \in 1 .. m + Len(r), NEW b \in 1 .. m + Len(r),
                      new[a].id = new[b].id
               PROVE  a = b
    BY <1>3
  <2>1. CASE a \in 1 .. m /\ b \in 1 .. m
    BY <1>3, <2>1 DEF Found
  <2>2. CASE a \in 1 .. m /\ b \notin 1 .. m
    <3>1. PICK k \in 1 .. Len(r) : b = m + k
      BY <1>4, <2>2
    <3> QED BY <1>3, <1>8, <2>2, <3>1
  <2>3. CASE a \notin 1 .. m /\ b \in 1 .. m
    <3>1. PICK k \in 1 .. Len(r) : a = m + k
      BY <1>4, <2>3
    <3> QED BY <1>3, <1>8, <2>3, <3>1
  <2>4. CASE a \notin 1 .. m /\ b \notin 1 .. m
    <3>1. PICK k \in 1 .. Len(r) : a = m + k
      BY <1>4, <2>4
    <3>2. PICK l \in 1 .. Len(r) : b = m + l
      BY <1>4, <2>4
    <3>3. r[k].id = r[l].id
      BY <1>3, <3>1, <3>2
    <3>4. k = l
      BY <1>2, <3>3
    <3> QED BY <3>1, <3>2, <3>4
  <2> QED BY <2>1, <2>2, <2>3, <2>4
<1>10. ASSUME NEW a \in 2 .. Len(new)
       PROVE  \E b \in 1 .. n + 1 : /\ b < a /\ new[b].id \in expanded
                                    /\ new[a].id \in Children(ns, new[b].id)
  <2>1. CASE a \in 1 .. m
    <3>1. a \in 2 .. m
      BY <2>1
    <3>2. PICK b \in 1 .. n : /\ b < a /\ all[b].id \in expanded
                              /\ all[a].id \in Children(ns, all[b].id)
      BY <1>7, <3>1
    <3>3. b \in 1 .. n + 1 /\ b \in 1 .. m
      BY <1>1
    <3> QED BY <1>3, <2>1, <3>2, <3>3
  <2>2. CASE a \notin 1 .. m
    <3>1. PICK k \in 1 .. Len(r) : a = m + k
      BY <1>3, <1>4, <2>2
    <3>2. n + 1 < a /\ n + 1 \in 1 .. n + 1 /\ n + 1 \in 1 .. m
      BY <1>1, <3>1
    <3>3. new[n + 1] = h /\ new[a] = r[k]
      BY <1>3, <3>1, <3>2 DEF h
    <3>4. h.id \in expanded /\ r[k].id \in Children(ns, h.id)
      BY <1>2
    <3> QED BY <3>2, <3>3, <3>4
  <2> QED BY <2>1, <2>2
<1>11. ASSUME NEW b \in 1 .. n + 1, new[b].id \in expanded, NEW x \in Children(ns, new[b].id)
       PROVE  \E a \in 1 .. Len(new) : new[a].id = x
  <2>1. b \in 1 .. m /\ (b \in 1 .. n \/ b = n + 1)
    BY <1>1
  <2>2. new[b] = all[b]
    BY <1>3, <2>1
  <2>3. CASE b \in 1 .. n
    <3>1. PICK a \in 1 .. m : all[a].id = x
      BY <1>11, <2>2, <2>3 DEF Found
    <3> QED BY <1>3, <1>5, <3>1
  <2>4. CASE b = n + 1
    <3>1. PICK k \in 1 .. Len(r) : r[k].id = x
      BY <1>2, <1>11, <2>2, <2>4 DEF h
    <3> QED BY <1>3, <1>6, <3>1
  <2> QED BY <2>1, <2>3, <2>4
<1>12. n + 1 \in 0 .. Len(new) /\ new[1] = T[1]
  <2>1. all[1] = T[1] /\ 1 \in 1 .. m
    BY <1>1 DEF Found
  <2> QED BY <1>1, <1>2, <1>3, <2>1
<1>13. Found(ns, T, expanded, new, n + 1)
  BY <1>3, <1>9, <1>10, <1>11, <1>12 DEF Found
<1> QED BY <1>13 DEF new, r, h

Reached(ns, T, expanded, s) ==
    /\ s.result \in Seq(Range(T)) /\ s.queue \in Seq(Range(T))
    /\ Found(ns, T, expanded, s.result \o s.queue, Len(s.result))

LEMMA Joined ==
    ASSUME NEW S, NEW s \in Seq(S), NEW t \in Seq(S)
    PROVE  /\ s \o t \in Seq(S) /\ Len(s \o t) = Len(s) + Len(t)
           /\ Len(s) \in Nat /\ Len(t) \in Nat
           /\ \A i \in 1 .. Len(s) : (s \o t)[i] = s[i]
           /\ \A i \in Len(s) + 1 .. Len(s) + Len(t) : (s \o t)[i] = t[i - Len(s)]
  OBVIOUS

LEMMA Taken ==
    ASSUME NEW S, NEW r \in Seq(S), NEW q \in Seq(S), q # <<>>, NEW more \in Seq(S)
    PROVE  /\ Append(r, Head(q)) \in Seq(S) /\ Tail(q) \o more \in Seq(S)
           /\ Append(r, Head(q)) \o (Tail(q) \o more) = (r \o q) \o more
           /\ Len(Append(r, Head(q))) = Len(r) + 1 /\ Len(r) < Len(r \o q)
           /\ (r \o q)[Len(r) + 1] = Head(q) /\ Head(q) \in S
<1>1. /\ Len(q) \in Nat \ {0} /\ Len(r) \in Nat /\ Len(more) \in Nat
      /\ Len(Tail(q)) = Len(q) - 1 /\ Head(q) = q[1] /\ Head(q) \in S
      /\ Tail(q) \in Seq(S) /\ \A i \in 1 .. Len(q) - 1 : Tail(q)[i] = q[i + 1]
  OBVIOUS
<1> DEFINE a == Append(r, Head(q))
           b == Tail(q) \o more
           c == r \o q
<1>2. /\ a \in Seq(S) /\ Len(a) = Len(r) + 1 /\ a[Len(r) + 1] = q[1]
      /\ \A i \in 1 .. Len(r) : a[i] = r[i]
  BY <1>1
<1>3. /\ b \in Seq(S) /\ Len(b) = Len(q) - 1 + Len(more)
      /\ \A i \in 1 .. Len(q) - 1 : b[i] = q[i + 1]
      /\ \A i \in Len(q) .. Len(q) - 1 + Len(more) : b[i] = more[i - (Len(q) - 1)]
  BY <1>1
<1>4. /\ c \in Seq(S) /\ Len(c) = Len(r) + Len(q)
      /\ \A i \in 1 .. Len(r) : c[i] = r[i]
      /\ \A i \in Len(r) + 1 .. Len(r) + Len(q) : c[i] = q[i - Len(r)]
  BY <1>1
<1> HIDE DEF a, b, c
<1> DEFINE x == a \o b
           y == c \o more
           n == Len(r) + Len(q) + Len(more)
<1>5. /\ x \in Seq(S) /\ Len(x) = n
      /\ \A i \in 1 .. Len(r) + 1 : x[i] = a[i]
      /\ \A i \in Len(r) + 2 .. n : x[i] = b[i - (Len(r) + 1)]
  <2>1. /\ x \in Seq(S) /\ Len(x) = Len(a) + Len(b)
        /\ \A i \in 1 .. Len(a) : x[i] = a[i]
        /\ \A i \in Len(a) + 1 .. Len(a) + Len(b) : x[i] = b[i - Len(a)]
    <3>1. a \in Seq(S) /\ b \in Seq(S)
      BY <1>2, <1>3
    <3> QED BY <3>1, Joined
  <2>2. /\ Len(a) = Len(r) + 1 /\ Len(a) + Len(b) = n /\ Len(a) + 1 = Len(r) + 2
    BY <1>1, <1>2, <1>3
  <2> HIDE DEF n, x
  <2> QED BY <2>1, <2>2
<1>6. /\ y \in Seq(S) /\ Len(y) = n
      /\ \A i \in 1 .. Len(r) + Len(q) : y[i] = c[i]
      /\ \A i \in Len(r) + Len(q) + 1 .. n : y[i] = more[i - (Len(r) + Len(q))]
  <2>1. /\ y \in Seq(S) /\ Len(y) = Len(c) + Len(more)
        /\ \A i \in 1 .. Len(c) : y[i] = c[i]
        /\ \A i \in Len(c) + 1 .. Len(c) + Len(more) : y[i] = more[i - Len(c)]
    <3>1. c \in Seq(S) /\ more \in Seq(S)
      BY <1>4
    <3> QED BY <3>1, Joined
  <2>2. Len(c) = Len(r) + Len(q) /\ Len(c) + Len(more) = n
    BY <1>4
  <2> HIDE DEF n, y
  <2> QED BY <2>1, <2>2
<1> HIDE DEF x, y
<1>7. ASSUME NEW i \in 1 .. n PROVE x[i] = y[i]
  <2>1. CASE i \in 1 .. Len(r)
    BY <1>1, <1>2, <1>4, <1>5, <1>6, <2>1
  <2>2. CASE i = Len(r) + 1
    <3>1. /\ i \in 1 .. Len(r) + 1 /\ i \in 1 .. Len(r) + Len(q) /\ i - Len(r) = 1
          /\ i \in Len(r) + 1 .. Len(r) + Len(q)
      BY <1>1, <2>2
    <3>2. x[i] = q[1]
      BY <1>2, <1>5, <2>2, <3>1
    <3>3. y[i] = q[1]
      BY <1>4, <1>6, <3>1
    <3> QED BY <3>2, <3>3
  <2>3. CASE i \in Len(r) + 2 .. Len(r) + Len(q)
    <3>1. i - (Len(r) + 1) \in 1 .. Len(q) - 1 /\ i - (Len(r) + 1) + 1 = i - Len(r)
      BY <1>1, <2>3
    <3>2. x[i] = q[i - Len(r)]
      BY <1>1, <1>3, <1>5, <2>3, <3>1
    <3>3. i \in 1 .. Len(r) + Len(q) /\ i \in Len(r) + 1 .. Len(r) + Len(q)
      BY <1>1, <2>3
    <3>4. y[i] = q[i - Len(r)]
      BY <1>4, <1>6, <3>3
    <3> QED BY <3>2, <3>4
  <2>4. CASE i \in Len(r) + Len(q) + 1 .. n
    <3>1. /\ i - (Len(r) + 1) \in Len(q) .. Len(q) - 1 + Len(more)
          /\ i - (Len(r) + 1) - (Len(q) - 1) = i - (Len(r) + Len(q))
      BY <1>1, <2>4
    <3>2. i \in Len(r) + 2 .. n
      BY <1>1, <2>4
    <3>3. x[i] = b[i - (Len(r) + 1)]
      BY <1>5, <3>2
    <3>4. b[i - (Len(r) + 1)] = more[i - (Len(r) + 1) - (Len(q) - 1)]
      BY <1>3, <3>1
    <3>5. x[i] = more[i - (Len(r) + Len(q))]
      BY <3>1, <3>3, <3>4
    <3> QED BY <1>6, <2>4, <3>5
  <2> QED BY <1>1, <2>1, <2>2, <2>3, <2>4
<1>8. x = y
  BY <1>1, <1>5, <1>6, <1>7
<1>9. Len(r) < Len(c) /\ c[Len(r) + 1] = Head(q)
  BY <1>1, <1>4
<1> QED BY <1>1, <1>2, <1>3, <1>8, <1>9 DEF a, b, c, x, y

LEMMA TurnReached ==
    ASSUME NEW ns, WellFormed(ns), NEW T, IsTree(ns, T), NEW expanded,
           NEW s, Reached(ns, T, expanded, s)
    PROVE  /\ Reached(ns, T, expanded, Turn(T, expanded, s))
           /\ s.queue = <<>> => Turn(T, expanded, s) = s
           /\ s.queue # <<>> => Len(Turn(T, expanded, s).result) = Len(s.result) + 1
<1>1. CASE s.queue = <<>>
  BY <1>1 DEF Turn
<1>2. CASE s.queue # <<>>
  <2> DEFINE r == s.result
             q == s.queue
             h == Head(q)
             more == More(T, expanded, h)
             u == Turn(T, expanded, s)
  <2>1. r \in Seq(Range(T)) /\ q \in Seq(Range(T)) /\ h \in Range(T)
    BY <1>2 DEF Reached
  <2>2. u.queue = Tail(q) \o more /\ u.result = Append(r, h)
    BY <1>2 DEF Turn, More
  <2>3. more \in Seq(Range(T))
    <3> HIDE DEF h
    <3>1. Below(ns, T, expanded, h, more)
      BY <2>1, MoreIs
    <3> QED BY <3>1 DEF Below
  <2> HIDE DEF more, u
  <2>4. /\ Append(r, h) \in Seq(Range(T)) /\ Tail(q) \o more \in Seq(Range(T))
        /\ Append(r, h) \o (Tail(q) \o more) = (r \o q) \o more
        /\ Len(Append(r, h)) = Len(r) + 1 /\ Len(r) < Len(r \o q)
        /\ (r \o q)[Len(r) + 1] = h
    <3> DEFINE S == Range(T)
    <3> HIDE DEF r, q, S
    <3>1. q # <<>> /\ h = Head(q)
      BY <1>2 DEF q
    <3>2. r \in Seq(S) /\ q \in Seq(S) /\ more \in Seq(S)
      BY <2>1, <2>3 DEF S
    <3>3. /\ Append(r, Head(q)) \in Seq(S) /\ Tail(q) \o more \in Seq(S)
          /\ Append(r, Head(q)) \o (Tail(q) \o more) = (r \o q) \o more
          /\ Len(Append(r, Head(q))) = Len(r) + 1 /\ Len(r) < Len(r \o q)
          /\ (r \o q)[Len(r) + 1] = Head(q)
      BY <3>1, <3>2, Taken
    <3> HIDE DEF h
    <3> QED BY <3>1, <3>3 DEF S
  <2>5. Found(ns, T, expanded, r \o q, Len(r))
    BY DEF Reached
  <2> HIDE DEF r, q, h
  <2>6. Found(ns, T, expanded, (r \o q) \o More(T, expanded, (r \o q)[Len(r) + 1]), Len(r) + 1)
    <3> DEFINE all == r \o q
               n == Len(r)
    <3>1. Found(ns, T, expanded, all, n) /\ n < Len(all)
      BY <2>4, <2>5
    <3> HIDE DEF all, n
    <3>2. Found(ns, T, expanded, all \o More(T, expanded, all[n + 1]), n + 1)
      BY <3>1, FoundMore
    <3> QED BY <3>2 DEF all, n
  <2>7. Found(ns, T, expanded, u.result \o u.queue, Len(u.result))
    BY <2>2, <2>4, <2>6 DEF more
  <2>8. Reached(ns, T, expanded, u)
    BY <2>2, <2>4, <2>7 DEF Reached
  <2> QED BY <1>2, <2>2, <2>4, <2>8 DEF u, r
<1> QED BY <1>1, <1>2

LEMMA SearchIs ==
    ASSUME NEW T, Len(T) \in Nat, NEW expanded
    PROVE  LET after == Search(T, expanded)
           IN  /\ after[0] = [queue |-> <<T[1]>>, result |-> <<>>]
               /\ \A n \in 1 .. Len(T) : after[n] = Turn(T, expanded, after[n - 1])
<1> DEFINE start == [queue |-> <<T[1]>>, result |-> <<>>]
           Runs(m, f) == f = [n \in 0 .. m |-> IF n = 0 THEN start
                                               ELSE Turn(T, expanded, f[n - 1])]
           able == {m \in Nat : \E f : Runs(m, f)}
<1> HIDE DEF start
<1>1. 0 \in able
  <2>1. Runs(0, [n \in 0 .. 0 |-> start])
    OBVIOUS
  <2> QED BY <2>1
<1>2. ASSUME NEW m \in able PROVE m + 1 \in able
  <2>1. PICK f : Runs(m, f)
    OBVIOUS
  <2> DEFINE g == [n \in 0 .. m + 1 |-> IF n = m + 1 THEN Turn(T, expanded, f[m]) ELSE f[n]]
  <2>2. \A n \in 0 .. m : f[n] = IF n = 0 THEN start ELSE Turn(T, expanded, f[n - 1])
    BY <2>1
  <2>3. ASSUME NEW n \in 0 .. m + 1
        PROVE  g[n] = IF n = 0 THEN start ELSE Turn(T, expanded, g[n - 1])
    <3>1. m \in Nat
      OBVIOUS
    <3>2. CASE n = m + 1
      BY <3>1, <3>2
    <3>3. CASE n = 0
      BY <2>2, <3>1, <3>3
    <3>4. CASE n \in 1 .. m
      <4>1. g[n] = f[n] /\ g[n - 1] = f[n - 1] /\ n # 0 /\ n \in 0 .. m
        BY <3>1, <3>4
      <4> QED BY <2>2, <4>1
    <3> QED BY <3>1, <3>2, <3>3, <3>4
  <2>4. Runs(m + 1, g)
    BY <2>3
  <2>5. m + 1 \in Nat
    OBVIOUS
  <2> HIDE DEF g, Runs
  <2> QED BY <2>4, <2>5
<1>3. \E f : Runs(Len(T), f)
  <2>1. \A k \in 0 .. Len(T) : k \in able
    <3> HIDE DEF able
    <3> QED BY <1>1, <1>2, UpTo
  <2> QED BY <2>1
<1>4. Search(T, expanded) = CHOOSE f : Runs(Len(T), f)
  BY DEF Search, start
<1>5. Runs(Len(T), Search(T, expanded))
  <2> HIDE DEF Runs
  <2> QED BY <1>3, <1>4
<1> DEFINE after == Search(T, expanded)
<1>6. \A n \in 0 .. Len(T) : after[n] = IF n = 0 THEN start ELSE Turn(T, expanded, after[n - 1])
  <2> HIDE DEF after
  <2>1. Runs(Len(T), after)
    BY <1>5 DEF after
  <2> QED BY <2>1
<1> HIDE DEF after
<1>7. after[0] = start
  BY <1>6
<1>8. \A n \in 1 .. Len(T) : after[n] = Turn(T, expanded, after[n - 1])
  BY <1>6
<1> QED BY <1>7, <1>8 DEF after, start

\* The search ends, and has then found the root, what hangs on what was expanded, and no more.
LEMMA Searched ==
    ASSUME NEW ns, WellFormed(ns), NEW T, IsTree(ns, T), NEW expanded
    PROVE  LET d == bfsExpandedNodes(T, expanded)
           IN  /\ Search(T, expanded)[Len(T)].queue = <<>>
               /\ Found(ns, T, expanded, d, Len(d))
<1> DEFINE after == Search(T, expanded)
           m == Len(T)
           R == Range(T)
           good == {n \in 0 .. m : /\ Reached(ns, T, expanded, after[n])
                                   /\ \/ after[n].queue = <<>>
                                      \/ Len(after[n].result) = n}
<1>1. m \in Nat \ {0} /\ DOMAIN T = 1 .. m /\ T[1] \in R
  BY DEF IsTree, Range
<1>2. /\ after[0] = [queue |-> <<T[1]>>, result |-> <<>>]
      /\ \A n \in 1 .. m : after[n] = Turn(T, expanded, after[n - 1])
  BY <1>1, SearchIs
<1> HIDE DEF after, m, R
<1>3. 0 \in good
  <2> DEFINE r == after[0].result
             q == after[0].queue
  <2>1. r = <<>> /\ q = <<T[1]>>
    BY <1>2
  <2>2. r \in Seq(R) /\ q \in Seq(R) /\ r \o q = <<T[1]>> /\ Len(r) = 0
    BY <1>1, <2>1
  <2>3. Found(ns, T, expanded, <<T[1]>>, 0)
    <3>1. /\ Len(<<T[1]>>) = 1 /\ <<T[1]>> \in Seq(R) /\ <<T[1]>>[1] = T[1]
      BY <1>1
    <3> QED BY <3>1 DEF Found, R
  <2> HIDE DEF r, q
  <2>4. Reached(ns, T, expanded, after[0])
    BY <2>2, <2>3 DEF Reached, r, q, R
  <2> QED BY <1>1, <2>2, <2>4 DEF r
<1>4. ASSUME NEW n \in 0 .. m, n \in good, n < m PROVE n + 1 \in good
  <2>1. n + 1 \in 1 .. m /\ (n + 1) - 1 = n /\ n + 1 \in 0 .. m
    BY <1>1, <1>4
  <2>2. after[n + 1] = Turn(T, expanded, after[n])
    BY <1>2, <2>1
  <2>3. /\ Reached(ns, T, expanded, after[n + 1])
        /\ after[n].queue = <<>> => after[n + 1] = after[n]
        /\ after[n].queue # <<>> => Len(after[n + 1].result) = Len(after[n].result) + 1
    <3>1. Reached(ns, T, expanded, after[n])
      BY <1>4
    <3> HIDE DEF good
    <3> QED BY <2>2, <3>1, TurnReached
  <2>4. after[n + 1].queue = <<>> \/ Len(after[n + 1].result) = n + 1
    BY <1>4, <2>3
  <2> QED BY <2>1, <2>3, <2>4
<1>5. m \in good
  <2> HIDE DEF good
  <2>1. \A k \in 0 .. m : k \in good
    BY <1>1, <1>3, <1>4, UpTo
  <2> QED BY <1>1, <2>1
<1> DEFINE s == after[m]
           all == s.result \o s.queue
<1>6. Found(ns, T, expanded, all, Len(s.result)) /\ (s.queue = <<>> \/ Len(s.result) = m)
  BY <1>5 DEF Reached
<1>7. s.result \in Seq(R) /\ s.queue \in Seq(R)
  BY <1>5 DEF Reached, R
<1> HIDE DEF s
<1>8. Len(all) <= m
  <2> HIDE DEF all
  <2> DEFINE f == [a \in 1 .. Len(all) |-> CHOOSE k \in 1 .. m : T[k] = all[a]]
  <2>1. Len(all) \in Nat /\ \A a \in 1 .. Len(all) : all[a] \in R
    BY <1>6 DEF Found, R
  <2>2. \A a \in 1 .. Len(all) : \E k \in 1 .. m : T[k] = all[a]
    BY <1>1, <2>1 DEF R, Range
  <2>3. \A a \in 1 .. Len(all) : f[a] \in 1 .. m /\ T[f[a]] = all[a]
    BY <2>2
  <2>4. f \in [1 .. Len(all) -> 1 .. m]
    BY <2>3
  <2> HIDE DEF f
  <2>5. \A a, b \in 1 .. Len(all) : f[a] = f[b] => a = b
    BY <1>6, <2>3 DEF Found
  <2>6. \A n \in Nat : IsFiniteSet(1 .. n) /\ Cardinality(1 .. n) = n
    BY FS_Interval
  <2>7. ASSUME m < Len(all) PROVE FALSE
    <3>1. /\ IsFiniteSet(1 .. Len(all)) /\ IsFiniteSet(1 .. m)
          /\ Cardinality(1 .. m) < Cardinality(1 .. Len(all))
      BY <1>1, <2>1, <2>6, <2>7
    <3>2. \E a, b \in 1 .. Len(all) : a # b /\ f[a] = f[b]
      BY <2>4, <3>1, FS_PigeonHole
    <3> QED BY <2>5, <3>2
  <2> QED BY <1>1, <2>1, <2>7
<1>9. /\ Len(all) = Len(s.result) + Len(s.queue)
      /\ Len(s.result) \in Nat /\ Len(s.queue) \in Nat
  BY <1>7, Joined DEF all
<1>10. s.queue = <<>>
  <2>1. CASE Len(s.result) = m
    <3>1. Len(s.queue) = 0
      BY <1>1, <1>8, <1>9, <2>1
    <3> QED BY <1>7, <3>1
  <2> QED BY <1>6, <2>1
<1>11. all = s.result
  BY <1>7, <1>10
<1>12. Found(ns, T, expanded, s.result, Len(s.result))
  BY <1>6, <1>11
<1> QED BY <1>10, <1>12 DEF bfsExpandedNodes, s, after, m

----------------------------------------------------------------------------
(* What is drawn.                                                          *)

LEMMA TgidIs ==
    ASSUME NEW ns, WellFormed(ns), NEW t
    PROVE  /\ (\A k \in DOMAIN ns : ns[k].self # t) => ToTgid(ns, t) = t
           /\ \A k \in DOMAIN ns : ns[k].self = t => ToTgid(ns, t) = ns[k].leader
<1> DEFINE at == {i \in DOMAIN ns : ns[i].self = t}
<1>1. ToTgid(ns, t) = IF at = {} THEN t ELSE ns[Max(at)].leader
  BY DEF ToTgid
<1>2. ASSUME NEW k \in DOMAIN ns, ns[k].self = t PROVE ToTgid(ns, t) = ns[k].leader
  <2>1. at = {k} /\ at # {}
    BY <1>2 DEF WellFormed
  <2>2. Max({k}) = k
    BY Indexed DEF Max
  <2> HIDE DEF at
  <2> QED BY <1>1, <2>1, <2>2
<1> QED BY <1>1, <1>2

\* The parent of a group below p is p or a thread of p.
LEMMA ParentIs ==
    ASSUME NEW ns, WellFormed(ns), NEW i \in groupLeaders(ns), NEW p
    PROVE  ns[i].self \in Children(ns, p) <=>
               \/ ns[i].real = p /\ ToTgid(ns, p) = p
               \/ ns[i].real \in ThreadIds(ns, p)
<1>1. \A j \in groupLeaders(ns) : j \in DOMAIN ns
  BY DEF groupLeaders
<1>2. ns[i].self \in Children(ns, p) <=> ToTgid(ns, ns[i].real) = p
  <2>1. \A j \in groupLeaders(ns) : ns[j].self = ns[i].self => j = i
    BY <1>1 DEF WellFormed
  <2> QED BY <2>1 DEF Children
<1> DEFINE t == ns[i].real
<1>3. CASE \A k \in DOMAIN ns : ns[k].self # t
  <2>1. ToTgid(ns, t) = t
    BY <1>3, TgidIs
  <2>2. t \notin ThreadIds(ns, p)
    BY <1>3 DEF ThreadIds, childThreads
  <2> QED BY <1>2, <2>1, <2>2
<1>4. ASSUME NEW k \in DOMAIN ns, ns[k].self = t
      PROVE  ToTgid(ns, t) = p <=> \/ t = p /\ ToTgid(ns, p) = p
                                   \/ t \in ThreadIds(ns, p)
  <2>1. ToTgid(ns, t) = ns[k].leader
    BY <1>4, TgidIs
  <2>2. t \in ThreadIds(ns, p) <=> ns[k].self # ns[k].leader /\ ns[k].leader = p
    BY <1>4 DEF ThreadIds, childThreads, isGroupLeader, WellFormed
  <2> HIDE DEF t
  <2> QED BY <1>4, <2>1, <2>2
<1> QED BY <1>2, <1>3, <1>4

LEMMA SubNodesListed ==
    ASSUME NEW ns, WellFormed(ns), NEW g, IsGroup(ns, g)
    PROVE  Listed(g.subNodes, ThreadIds(ns, g.id))
<1>1. CASE g.id = kernelId /\ g.subNodes = <<>>
  <2>1. \A i \in childThreads(ns) : ns[i].leader # kernelId
    BY Indexed DEF childThreads
  <2>2. ThreadIds(ns, g.id) = {}
    BY <1>1, <2>1 DEF ThreadIds
  <2> QED BY <1>1, <2>2 DEF Listed
<1>2. CASE g.subNodes = SubNodes(ns, g.id)
  BY <1>2, IdsListed
<1> QED BY <1>1, <1>2 DEF IsGroup

\* Groups of the tree of which no two have one id, with the root in front.
Groups(ns, d) ==
    /\ Len(d) \in Nat \ {0} /\ DOMAIN d = 1 .. Len(d) /\ d[1].id = kernelId
    /\ \A a \in DOMAIN d : IsGroup(ns, d[a])
    /\ \A a, b \in DOMAIN d : d[a].id = d[b].id => a = b

LEMMA FoundGroups ==
    ASSUME NEW ns, NEW T, IsTree(ns, T), NEW expanded, NEW d, Found(ns, T, expanded, d, Len(d))
    PROVE  Groups(ns, d)
<1>1. Len(d) \in Nat \ {0} /\ DOMAIN d = 1 .. Len(d) /\ \A a \in DOMAIN d : d[a] \in Range(T)
  BY DEF Found
<1>2. \A g \in Range(T) : IsGroup(ns, g)
  BY DEF IsTree, Range
<1>3. d[1].id = kernelId
  BY DEF Found, IsTree
<1> QED BY <1>1, <1>2, <1>3 DEF Found, Groups

LEMMA FlowIs ==
    ASSUME NEW ns, WellFormed(ns), NEW d, Groups(ns, d)
    PROVE  LET f == FlowNodes(d)
           IN  /\ \A at \in DOMAIN f :
                     \E a \in DOMAIN d : \E k \in 0 .. Len(d[a].subNodes) :
                        /\ at = <<a, k>>
                        /\ f[at] = IF k = 0 THEN d[a].id ELSE d[a].subNodes[k]
               /\ \A a \in DOMAIN d : \A k \in 0 .. Len(d[a].subNodes) :
                     /\ <<a, k>> \in DOMAIN f
                     /\ f[<<a, k>>] = IF k = 0 THEN d[a].id ELSE d[a].subNodes[k]
<1> DEFINE places == UNION {{<<i, k>> : k \in 0 .. Len(d[i].subNodes)} : i \in DOMAIN d}
           f == FlowNodes(d)
<1>1. f = [at \in places |-> IF at[2] = 0 THEN d[at[1]].id ELSE d[at[1]].subNodes[at[2]]]
  BY DEF FlowNodes
<1>2. \A a \in DOMAIN d : \A k \in 0 .. Len(d[a].subNodes) : <<a, k>> \in places
  OBVIOUS
<1>3. \A at \in places : \E a \in DOMAIN d : \E k \in 0 .. Len(d[a].subNodes) : at = <<a, k>>
  OBVIOUS
<1> HIDE DEF places, f
<1>4. DOMAIN f = places
  BY <1>1
<1>5. \A a \in DOMAIN d : \A k \in 0 .. Len(d[a].subNodes) :
          f[<<a, k>>] = IF k = 0 THEN d[a].id ELSE d[a].subNodes[k]
  BY <1>1, <1>2
<1>6. \A at \in places :
          \E a \in DOMAIN d : \E k \in 0 .. Len(d[a].subNodes) :
             at = <<a, k>> /\ f[at] = IF k = 0 THEN d[a].id ELSE d[a].subNodes[k]
  BY <1>3, <1>5
<1> QED BY <1>2, <1>4, <1>5, <1>6 DEF f

LEMMA FlowRange ==
    ASSUME NEW ns, WellFormed(ns), NEW d, Groups(ns, d)
    PROVE  Range(FlowNodes(d)) = IdsOf(d) \cup UNION {ThreadIds(ns, id) : id \in IdsOf(d)}
<1> DEFINE f == FlowNodes(d)
<1>1. \A a \in DOMAIN d : Listed(d[a].subNodes, ThreadIds(ns, d[a].id))
  BY SubNodesListed DEF Groups
<1>2. ASSUME NEW x \in Range(f)
      PROVE  \E a \in DOMAIN d : x = d[a].id \/ x \in ThreadIds(ns, d[a].id)
  <2>1. PICK at \in DOMAIN f : x = f[at]
    BY DEF Range
  <2>a. PICK a \in DOMAIN d : \E k \in 0 .. Len(d[a].subNodes) :
            f[at] = IF k = 0 THEN d[a].id ELSE d[a].subNodes[k]
    BY FlowIs
  <2> HIDE DEF f
  <2>2. PICK k \in 0 .. Len(d[a].subNodes) :
            f[at] = IF k = 0 THEN d[a].id ELSE d[a].subNodes[k]
    BY <2>a
  <2>3. Listed(d[a].subNodes, ThreadIds(ns, d[a].id))
    BY <1>1
  <2>4. k # 0 => k \in 1 .. Len(d[a].subNodes) /\ d[a].subNodes[k] \in ThreadIds(ns, d[a].id)
    BY <2>3 DEF Listed
  <2> QED BY <2>1, <2>2, <2>4
<1>3. ASSUME NEW a \in DOMAIN d PROVE d[a].id \in Range(f)
  <2>1. 0 \in 0 .. Len(d[a].subNodes)
    BY <1>1 DEF Listed
  <2>2. <<a, 0>> \in DOMAIN f /\ f[<<a, 0>>] = d[a].id
    BY <2>1, FlowIs
  <2> HIDE DEF f
  <2> QED BY <2>2 DEF Range
<1>4. ASSUME NEW a \in DOMAIN d, NEW x \in ThreadIds(ns, d[a].id) PROVE x \in Range(f)
  <2>1. Listed(d[a].subNodes, ThreadIds(ns, d[a].id))
    BY <1>1
  <2>2. PICK k \in 1 .. Len(d[a].subNodes) : d[a].subNodes[k] = x
    BY <2>1 DEF Listed
  <2>3. k \in 0 .. Len(d[a].subNodes) /\ k # 0
    BY <2>1 DEF Listed
  <2>4. <<a, k>> \in DOMAIN f /\ f[<<a, k>>] = x
    BY <2>2, <2>3, FlowIs
  <2> HIDE DEF f
  <2> QED BY <2>4 DEF Range
<1> HIDE DEF f
<1>5. \A x \in Range(f) : x \in IdsOf(d) \cup UNION {ThreadIds(ns, id) : id \in IdsOf(d)}
  BY <1>2 DEF IdsOf
<1>6. \A x \in IdsOf(d) \cup UNION {ThreadIds(ns, id) : id \in IdsOf(d)} : x \in Range(f)
  BY <1>3, <1>4 DEF IdsOf
<1> QED BY <1>5, <1>6 DEF f

\* A group is not drawn as a thread, and a thread is in one group.
LEMMA FlowOnce ==
    ASSUME NEW ns, WellFormed(ns), NEW d, Groups(ns, d)
    PROVE  IsInjective(FlowNodes(d))
<1> DEFINE f == FlowNodes(d)
<1>1. \A a \in DOMAIN d : Listed(d[a].subNodes, ThreadIds(ns, d[a].id))
  BY SubNodesListed DEF Groups
<1>2. \A p, q : \A x \in ThreadIds(ns, p) \cap ThreadIds(ns, q) : p = q
  BY DEF ThreadIds, childThreads, WellFormed
<1>3. ASSUME NEW a \in DOMAIN d, NEW p PROVE d[a].id \notin ThreadIds(ns, p)
  <2>1. \A i \in childThreads(ns) : /\ i \in DOMAIN ns /\ ns[i].self # kernelId
                                    /\ ns[i].self # ns[i].leader
    BY Indexed DEF childThreads, isGroupLeader
  <2>2. IsGroup(ns, d[a])
    BY DEF Groups
  <2>3. d[a].id = kernelId \/ \E i \in groupLeaders(ns) : d[a].id = ns[i].self
    BY <2>2 DEF IsGroup
  <2>4. ASSUME NEW i \in groupLeaders(ns), NEW j \in childThreads(ns), ns[i].self = ns[j].self
        PROVE  FALSE
    <3>1. i \in DOMAIN ns /\ ns[i].self = ns[i].leader
      BY DEF groupLeaders, isGroupLeader
    <3>2. i = j
      BY <2>1, <2>4, <3>1 DEF WellFormed
    <3> QED BY <2>1, <3>1, <3>2
  <2> QED BY <2>1, <2>3, <2>4 DEF ThreadIds
<1>4. ASSUME NEW x \in DOMAIN f, NEW y \in DOMAIN f, f[x] = f[y] PROVE x = y
  <2>a. PICK a \in DOMAIN d : \E k \in 0 .. Len(d[a].subNodes) :
            x = <<a, k>> /\ f[x] = IF k = 0 THEN d[a].id ELSE d[a].subNodes[k]
    BY FlowIs
  <2>1. PICK k \in 0 .. Len(d[a].subNodes) :
            x = <<a, k>> /\ f[x] = IF k = 0 THEN d[a].id ELSE d[a].subNodes[k]
    BY <2>a
  <2>b. PICK b \in DOMAIN d : \E l \in 0 .. Len(d[b].subNodes) :
            y = <<b, l>> /\ f[y] = IF l = 0 THEN d[b].id ELSE d[b].subNodes[l]
    BY FlowIs
  <2>2. PICK l \in 0 .. Len(d[b].subNodes) :
            y = <<b, l>> /\ f[y] = IF l = 0 THEN d[b].id ELSE d[b].subNodes[l]
    BY <2>b
  <2> HIDE DEF f
  <2>3. /\ Listed(d[a].subNodes, ThreadIds(ns, d[a].id))
        /\ Listed(d[b].subNodes, ThreadIds(ns, d[b].id))
    BY <1>1
  <2>4. /\ k # 0 => k \in 1 .. Len(d[a].subNodes) /\ d[a].subNodes[k] \in ThreadIds(ns, d[a].id)
        /\ l # 0 => l \in 1 .. Len(d[b].subNodes) /\ d[b].subNodes[l] \in ThreadIds(ns, d[b].id)
    BY <2>3 DEF Listed
  <2>5. CASE k = 0 /\ l = 0
    <3>1. a = b
      BY <1>4, <2>1, <2>2, <2>5 DEF Groups
    <3> QED BY <2>1, <2>2, <2>5, <3>1
  <2>6. CASE k = 0 /\ l # 0
    BY <1>3, <1>4, <2>1, <2>2, <2>4, <2>6
  <2>7. CASE k # 0 /\ l = 0
    BY <1>3, <1>4, <2>1, <2>2, <2>4, <2>7
  <2>8. CASE k # 0 /\ l # 0
    <3>1. d[a].subNodes[k] = d[b].subNodes[l]
      BY <1>4, <2>1, <2>2, <2>8
    <3>2. d[a].id = d[b].id
      BY <1>2, <2>4, <2>8, <3>1
    <3>3. a = b
      BY <3>2 DEF Groups
    <3>4. k = l
      BY <2>3, <2>4, <2>8, <3>1, <3>3 DEF Listed
    <3> QED BY <2>1, <2>2, <3>3, <3>4
  <2> QED BY <2>5, <2>6, <2>7, <2>8
<1> HIDE DEF f
<1>5. IsInjective(f)
  BY <1>4 DEF IsInjective
<1> QED BY <1>5 DEF f

----------------------------------------------------------------------------
(* The nesting.                                                            *)

\* The ids of the groups of d below those with an id in S.
Under(d, S) == {id \in IdsOf(d) : \E p \in S : id \in Range(IdToNode(d, p).childTreeNodeIds)}

LEMMA NestedIs ==
    ASSUME NEW d, Len(d) \in Nat
    PROVE  LET below == Nested(d)
           IN  /\ below[0] = {d[1].id}
               /\ \A n \in 1 .. Len(d) : below[n] = Under(d, below[n - 1])
<1> DEFINE start == {d[1].id}
           Runs(m, f) == f = [n \in 0 .. m |-> IF n = 0 THEN start
                                               ELSE Under(d, f[n - 1])]
           able == {m \in Nat : \E f : Runs(m, f)}
<1> HIDE DEF start
<1>1. 0 \in able
  <2>1. Runs(0, [n \in 0 .. 0 |-> start])
    OBVIOUS
  <2> QED BY <2>1
<1>2. ASSUME NEW m \in able PROVE m + 1 \in able
  <2>1. PICK f : Runs(m, f)
    OBVIOUS
  <2> DEFINE g == [n \in 0 .. m + 1 |-> IF n = m + 1 THEN Under(d, f[m]) ELSE f[n]]
  <2>2. \A n \in 0 .. m : f[n] = IF n = 0 THEN start ELSE Under(d, f[n - 1])
    BY <2>1
  <2>3. ASSUME NEW n \in 0 .. m + 1
        PROVE  g[n] = IF n = 0 THEN start ELSE Under(d, g[n - 1])
    <3>1. m \in Nat
      OBVIOUS
    <3>2. CASE n = m + 1
      BY <3>1, <3>2
    <3>3. CASE n = 0
      BY <2>2, <3>1, <3>3
    <3>4. CASE n \in 1 .. m
      <4>1. g[n] = f[n] /\ g[n - 1] = f[n - 1] /\ n # 0 /\ n \in 0 .. m
        BY <3>1, <3>4
      <4> QED BY <2>2, <4>1
    <3> QED BY <3>1, <3>2, <3>3, <3>4
  <2>4. Runs(m + 1, g)
    BY <2>3
  <2>5. m + 1 \in Nat
    OBVIOUS
  <2> HIDE DEF g, Runs
  <2> QED BY <2>4, <2>5
<1>3. \E f : Runs(Len(d), f)
  <2>1. \A k \in 0 .. Len(d) : k \in able
    <3> HIDE DEF able
    <3> QED BY <1>1, <1>2, UpTo
  <2> QED BY <2>1
<1>4. Nested(d) = CHOOSE f : Runs(Len(d), f)
  BY DEF Nested, start, Under
<1>5. Runs(Len(d), Nested(d))
  <2> HIDE DEF Runs
  <2> QED BY <1>3, <1>4
<1> DEFINE below == Nested(d)
<1>6. \A n \in 0 .. Len(d) : below[n] = IF n = 0 THEN start ELSE Under(d, below[n - 1])
  <2> HIDE DEF below
  <2>1. Runs(Len(d), below)
    BY <1>5 DEF below
  <2> QED BY <2>1
<1> HIDE DEF below
<1>7. below[0] = start
  BY <1>6
<1>8. \A n \in 1 .. Len(d) : below[n] = Under(d, below[n - 1])
  BY <1>6
<1> QED BY <1>7, <1>8 DEF below, start

LEMMA UnderIs ==
    ASSUME NEW ns, WellFormed(ns), NEW d, Groups(ns, d), NEW S, S \subseteq IdsOf(d), NEW x
    PROVE  x \in Under(d, S) <=>
               x \in IdsOf(d) /\ \E b \in DOMAIN d : d[b].id \in S /\ x \in Children(ns, d[b].id)
<1>1. ASSUME NEW b \in DOMAIN d
      PROVE  Range(IdToNode(d, d[b].id).childTreeNodeIds) = Children(ns, d[b].id)
  <2>1. IdToNode(d, d[b].id) = d[b]
    BY NodeIs DEF Groups
  <2>2. d[b].childTreeNodeIds = ChildIds(ns, d[b].id)
    BY DEF Groups, IsGroup
  <2>3. Listed(d[b].childTreeNodeIds, Children(ns, d[b].id))
    BY <2>2, IdsListed
  <2>4. Range(d[b].childTreeNodeIds) = Children(ns, d[b].id)
    BY <2>3 DEF Listed, Range
  <2> QED BY <2>1, <2>4
<1>2. \A p \in S : \E b \in DOMAIN d : p = d[b].id
  BY DEF IdsOf
<1>3. (\E p \in S : x \in Range(IdToNode(d, p).childTreeNodeIds)) <=>
          \E b \in DOMAIN d : d[b].id \in S /\ x \in Children(ns, d[b].id)
  BY <1>1, <1>2
<1> QED BY <1>3 DEF Under

\* A group of the search other than the root is below exactly one that was found before it.
LEMMA ParentBefore ==
    ASSUME NEW ns, WellFormed(ns), NEW T, IsTree(ns, T), NEW expanded,
           NEW d, Found(ns, T, expanded, d, Len(d)), NEW a \in DOMAIN d
    PROVE  /\ a # 1 => \E b \in DOMAIN d : b < a /\ d[a].id \in Children(ns, d[b].id)
           /\ \A b \in DOMAIN d : d[a].id \in Children(ns, d[b].id) => b < a
<1>1. DOMAIN d = 1 .. Len(d) /\ Len(d) \in Nat /\ d[1].id = kernelId
  BY DEF Found, IsTree
<1>2. a # 1 => \E b \in DOMAIN d : b < a /\ d[a].id \in Children(ns, d[b].id)
  <2> SUFFICES ASSUME a # 1
               PROVE  \E b \in DOMAIN d : b < a /\ d[a].id \in Children(ns, d[b].id)
    OBVIOUS
  <2>1. a \in 2 .. Len(d)
    BY <1>1
  <2>2. PICK b \in 1 .. Len(d) : b < a /\ d[a].id \in Children(ns, d[b].id)
    BY <2>1 DEF Found
  <2> QED BY <1>1, <2>2
<1>3. ASSUME NEW b \in DOMAIN d, d[a].id \in Children(ns, d[b].id) PROVE b < a
  <2>1. a # 1
    BY <1>1, <1>3, ChildrenKnown
  <2>2. PICK c \in DOMAIN d : c < a /\ d[a].id \in Children(ns, d[c].id)
    BY <1>2, <2>1
  <2>3. d[b].id = d[c].id
    BY <1>3, <2>2, ChildrenKnown
  <2>4. b = c
    BY <1>1, <2>3 DEF Found
  <2> QED BY <2>2, <2>4
<1> QED BY <1>2, <1>3

\* So a level of the nesting leaves behind at least one more of the groups.
LEMMA NestedEnds ==
    ASSUME NEW ns, WellFormed(ns), NEW T, IsTree(ns, T), NEW expanded,
           NEW d, Found(ns, T, expanded, d, Len(d))
    PROVE  \A n \in 0 .. Len(d) : Nested(d)[n] \subseteq {d[a].id : a \in n + 1 .. Len(d)}
<1> DEFINE m == Len(d)
           below == Nested(d)
           ahead(n) == {d[a].id : a \in n + 1 .. m}
           good == {n \in 0 .. m : below[n] \subseteq ahead(n)}
<1>1. m \in Nat \ {0} /\ DOMAIN d = 1 .. m
  BY DEF Found
<1>2. below[0] = {d[1].id} /\ \A n \in 1 .. m : below[n] = Under(d, below[n - 1])
  BY <1>1, NestedIs
<1>3. Groups(ns, d)
  BY FoundGroups
<1> HIDE DEF below, m
<1>4. 0 \in good
  BY <1>1, <1>2
<1>5. ASSUME NEW n \in 0 .. m, n \in good, n < m PROVE n + 1 \in good
  <2>1. n + 1 \in 0 .. m /\ n + 1 \in 1 .. m /\ (n + 1) - 1 = n
    BY <1>1, <1>5
  <2>2. below[n + 1] = Under(d, below[n])
    BY <1>2, <2>1
  <2>3. ASSUME NEW y \in below[n]
        PROVE  \E b \in n + 1 .. m : y = d[b].id
    BY <1>5
  <2>4. \A b \in n + 1 .. m : b \in DOMAIN d
    BY <1>1
  <2>5. below[n] \subseteq IdsOf(d)
    BY <2>3, <2>4 DEF IdsOf
  <2>6. ASSUME NEW x \in below[n + 1] PROVE \E a \in (n + 1) + 1 .. m : x = d[a].id
    <3>1. x \in IdsOf(d) /\ \E b \in DOMAIN d : d[b].id \in below[n] /\ x \in Children(ns, d[b].id)
      <4>1. x \in Under(d, below[n])
        BY <2>2
      <4> HIDE DEF good
      <4> QED BY <1>3, <2>5, <4>1, UnderIs
    <3>2. PICK a \in DOMAIN d : x = d[a].id
      BY <3>1 DEF IdsOf
    <3>3. PICK b \in DOMAIN d : d[b].id \in below[n] /\ x \in Children(ns, d[b].id)
      BY <3>1
    <3>4. PICK c \in n + 1 .. m : d[b].id = d[c].id
      BY <2>3, <3>3
    <3>5. b = c
      BY <1>3, <2>4, <3>4 DEF Groups
    <3>6. b < a
      BY <3>2, <3>3, ParentBefore
    <3>7. a \in (n + 1) + 1 .. m
      BY <1>1, <3>4, <3>5, <3>6
    <3> QED BY <3>2, <3>7
  <2>7. below[n + 1] \subseteq ahead(n + 1)
    BY <2>6
  <2> QED BY <2>1, <2>7
<1>6. \A n \in 0 .. m : n \in good
  <2> HIDE DEF good
  <2> QED BY <1>1, <1>4, <1>5, UpTo
<1> QED BY <1>6 DEF below, m

LEMMA NestedAll ==
    ASSUME NEW ns, WellFormed(ns), NEW T, IsTree(ns, T), NEW expanded,
           NEW d, Found(ns, T, expanded, d, Len(d))
    PROVE  UNION {Nested(d)[n] : n \in 0 .. Len(d)} = IdsOf(d)
<1> DEFINE m == Len(d)
           below == Nested(d)
           bad == {a \in 1 .. m : ~\E n \in 0 .. m : n < a /\ d[a].id \in below[n]}
<1>1. m \in Nat \ {0} /\ DOMAIN d = 1 .. m
  BY DEF Found
<1>2. below[0] = {d[1].id} /\ \A n \in 1 .. m : below[n] = Under(d, below[n - 1])
  BY <1>1, NestedIs
<1>3. Groups(ns, d)
  BY FoundGroups
<1>4. \A n \in 0 .. m : below[n] \subseteq IdsOf(d)
  <2>1. \A n \in 0 .. m : \A a \in n + 1 .. m : a \in DOMAIN d
    BY <1>1
  <2>2. \A n \in 0 .. m : below[n] \subseteq {d[a].id : a \in n + 1 .. m}
    BY NestedEnds
  <2> HIDE DEF below, m
  <2> QED BY <2>1, <2>2 DEF IdsOf
<1> HIDE DEF below, m
<1>5. bad = {}
  <2> SUFFICES ASSUME bad # {} PROVE FALSE
    OBVIOUS
  <2>1. bad \in SUBSET Nat
    BY <1>1
  <2>2. PICK a \in bad : \A k \in bad : a <= k
    <3> HIDE DEF bad
    <3> QED BY <2>1, Smallest
  <2>3. a \in 1 .. m /\ a \in DOMAIN d
    BY <1>1
  <2>4. CASE a = 1
    <3>1. 0 \in 0 .. m /\ 0 < a /\ d[a].id \in below[0]
      BY <1>1, <1>2, <2>4
    <3> QED BY <3>1
  <2>5. CASE a # 1
    <3>1. PICK b \in DOMAIN d : b < a /\ d[a].id \in Children(ns, d[b].id)
      BY <2>3, <2>5, ParentBefore
    <3>2. b \notin bad /\ b \in 1 .. m
      BY <1>1, <2>2, <2>3, <3>1
    <3>3. PICK n \in 0 .. m : n < b /\ d[b].id \in below[n]
      BY <3>2
    <3>4. n + 1 \in 1 .. m /\ (n + 1) - 1 = n /\ n + 1 \in 0 .. m /\ n + 1 < a
      BY <1>1, <2>3, <3>1, <3>2, <3>3
    <3>5. below[n + 1] = Under(d, below[n])
      BY <1>2, <3>4
    <3>6. d[a].id \in IdsOf(d) /\ below[n] \subseteq IdsOf(d)
      BY <1>4, <2>3 DEF IdsOf
    <3>7. d[a].id \in Under(d, below[n])
      <4> HIDE DEF bad
      <4> QED BY <1>3, <3>1, <3>3, <3>6, UnderIs
    <3> QED BY <3>4, <3>5, <3>7
  <2> QED BY <2>4, <2>5
<1>6. \A x \in IdsOf(d) : \E n \in 0 .. m : x \in below[n]
  BY <1>1, <1>5 DEF IdsOf
<1>7. UNION {below[n] : n \in 0 .. m} = IdsOf(d)
  BY <1>4, <1>6
<1> QED BY <1>7 DEF below, m

\* An edge begins at the parent of the group it leads to, which is drawn as a group or inside of one.
LEMMA EdgesDrawn ==
    ASSUME NEW ns, WellFormed(ns), NEW T, IsTree(ns, T), NEW expanded,
           NEW d, Found(ns, T, expanded, d, Len(d)), NEW i \in DOMAIN FlowEdges(d)
    PROVE  FlowEdges(d)[i].source \in Range(FlowNodes(d))
<1>1. i \in DOMAIN d /\ d[i].id # kernelId /\ FlowEdges(d)[i].source = d[i].parentId
  BY DEF FlowEdges
<1>2. Groups(ns, d)
  BY FoundGroups
<1>3. i # 1
  BY <1>1, <1>2 DEF Groups
<1>4. PICK j \in groupLeaders(ns) : d[i].id = ns[j].self /\ d[i].parentId = ns[j].real
  BY <1>1, <1>2 DEF Groups, IsGroup
<1>5. PICK b \in DOMAIN d : d[i].id \in Children(ns, d[b].id)
  BY <1>1, <1>3, ParentBefore
<1>6. ns[j].real = d[b].id \/ ns[j].real \in ThreadIds(ns, d[b].id)
  BY <1>4, <1>5, ParentIs
<1>7. d[b].id \in IdsOf(d)
  BY DEF IdsOf
<1>8. ns[j].real \in Range(FlowNodes(d))
  BY <1>2, <1>6, <1>7, FlowRange
<1> QED BY <1>1, <1>4, <1>8

----------------------------------------------------------------------------
(* What hangs on the kernel.                                               *)

GivenOf(ns) == {ns[i].self : i \in DOMAIN ns} \cup {kernelId}
Above(n) == IF n.leader # n.self THEN n.leader ELSE n.real
Closed(ns, S) ==
    /\ kernelId \in S
    /\ \A i \in DOMAIN ns : Above(ns[i]) \in S => ns[i].self \in S

\* Everything that the search with all groups expanded draws hangs on the kernel.
LEMMA DrawnHangs ==
    ASSUME NEW ns, WellFormed(ns), NEW T, IsTree(ns, T), NEW expanded,
           NEW d, Found(ns, T, expanded, d, Len(d)), NEW S, Closed(ns, S)
    PROVE  Range(FlowNodes(d)) \subseteq S
<1> DEFINE bad == {a \in DOMAIN d : d[a].id \notin S}
<1>1. Groups(ns, d) /\ DOMAIN d \subseteq Nat
  BY FoundGroups DEF Groups
<1>2. ASSUME NEW p \in S, NEW x \in ThreadIds(ns, p) PROVE x \in S
  <2>1. PICK i \in childThreads(ns) : x = ns[i].self /\ ns[i].leader = p
    BY DEF ThreadIds
  <2>2. i \in DOMAIN ns /\ Above(ns[i]) = p
    BY <2>1 DEF childThreads, isGroupLeader, Above
  <2> QED BY <2>1, <2>2 DEF Closed
<1>3. bad = {}
  <2> SUFFICES ASSUME bad # {} PROVE FALSE
    OBVIOUS
  <2>1. bad \in SUBSET Nat
    BY <1>1
  <2>2. PICK a \in bad : \A k \in bad : a <= k
    <3> HIDE DEF bad
    <3> QED BY <2>1, Smallest
  <2>3. a \in DOMAIN d /\ a # 1
    BY <1>1 DEF Groups, Closed
  <2>4. PICK b \in DOMAIN d : b < a /\ d[a].id \in Children(ns, d[b].id)
    BY <2>3, ParentBefore
  <2>5. d[b].id \in S
    BY <1>1, <2>2, <2>3, <2>4
  <2>6. PICK j \in groupLeaders(ns) : d[a].id = ns[j].self
    BY <2>4 DEF Children
  <2>7. ns[j].real = d[b].id \/ ns[j].real \in ThreadIds(ns, d[b].id)
    BY <2>4, <2>6, ParentIs
  <2>8. ns[j].real \in S
    BY <1>2, <2>5, <2>7
  <2>9. j \in DOMAIN ns /\ Above(ns[j]) = ns[j].real
    BY DEF groupLeaders, isGroupLeader, Above
  <2>10. ns[j].self \in S
    BY <2>8, <2>9 DEF Closed
  <2> QED BY <2>6, <2>10
<1>4. IdsOf(d) \subseteq S
  BY <1>3 DEF IdsOf
<1> HIDE DEF bad
<1> QED BY <1>1, <1>2, <1>4, FlowRange

\* And with what is drawn, whatever hangs on it is drawn.
LEMMA DrawnClosed ==
    ASSUME NEW ns, WellFormed(ns), NEW T, IsTree(ns, T),
           NEW d, Found(ns, T, IdsOf(T), d, Len(d))
    PROVE  Closed(ns, Range(FlowNodes(d))) /\ Range(FlowNodes(d)) \subseteq GivenOf(ns)
<1> DEFINE D == Range(FlowNodes(d))
<1>1. Groups(ns, d)
  BY FoundGroups
<1>2. D = IdsOf(d) \cup UNION {ThreadIds(ns, id) : id \in IdsOf(d)}
  BY <1>1, FlowRange
<1> HIDE DEF D
<1>3. \A x \in IdsOf(d) : x = kernelId \/ \E i \in groupLeaders(ns) : x = ns[i].self
  BY <1>1 DEF IdsOf, Groups, IsGroup
<1>4. \A i \in groupLeaders(ns) : i \in DOMAIN ns /\ ns[i].self = ns[i].leader
  BY DEF groupLeaders, isGroupLeader
<1>5. \A i \in childThreads(ns) : i \in DOMAIN ns /\ ns[i].self # ns[i].leader
  BY DEF childThreads, isGroupLeader
<1>6. kernelId \in D
  <2>1. 1 \in DOMAIN d /\ d[1].id = kernelId
    BY <1>1 DEF Groups
  <2> QED BY <1>2, <2>1 DEF IdsOf
<1>7. \A x \in IdsOf(d) : ToTgid(ns, x) = x
  <2> SUFFICES ASSUME NEW x \in IdsOf(d) PROVE ToTgid(ns, x) = x
    OBVIOUS
  <2>1. CASE x = kernelId
    <3>1. \A k \in DOMAIN ns : ns[k].self # x
      BY <2>1, Indexed
    <3> QED BY <3>1, TgidIs
  <2>2. ASSUME NEW i \in groupLeaders(ns), x = ns[i].self PROVE ToTgid(ns, x) = x
    BY <1>4, <2>2, TgidIs
  <2> QED BY <1>3, <2>1, <2>2
<1>8. ASSUME NEW b \in DOMAIN d, NEW x \in Children(ns, d[b].id) PROVE x \in IdsOf(d)
  <2>1. b \in 1 .. Len(d) /\ d[b] \in Range(T)
    BY DEF Found
  <2>2. d[b].id \in IdsOf(T)
    BY <2>1 DEF Range, IdsOf
  <2>3. \E a \in 1 .. Len(d) : d[a].id = x
    BY <1>8, <2>1, <2>2 DEF Found
  <2>4. DOMAIN d = 1 .. Len(d)
    BY <1>1 DEF Groups
  <2> QED BY <2>3, <2>4 DEF IdsOf
<1>9. ASSUME NEW i \in DOMAIN ns, Above(ns[i]) \in D PROVE ns[i].self \in D
  <2>1. CASE ns[i].leader # ns[i].self
    <3>1. ns[i].leader \in D /\ i \in childThreads(ns)
      BY <1>9, <2>1 DEF Above, childThreads, isGroupLeader
    <3>2. PICK j \in DOMAIN ns : ns[j].self = ns[i].leader /\ ns[j].leader = ns[j].self
      BY DEF WellFormed
    <3>3. ASSUME NEW p, ns[i].leader \in ThreadIds(ns, p) PROVE FALSE
      <4>1. PICK k \in childThreads(ns) : ns[k].self = ns[i].leader
        BY <3>3 DEF ThreadIds
      <4>2. k = j
        BY <1>5, <3>2, <4>1 DEF WellFormed
      <4> QED BY <1>5, <3>2, <4>2
    <3>4. ns[i].leader \in IdsOf(d)
      BY <1>2, <3>1, <3>3
    <3>5. ns[i].self \in ThreadIds(ns, ns[i].leader)
      BY <3>1 DEF ThreadIds
    <3> QED BY <1>2, <3>4, <3>5
  <2>2. CASE ns[i].leader = ns[i].self
    <3>1. ns[i].real \in D /\ i \in groupLeaders(ns)
      BY <1>9, <2>2 DEF Above, groupLeaders, isGroupLeader
    <3>2. PICK p \in IdsOf(d) : ns[i].real = p \/ ns[i].real \in ThreadIds(ns, p)
      BY <1>2, <3>1
    <3>3. ns[i].self \in Children(ns, p)
      BY <1>7, <3>1, <3>2, ParentIs
    <3>4. PICK b \in DOMAIN d : p = d[b].id
      BY DEF IdsOf
    <3>5. ns[i].self \in IdsOf(d)
      BY <1>8, <3>3, <3>4
    <3> QED BY <1>2, <3>5
  <2> QED BY <2>1, <2>2
<1>10. D \subseteq GivenOf(ns)
  <2>1. \A x \in IdsOf(d) : x \in GivenOf(ns)
    BY <1>3, <1>4 DEF GivenOf
  <2>2. \A p : \A x \in ThreadIds(ns, p) : x \in GivenOf(ns)
    BY <1>5 DEF ThreadIds, GivenOf
  <2> QED BY <1>2, <2>1, <2>2
<1> QED BY <1>6, <1>9, <1>10 DEF D, Closed

\* Whatever the client is given and whatever is expanded: the search comes to its end, no group
\* and no thread is drawn twice, the nesting ends too and comes to each group that is
\* drawn, and each edge begins at something that is drawn.
THEOREM DrawingAlways == Spec => []DrawingConsistent
<1>1. TypeInv /\ KernelInv /\ NodesInv /\ AnswerWhole /\ ParentsGiven => DrawingConsistent
  <2> SUFFICES ASSUME TypeInv, KernelInv, NodesInv, ParentsGiven, received = nodes,
                      pc = "answered", NEW expanded \in SUBSET Ids
               PROVE  LET drawn == bfsExpandedNodes(Tree, expanded)
                          ids == FlowNodes(drawn)
                          edges == FlowEdges(drawn)
                          nested == Nested(drawn)
                      IN  /\ Search(Tree, expanded)[Len(Tree)].queue = <<>>
                          /\ IsInjective(ids)
                          /\ nested[Len(drawn)] = {}
                          /\ UNION {nested[n] : n \in 0 .. Len(drawn)} = IdsOf(drawn)
                          /\ \A i \in DOMAIN edges : edges[i].source \in Range(ids)
    BY DEF DrawingConsistent, AnswerWhole
  <2> DEFINE drawn == bfsExpandedNodes(Tree, expanded)
  <2>1. WellFormed(received)
    BY GivenIs
  <2>2. IsTree(received, Tree)
    BY <2>1, Adapted
  <2>3. /\ Search(Tree, expanded)[Len(Tree)].queue = <<>>
        /\ Found(received, Tree, expanded, drawn, Len(drawn))
    BY <2>1, <2>2, Searched
  <2> HIDE DEF drawn
  <2>4. IsInjective(FlowNodes(drawn))
    <3>1. Groups(received, drawn)
      BY <2>2, <2>3, FoundGroups
    <3> QED BY <2>1, <3>1, FlowOnce
  <2>5. Nested(drawn)[Len(drawn)] = {}
    <3>1. Len(drawn) \in Nat /\ Len(drawn) \in 0 .. Len(drawn)
      BY <2>3 DEF Found
    <3>2. Nested(drawn)[Len(drawn)] \subseteq {drawn[a].id : a \in Len(drawn) + 1 .. Len(drawn)}
      BY <2>1, <2>2, <2>3, <3>1, NestedEnds
    <3>3. Len(drawn) + 1 .. Len(drawn) = {}
      BY <3>1
    <3> QED BY <3>2, <3>3
  <2>6. UNION {Nested(drawn)[n] : n \in 0 .. Len(drawn)} = IdsOf(drawn)
    BY <2>1, <2>2, <2>3, NestedAll
  <2>7. \A i \in DOMAIN FlowEdges(drawn) : FlowEdges(drawn)[i].source \in Range(FlowNodes(drawn))
    BY <2>1, <2>2, <2>3, EdgesDrawn
  <2> QED BY <2>3, <2>4, <2>5, <2>6, <2>7 DEF drawn
<1> QED
  BY <1>1, Whole, ParentsGivenAlways, TypeInit, TypeStep, KernelInit, KernelStep,
     WalkInit, WalkStep, PTL DEF Spec

\* With all groups expanded, the drawing shows every task that hangs on the kernel and no other:
\* neither the adapter nor the search loses a subtree.
THEOREM AllDrawnAlways == Spec => []AllDrawn
<1>1. TypeInv /\ KernelInv /\ NodesInv /\ AnswerWhole /\ ParentsGiven => AllDrawn
  <2> SUFFICES ASSUME TypeInv, KernelInv, NodesInv, ParentsGiven, received = nodes,
                      pc = "answered"
               PROVE  Range(FlowNodes(bfsExpandedNodes(Tree, Ids))) = Hanging
    BY DEF AllDrawn, AnswerWhole
  <2> DEFINE d == bfsExpandedNodes(Tree, Ids)
             D == Range(FlowNodes(d))
  <2>1. WellFormed(received)
    BY GivenIs
  <2>2. IsTree(received, Tree) /\ Ids = IdsOf(Tree)
    BY <2>1, Adapted
  <2>3. Found(received, Tree, IdsOf(Tree), d, Len(d))
    BY <2>1, <2>2, Searched
  <2> HIDE DEF d
  <2>4. \A S : Closed(received, S) => D \subseteq S
    BY <2>1, <2>2, <2>3, DrawnHangs
  <2>5. Closed(received, D) /\ D \subseteq GivenOf(received)
    BY <2>1, <2>2, <2>3, DrawnClosed
  <2>6. Hanging = {t \in GivenOf(received) :
                      \A S \in SUBSET GivenOf(received) : Closed(received, S) => t \in S}
    BY DEF Hanging, GivenOf, Closed, Above, kernelId
  <2> HIDE DEF D
  <2>7. D = Hanging
    BY <2>4, <2>5, <2>6
  <2> QED BY <2>7 DEF D, d
<1> QED
  BY <1>1, Whole, ParentsGivenAlways, TypeInit, TypeStep, KernelInit, KernelStep,
     WalkInit, WalkStep, PTL DEF Spec
=============================================================================
