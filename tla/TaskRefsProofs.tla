--------------------------- MODULE TaskRefsProofs ---------------------------
(* What holds of the task references for any number of tasks and requests. *)
EXTENDS TaskRefs, FiniteSetTheorems, TLAPS

PC == {"idle", "lookup", "pin", "rcu_unlock", "compare", "get_parent",
       "read_parent", "get_mm", "walk", "mmput", "put_task", "free", "dump"}

\* The shape of what the answers depend on.
ShapeInv ==
    /\ born \in Task
    /\ pid \in [Task -> Pids]
    /\ linked \subseteq 1 .. born
    /\ pc \in [Requests -> PC]
    /\ kind \in [Requests -> Kind]
    /\ key \in [Requests -> Key]
    /\ found \in [Requests -> Task \cup {NoTask}]
    /\ error \in [Requests -> BOOLEAN]
    /\ from \in [Requests -> Task \cup {NoTask}]

Located == {"pin", "rcu_unlock", "compare", "get_parent", "read_parent", "get_mm",
            "walk", "mmput", "put_task", "dump"}
Verified == {"get_parent", "read_parent", "get_mm", "walk", "mmput"}

\* From the lookup on the task has the pid asked for, from the comparison on the start
\* time too, and what was read was read from it.
Answering(c) ==
    /\ pc[c] \in Located => found[c] \in 1 .. born /\ pid[found[c]] = key[c].pid
    /\ pc[c] \in Verified => found[c] = key[c].start
    /\ kind[c] = "view" /\ pc[c] \in {"read_parent", "get_mm", "walk"} =>
         from[c] = found[c]
    /\ pc[c] = "mmput" /\ ~error[c] => from[c] = found[c]
    /\ pc[c] \in {"put_task", "dump"} /\ ~error[c] =>
         from[c] = found[c] /\ found[c] = key[c].start
    /\ pc[c] = "dump" => ~error[c]

AnswerInv == ShapeInv /\ \A c \in Requests : Answering(c)

LEMMA Bounds == 1 .. MaxTasks \subseteq Nat /\ MaxTasks \in Nat
BY MaxTasksAssumption

LEMMA AnyKeyKey == AnyKey \in Key /\ AnyKey.pid \in Pids
BY PidsAssumption, MaxTasksAssumption DEF AnyKey, Key, Task

LEMMA AnswerInit == Init => AnswerInv
<1> SUFFICES ASSUME Init
             PROVE  AnswerInv
  OBVIOUS
<1>1. 1 \in Task
  BY MaxTasksAssumption DEF Task
<1>2. ShapeInv
  <2>1. linked \subseteq 1 .. born
    BY DEF Init
  <2>2. pid \in [Task -> Pids]
    BY AnyKeyKey DEF Init, Key
  <2>3. AnyKey \in Key
    BY <1>1, AnyKeyKey
  <2> QED
    BY <1>1, <2>1, <2>2, <2>3 DEF Init, ShapeInv, PC, Kind
<1>3. \A c \in Requests : Answering(c)
  BY DEF Init, Answering, Located, Verified
<1> QED
  BY <1>2, <1>3 DEF AnswerInv

\* What a request that takes no step keeps.
Same(d) ==
    /\ pc'[d] = pc[d] /\ kind'[d] = kind[d] /\ key'[d] = key[d]
    /\ found'[d] = found[d] /\ error'[d] = error[d] /\ from'[d] = from[d]

LEMMA SameAnswering ==
    ASSUME NEW d \in Requests, Answering(d), Same(d), born' = born, pid' = pid
    PROVE  Answering(d)'
BY DEF Answering, Same

\* A step of the kernel's own may add a task; it renumbers nothing.
Grown ==
    /\ born' \in Task /\ born <= born'
    /\ pid' \in [Task -> Pids]
    /\ linked' \subseteq 1 .. born'
    /\ \A t \in 1 .. born : pid'[t] = pid[t]

LEMMA LifeStep ==
    ASSUME AnswerInv, Life
    PROVE  AnswerInv'
<1>1. requestVars' = requestVars
  BY DEF Life, Fork, Exit, Release, DelayedPut
<1>2. Grown
  <2>1. ASSUME NEW p \in Pids, NEW t \in Task, Fork(p, t)
        PROVE  Grown
    <3>1. /\ born \in Nat /\ MaxTasks \in Nat /\ born >= 1 /\ born < MaxTasks
          /\ born' = born + 1
          /\ pid' = [pid EXCEPT ![born + 1] = p] /\ linked' = linked \cup {born + 1}
      BY <2>1, Bounds DEF AnswerInv, ShapeInv, Task, Fork
    <3>2. born' \in Task /\ born <= born' /\ born + 1 \in Task
      BY <3>1 DEF Task
    <3>3. \A u \in 1 .. born : u \in Task /\ u # born + 1
      BY <3>1 DEF Task
    <3>4. linked' \subseteq 1 .. born'
      BY <3>1 DEF AnswerInv, ShapeInv
    <3> QED
      BY <3>1, <3>2, <3>3, <3>4 DEF AnswerInv, ShapeInv, Grown
  <2>2. ASSUME NEW t \in Task, Exit(t) \/ Release(t) \/ DelayedPut(t)
        PROVE  Grown
    <3>1. born' = born /\ pid' = pid /\ linked' \subseteq linked
      BY <2>2 DEF Exit, Release, DelayedPut
    <3>2. born \in Nat
      BY Bounds DEF AnswerInv, ShapeInv, Task
    <3> QED
      BY <3>1, <3>2 DEF AnswerInv, ShapeInv, Grown
  <2> QED
    BY <2>1, <2>2 DEF Life
<1>3. ShapeInv'
  BY <1>1, <1>2 DEF AnswerInv, ShapeInv, Grown, requestVars
<1>4. ASSUME NEW c \in Requests
      PROVE  Answering(c)'
  <2>1. Answering(c) /\ Same(c)
    BY <1>1 DEF AnswerInv, requestVars, Same
  <2>2. found[c] \in 1 .. born =>
          found[c] \in 1 .. born' /\ pid'[found[c]] = pid[found[c]]
    <3>1. born \in Nat /\ born' \in Nat /\ born <= born'
      BY <1>2, Bounds DEF AnswerInv, ShapeInv, Grown, Task
    <3> QED
      BY <1>2, <3>1 DEF Grown
  <2> QED
    BY <2>1, <2>2 DEF Answering, Same
<1> QED
  BY <1>3, <1>4 DEF AnswerInv

\* The steps of a request change nothing of the tasks' names, and only its own variables.
LEMMA RequestFrame ==
    ASSUME AnswerInv, NEW c \in Requests, Ask(c) \/ Serve(c) \/ Answered(c)
    PROVE  /\ born' = born /\ pid' = pid /\ linked' = linked
           /\ \A d \in Requests : d # c => Same(d)
<1> USE DEF AnswerInv, ShapeInv, GoTo, Same
<1>1. CASE Ask(c)
  BY <1>1 DEF Ask, taskVars
<1>2. CASE Lookup(c) \/ LookupFails(c)
  BY <1>2 DEF Lookup, LookupFails, taskVars
<1>3. CASE Pin(c) \/ Unlock(c)
  BY <1>3 DEF Pin, Unlock, unchangedTasks
<1>4. CASE Compare(c) \/ CompareFails(c)
  BY <1>4 DEF Compare, CompareFails, Use, taskVars
<1>5. CASE GetParent(c) \/ ReadParent(c)
  BY <1>5 DEF GetParent, ReadParent, taskVars, unchangedTasks
<1>6. CASE GetMM(c) \/ GetMMFails(c) \/ Walk(c)
  BY <1>6 DEF GetMM, GetMMFails, Walk, taskVars, unchangedTasks
<1>7. CASE MmPut(c) \/ PutTask(c)
  BY <1>7 DEF MmPut, PutTask, unchangedTasks
<1>8. CASE Free(c) \/ Answered(c)
  BY <1>8 DEF Free, Answered, Return, taskVars
<1> QED
  BY <1>1, <1>2, <1>3, <1>4, <1>5, <1>6, <1>7, <1>8 DEF Serve

LEMMA RequestStep ==
    ASSUME AnswerInv, NEW c \in Requests, Ask(c) \/ Serve(c) \/ Answered(c)
    PROVE  AnswerInv'
<1> DEFINE Own == /\ pc' \in [Requests -> PC] /\ kind' \in [Requests -> Kind]
                  /\ key' \in [Requests -> Key]
                  /\ found' \in [Requests -> Task \cup {NoTask}]
                  /\ error' \in [Requests -> BOOLEAN]
                  /\ from' \in [Requests -> Task \cup {NoTask}]
                  /\ Answering(c)'
<1>0. /\ pc \in [Requests -> PC] /\ kind \in [Requests -> Kind]
      /\ key \in [Requests -> Key] /\ found \in [Requests -> Task \cup {NoTask}]
      /\ error \in [Requests -> BOOLEAN] /\ from \in [Requests -> Task \cup {NoTask}]
      /\ linked \subseteq 1 .. born /\ 1 .. born \subseteq Task /\ Answering(c)
  <2>1. 1 .. born \subseteq Task
    BY Bounds DEF AnswerInv, ShapeInv, Task
  <2> QED
    BY <2>1 DEF AnswerInv, ShapeInv
<1>1. born' = born /\ pid' = pid /\ linked' = linked
  BY RequestFrame
<1> USE DEF GoTo, PC, Located, Verified, Answering
<1>2. ASSUME Ask(c) PROVE  Own
  BY <1>0, <1>2 DEF Ask
<1>4. ASSUME Lookup(c) PROVE  Own
  BY <1>0, <1>1, <1>4 DEF Lookup
<1>5. ASSUME LookupFails(c) PROVE  Own
  BY <1>0, <1>5 DEF LookupFails
<1>6. ASSUME Pin(c) PROVE  Own
  BY <1>0, <1>1, <1>6 DEF Pin
<1>7. ASSUME Unlock(c) PROVE  Own
  BY <1>0, <1>1, <1>7 DEF Unlock
<1>8. ASSUME Compare(c) PROVE  Own
  BY <1>0, <1>1, <1>8 DEF Compare, Use
<1>9. ASSUME CompareFails(c) PROVE  Own
  BY <1>0, <1>1, <1>9 DEF CompareFails
<1>10. ASSUME GetParent(c) PROVE  Own
  BY <1>0, <1>1, <1>10 DEF GetParent
<1>11. ASSUME ReadParent(c) PROVE  Own
  BY <1>0, <1>1, <1>11 DEF ReadParent
<1>12. ASSUME GetMM(c) PROVE  Own
  BY <1>0, <1>1, <1>12 DEF GetMM
<1>13. ASSUME GetMMFails(c) PROVE  Own
  <2>1. CASE kind[c] = "vme"
    <3>1. error' = [error EXCEPT ![c] = TRUE]
      BY <1>13, <2>1 DEF GetMMFails
    <3> QED
      BY <1>0, <1>1, <1>13, <3>1 DEF GetMMFails
  <2>2. CASE kind[c] = "view"
    <3>1. error' = [error EXCEPT ![c] = FALSE]
      BY <1>13, <2>2 DEF GetMMFails
    <3> QED
      BY <1>0, <1>1, <1>13, <2>2, <3>1 DEF GetMMFails
  <2> QED
    BY <1>0, <2>1, <2>2 DEF Kind
<1>14. ASSUME Walk(c) PROVE  Own
  BY <1>0, <1>1, <1>14 DEF Walk
<1>15. ASSUME MmPut(c) PROVE  Own
  BY <1>0, <1>1, <1>15 DEF MmPut
<1>16. ASSUME PutTask(c) PROVE  Own
  BY <1>0, <1>1, <1>16 DEF PutTask
<1>17. ASSUME Free(c) PROVE  Own
  BY <1>0, <1>17, AnyKeyKey DEF Free, Return, Kind
<1>18. ASSUME Answered(c) PROVE  Own
  BY <1>0, <1>18, AnyKeyKey DEF Answered, Return, Kind
<1>19. Own
  BY <1>2, <1>4, <1>5, <1>6, <1>7, <1>8, <1>9, <1>10, <1>11, <1>12, <1>13, <1>14,
     <1>15, <1>16, <1>17, <1>18 DEF Serve
<1>20. ASSUME NEW d \in Requests
       PROVE  Answering(d)'
  <2>1. CASE d = c
    BY <1>19, <2>1
  <2>2. CASE d # c
    <3>1. Answering(d) /\ Same(d)
      BY <2>2, RequestFrame DEF AnswerInv
    <3> QED
      BY <3>1, <1>1, SameAnswering
  <2> QED
    BY <2>1, <2>2
<1>21. ShapeInv'
  BY <1>1, <1>19 DEF AnswerInv, ShapeInv
<1> QED
  BY <1>20, <1>21 DEF AnswerInv

LEMMA AnswerStep == AnswerInv /\ [Next]_vars => AnswerInv'
<1> SUFFICES ASSUME AnswerInv, [Next]_vars
             PROVE  AnswerInv'
  OBVIOUS
<1>1. CASE UNCHANGED vars
  BY <1>1 DEF vars, taskVars, requestVars, AnswerInv, ShapeInv, Answering
<1> QED
  BY <1>1, LifeStep, RequestStep DEF Next

\* However pids are reused while requests are under way, a request is answered with
\* the task it has named, or not at all.
THEOREM RightTask == Spec => []AnswersKey
<1>1. AnswerInv => AnswersKey
  BY DEF AnswerInv, Answering, AnswersKey, Located
<1> QED
  BY <1>1, AnswerInit, AnswerStep, PTL DEF Spec

----------------------------------------------------------------------------
(* The reference counts: each is what the kernel and the requests under way *)
(* account for, so that what a request reads is not freed.                  *)

\* The requests with a reference to t, and to its mm.
Readers(t) == {c \in Requests : HoldsTask(c) /\ found[c] = t}
Walkers(t) == {c \in Requests : HoldsMM(c) /\ found[c] = t}

\* The kernel's side: who is released has exited, who has exited has neither an mm nor
\* children that are not released, and init stays.
KernelInv ==
    /\ parent \in [Task -> Task] /\ waits \in [Task -> SUBSET Requests]
    /\ exited \subseteq 1 .. born /\ pending \subseteq exited
    /\ linked \cap pending = {}
    /\ withMM \subseteq linked \ exited
    /\ 1 \in linked \ exited
    /\ \A t \in linked : parent[t] \in linked \ exited

\* Who is waited for is inside of an RCU section, and a task that is come upon in it is put
\* after it: the one that the lookup finds, and the parent of one that was not released
\* before.
GraceInv ==
    /\ dad \in [Requests -> Task \cup {NoTask}]
    /\ \A t \in Task, c \in Requests : c \in waits[t] => InRCU(c)
    /\ \A c \in Requests :
         /\ pc[c] = "pin" => Guarded(found[c], c)
         /\ pc[c] = "read_parent" /\ Guarded(found[c], c) => Guarded(dad[c], c)

CountInv ==
    /\ usage \in [Task -> Nat] /\ users \in [Task -> Nat]
    /\ CountsBalanced

\* A request has its result from its allocation to its end.
HeapInv ==
    /\ heap \in [Requests -> BOOLEAN]
    /\ \A c \in Requests : pc[c] = "idle" => ~heap[c]

RefsInv == AnswerInv /\ KernelInv /\ GraceInv /\ CountInv /\ HeapInv

----------------------------------------------------------------------------
(* Counting.                                                               *)

LEMMA ReadersFinite ==
    \A t : /\ IsFiniteSet(Readers(t)) /\ Cardinality(Readers(t)) \in Nat
           /\ IsFiniteSet(Walkers(t)) /\ Cardinality(Walkers(t)) \in Nat
<1> TAKE t
<1>1. Readers(t) \subseteq Requests /\ Walkers(t) \subseteq Requests
  BY DEF Readers, Walkers
<1> QED BY <1>1, RequestsAssumption, FS_Subset, FS_CardinalityType

LEMMA Balanced ==
    CountsBalanced <=>
      \A t \in Task :
        /\ usage[t] = (IF t \in linked \cup pending THEN 1 ELSE 0)
                      + Cardinality(Readers(t))
        /\ users[t] = (IF t \in withMM THEN 1 ELSE 0) + Cardinality(Walkers(t))
  BY DEF CountsBalanced, Readers, Walkers

LEMMA BalancedNext ==
    CountsBalanced' <=>
      \A t \in Task :
        /\ usage'[t] = (IF t \in linked' \cup pending' THEN 1 ELSE 0)
                       + Cardinality(Readers(t)')
        /\ users'[t] = (IF t \in withMM' THEN 1 ELSE 0) + Cardinality(Walkers(t)')
  BY DEF CountsBalanced, Readers, Walkers

LEMMA Counted ==
    ASSUME CountInv, NEW t \in Task
    PROVE  /\ usage[t] \in Nat /\ users[t] \in Nat
           /\ Cardinality(Readers(t)) \in Nat /\ Cardinality(Walkers(t)) \in Nat
           /\ usage[t] = (IF t \in linked \cup pending THEN 1 ELSE 0)
                         + Cardinality(Readers(t))
           /\ users[t] = (IF t \in withMM THEN 1 ELSE 0) + Cardinality(Walkers(t))
  BY Balanced, ReadersFinite DEF CountInv

\* Whoever holds a reference is counted.
LEMMA HeldCounts ==
    ASSUME CountInv, NEW c \in Requests, found[c] \in Task
    PROVE  /\ HoldsTask(c) => usage[found[c]] > 0
           /\ HoldsMM(c) => users[found[c]] > 0
<1>1. ASSUME HoldsTask(c) PROVE usage[found[c]] > 0
  <2>1. Readers(found[c]) # {}
    BY <1>1 DEF Readers
  <2>2. Cardinality(Readers(found[c])) # 0
    BY <2>1, ReadersFinite, FS_EmptySet
  <2> QED BY <2>2, Counted
<1>2. ASSUME HoldsMM(c) PROVE users[found[c]] > 0
  <2>1. Walkers(found[c]) # {}
    BY <1>2 DEF Walkers
  <2>2. Cardinality(Walkers(found[c])) # 0
    BY <2>1, ReadersFinite, FS_EmptySet
  <2> QED BY <2>2, Counted
<1> QED BY <1>1, <1>2

\* Nobody's count changes when nobody takes or puts.
LEMMA SameHolders ==
    ASSUME \A d \in Requests :
             /\ HoldsTask(d)' <=> HoldsTask(d)
             /\ HoldsMM(d)' <=> HoldsMM(d)
             /\ HoldsTask(d) => found'[d] = found[d]
    PROVE  \A t : Readers(t)' = Readers(t) /\ Walkers(t)' = Walkers(t)
<1>1. \A d \in Requests : HoldsMM(d) => HoldsTask(d)
  BY DEF HoldsMM, HoldsTask
<1> QED BY <1>1 DEF Readers, Walkers

LEMMA TaskValues == 1 \in Task /\ (AnswerInv => born \in Nat /\ 1 .. born \subseteq Task)
  BY MaxTasksAssumption DEF Task, AnswerInv, ShapeInv

----------------------------------------------------------------------------
(* The kernel's tasks.                                                     *)

LEMMA RefsInit == Init => RefsInv
<1> SUFFICES ASSUME Init PROVE RefsInv
  OBVIOUS
<1>1. KernelInv
  BY TaskValues DEF Init, KernelInv
<1>2. GraceInv /\ HeapInv
  BY DEF Init, GraceInv, HeapInv
<1>3. CountInv
  <2>1. \A t : Readers(t) = {} /\ Walkers(t) = {}
    BY DEF Init, Readers, Walkers, HoldsTask, HoldsMM
  <2>2. \A t : Cardinality(Readers(t)) = 0 /\ Cardinality(Walkers(t)) = 0
    BY <2>1, FS_EmptySet
  <2>3. CountsBalanced
    BY <2>2, Balanced DEF Init
  <2> QED BY <2>3 DEF CountInv, Init
<1> QED BY <1>1, <1>2, <1>3, AnswerInit DEF RefsInv

LEMMA ForkStep ==
    ASSUME RefsInv, NEW p \in Pids, NEW mother \in Task, Fork(p, mother)
    PROVE  KernelInv' /\ GraceInv' /\ CountInv' /\ HeapInv'
<1> DEFINE t == born + 1
<1>1. /\ born \in Nat /\ t \in Task /\ t \notin 1 .. born /\ 1 .. born \subseteq Task
      /\ born' = t /\ linked' = linked \cup {t} /\ mother \in linked \ exited
      /\ parent' = [parent EXCEPT ![t] = mother] /\ usage' = [usage EXCEPT ![t] = 1]
      /\ UNCHANGED <<exited, pending, waits, requestVars>>
  BY MaxTasksAssumption, TaskValues DEF Fork, RefsInv, AnswerInv, ShapeInv, Task
<1>2. 1 .. born \subseteq 1 .. born'
  BY <1>1
<1>3. /\ linked \subseteq 1 .. born /\ pending \subseteq 1 .. born
      /\ withMM \subseteq 1 .. born /\ exited \subseteq 1 .. born
  BY DEF RefsInv, KernelInv, AnswerInv, ShapeInv
<1>4. withMM' = withMM \cup {t} \/ withMM' = withMM
  BY DEF Fork
<1> HIDE DEF t
<1>5. KernelInv'
  BY <1>1, <1>2, <1>3, <1>4 DEF RefsInv, KernelInv
<1>6. GraceInv' /\ HeapInv'
  <2>1. ASSUME NEW u, NEW c \in Requests
        PROVE  /\ Guarded(u, c) => Guarded(u, c)'
               /\ Guarded(u, c)' => u = t \/ Guarded(u, c)
    BY <1>1 DEF Guarded
  <2>2. \A c \in Requests : pc[c] = "read_parent" => found[c] # t
    BY <1>1 DEF RefsInv, AnswerInv, Answering, Located
  <2> QED BY <1>1, <2>1, <2>2 DEF RefsInv, GraceInv, HeapInv, InRCU, requestVars
<1>7. CountInv'
  <2>1. \A u : Readers(u)' = Readers(u) /\ Walkers(u)' = Walkers(u)
    BY <1>1 DEF Readers, Walkers, HoldsTask, HoldsMM, requestVars
  <2>2. Readers(t) = {} /\ Walkers(t) = {}
    BY <1>1 DEF Readers, Walkers, HoldsTask, HoldsMM, RefsInv, AnswerInv, Answering,
            Located
  <2>3. Cardinality(Readers(t)) = 0 /\ Cardinality(Walkers(t)) = 0
    BY <2>2, FS_EmptySet
  <2>4. usage[t] = 0 /\ users[t] = 0
    BY <1>1, <1>3, <2>3, Counted DEF RefsInv
  <2>5. /\ users' \in [Task -> Nat] /\ \A u \in Task : u # t => users'[u] = users[u]
        /\ users'[t] = IF t \in withMM' THEN 1 ELSE 0
    <3>1. CASE withMM' = withMM \cup {t} /\ users' = [users EXCEPT ![t] = 1]
      BY <1>1, <3>1 DEF RefsInv, CountInv
    <3>2. CASE UNCHANGED <<withMM, users>>
      BY <1>1, <1>3, <2>4, <3>2 DEF RefsInv, CountInv
    <3> QED BY <3>1, <3>2 DEF Fork, t
  <2>6. usage' \in [Task -> Nat]
    BY <1>1 DEF RefsInv, CountInv
  <2>7. ASSUME NEW u \in Task
        PROVE  /\ usage'[u] = (IF u \in linked' \cup pending' THEN 1 ELSE 0)
                              + Cardinality(Readers(u)')
               /\ users'[u] = (IF u \in withMM' THEN 1 ELSE 0) + Cardinality(Walkers(u)')
    <3>1. CASE u = t
      BY <1>1, <2>1, <2>3, <2>5, <3>1 DEF RefsInv, CountInv
    <3>2. CASE u # t
      BY <1>1, <1>4, <2>1, <2>5, <3>2, Counted DEF RefsInv, CountInv
    <3> QED BY <3>1, <3>2
  <2> QED BY <2>5, <2>6, <2>7, BalancedNext DEF CountInv
<1> QED BY <1>5, <1>6, <1>7

LEMMA ExitStep ==
    ASSUME RefsInv, NEW t \in Task, Exit(t)
    PROVE  KernelInv' /\ GraceInv' /\ CountInv' /\ HeapInv'
<1>1. /\ t \in linked \ (exited \cup {1}) /\ exited' = exited \cup {t}
      /\ withMM' = withMM \ {t}
      /\ users' = IF t \in withMM THEN [users EXCEPT ![t] = @ - 1] ELSE users
      /\ parent' = [u \in Task |-> IF u \in linked /\ parent[u] = t THEN 1 ELSE parent[u]]
      /\ UNCHANGED <<born, linked, pending, waits, usage, requestVars>>
  BY DEF Exit
<1>2. KernelInv'
  BY <1>1, TaskValues DEF RefsInv, KernelInv, AnswerInv, ShapeInv
<1>3. GraceInv' /\ HeapInv'
  BY <1>1 DEF RefsInv, GraceInv, HeapInv, Guarded, InRCU, requestVars
<1>4. CountInv'
  <2>1. \A u : Readers(u)' = Readers(u) /\ Walkers(u)' = Walkers(u)
    BY <1>1 DEF Readers, Walkers, HoldsTask, HoldsMM, requestVars
  <2>2. ASSUME NEW u \in Task
        PROVE  /\ users'[u] = (IF u \in withMM' THEN 1 ELSE 0) + Cardinality(Walkers(u))
               /\ users'[u] \in Nat
    BY <1>1, Counted DEF RefsInv, CountInv
  <2>3. DOMAIN users' = Task /\ users' = [u \in Task |-> users'[u]]
    BY <1>1 DEF RefsInv, CountInv
  <2>4. users' \in [Task -> Nat]
    BY <2>2, <2>3
  <2> QED BY <1>1, <2>1, <2>2, <2>4, Counted, BalancedNext DEF RefsInv, CountInv
<1> QED BY <1>2, <1>3, <1>4

LEMMA ReleaseStep ==
    ASSUME RefsInv, NEW t \in Task, Release(t)
    PROVE  KernelInv' /\ GraceInv' /\ CountInv' /\ HeapInv'
<1>1. /\ t \in linked \cap exited /\ linked' = linked \ {t} /\ pending' = pending \cup {t}
      /\ waits' = [waits EXCEPT ![t] = {c \in Requests : InRCU(c)}]
      /\ UNCHANGED <<born, parent, exited, usage, withMM, users, requestVars>>
  BY DEF Release
<1>2. KernelInv'
  BY <1>1 DEF RefsInv, KernelInv
<1>3. HeapInv'
  BY <1>1 DEF RefsInv, HeapInv, requestVars
<1>4. GraceInv'
  <2>1. /\ waits'[t] = {d \in Requests : InRCU(d)}
        /\ \A u \in Task : u # t => waits'[u] = waits[u]
        /\ pending \subseteq Task
    BY <1>1, TaskValues DEF RefsInv, KernelInv
  <2>2. ASSUME NEW u, NEW c \in Requests, InRCU(c)
        PROVE  Guarded(u, c)' <=> Guarded(u, c)
    BY <1>1, <2>1, <2>2 DEF Guarded, RefsInv, KernelInv
  <2>3. \A u \in Task, c \in Requests : c \in waits'[u] => InRCU(c)
    BY <2>1 DEF RefsInv, GraceInv
  <2> QED BY <1>1, <2>2, <2>3 DEF RefsInv, GraceInv, InRCU, requestVars
<1>5. CountInv'
  <2>1. \A u : Readers(u)' = Readers(u) /\ Walkers(u)' = Walkers(u)
    BY <1>1 DEF Readers, Walkers, HoldsTask, HoldsMM, requestVars
  <2>2. linked' \cup pending' = linked \cup pending
    BY <1>1
  <2> QED BY <1>1, <2>1, <2>2, Balanced, BalancedNext DEF RefsInv, CountInv
<1> QED BY <1>2, <1>3, <1>4, <1>5

LEMMA DelayedPutStep ==
    ASSUME RefsInv, NEW t \in Task, DelayedPut(t)
    PROVE  KernelInv' /\ GraceInv' /\ CountInv' /\ HeapInv'
<1>1. /\ t \in pending /\ waits[t] = {} /\ pending' = pending \ {t}
      /\ usage' = [usage EXCEPT ![t] = @ - 1]
      /\ UNCHANGED <<born, parent, linked, exited, waits, withMM, users, requestVars>>
  BY DEF DelayedPut
<1>2. KernelInv' /\ HeapInv'
  BY <1>1 DEF RefsInv, KernelInv, HeapInv, requestVars
<1>3. GraceInv'
  <2>1. ASSUME NEW u, NEW c \in Requests PROVE Guarded(u, c)' <=> Guarded(u, c)
    BY <1>1 DEF Guarded
  <2> QED BY <1>1, <2>1 DEF RefsInv, GraceInv, InRCU, requestVars
<1>4. CountInv'
  <2>1. \A u : Readers(u)' = Readers(u) /\ Walkers(u)' = Walkers(u)
    BY <1>1 DEF Readers, Walkers, HoldsTask, HoldsMM, requestVars
  <2>2. t \notin linked
    BY <1>1 DEF RefsInv, KernelInv
  <2>3. ASSUME NEW u \in Task
        PROVE  /\ usage'[u] = (IF u \in linked' \cup pending' THEN 1 ELSE 0)
                              + Cardinality(Readers(u))
               /\ usage'[u] \in Nat
    BY <1>1, <2>2, Counted DEF RefsInv, CountInv
  <2>4. usage' \in [Task -> Nat]
    BY <1>1, <2>3 DEF RefsInv, CountInv
  <2> QED BY <1>1, <2>1, <2>3, <2>4, Counted, BalancedNext DEF RefsInv, CountInv
<1> QED BY <1>2, <1>3, <1>4

----------------------------------------------------------------------------
(* The requests: those that neither take nor put.                          *)

LEMMA CountKept ==
    ASSUME CountInv, UNCHANGED <<linked, pending, withMM, usage, users>>,
           \A d \in Requests :
             /\ HoldsTask(d)' <=> HoldsTask(d)
             /\ HoldsMM(d)' <=> HoldsMM(d)
             /\ HoldsTask(d) => found'[d] = found[d]
    PROVE  CountInv'
  BY SameHolders, Balanced, BalancedNext DEF CountInv

LEMMA LookupStep ==
    ASSUME RefsInv, NEW c \in Requests,
           Ask(c) \/ Lookup(c) \/ LookupFails(c) \/ Free(c) \/ Answered(c)
    PROVE  KernelInv' /\ GraceInv' /\ CountInv' /\ HeapInv'
<1>0. pc \in [Requests -> PC] /\ found \in [Requests -> Task \cup {NoTask}]
      /\ heap \in [Requests -> BOOLEAN]
  BY DEF RefsInv, AnswerInv, ShapeInv, HeapInv
<1>1. UNCHANGED <<taskVars, dad>>
  BY DEF Ask, Lookup, LookupFails, Free, Answered
<1>2. KernelInv'
  BY <1>1 DEF RefsInv, KernelInv, taskVars
<1>3. /\ pc' = [pc EXCEPT ![c] = pc'[c]]
      /\ pc[c] \in {"idle", "lookup", "free", "dump"}
      /\ pc'[c] \in {"idle", "lookup", "pin", "free"}
      /\ \A d \in Requests : d # c => found'[d] = found[d]
      /\ pc'[c] = "pin" => found'[c] \in linked
  BY <1>0 DEF Ask, Lookup, LookupFails, Free, Answered, Return, GoTo
<1>4. GraceInv'
  BY <1>0, <1>1, <1>3 DEF RefsInv, GraceInv, Guarded, InRCU, taskVars
<1>5. CountInv'
  BY <1>0, <1>1, <1>3, CountKept DEF RefsInv, HoldsTask, HoldsMM, taskVars
<1>6. HeapInv'
  BY <1>0 DEF RefsInv, HeapInv, Ask, Lookup, LookupFails, Free, Answered,
              Return, GoTo
<1> QED BY <1>2, <1>4, <1>5, <1>6

LEMMA ReadStep ==
    ASSUME RefsInv, NEW c \in Requests,
           \/ Unlock(c) \/ Compare(c) \/ CompareFails(c) \/ GetParent(c) \/ ReadParent(c)
           \/ GetMMFails(c) \/ Walk(c)
    PROVE  KernelInv' /\ GraceInv' /\ CountInv' /\ HeapInv'
<1>0. /\ pc \in [Requests -> PC] /\ dad \in [Requests -> Task \cup {NoTask}]
      /\ parent \in [Task -> Task] /\ waits \in [Task -> SUBSET Requests]
      /\ found[c] \in Task \/ pc[c] \notin Located
      /\ \A t \in linked : parent[t] \in linked
      /\ pending \subseteq Task
  <2>1. pending \subseteq Task /\ (found[c] \in 1 .. born => found[c] \in Task)
    BY TaskValues DEF RefsInv, KernelInv
  <2> QED BY <2>1 DEF RefsInv, AnswerInv, ShapeInv, GraceInv, KernelInv, Answering
<1> USE DEF taskVars, unchangedTasks
<1>1. /\ UNCHANGED <<born, linked, exited, pending, parent, withMM, usage, users, found,
                  heap>>
      /\ waits' = waits \/ (LeaveRCU(c) /\ pc'[c] \notin {"pin", "read_parent"})
  BY <1>0 DEF Unlock, Compare, CompareFails, GetParent, ReadParent, GetMMFails, Walk, GoTo
<1>2. waits' \in [Task -> SUBSET Requests]
      /\ \A t \in pending, d \in Requests : d # c /\ d \in waits[t] => d \in waits'[t]
  BY <1>0, <1>1 DEF LeaveRCU
<1>3. KernelInv'
  BY <1>1, <1>2 DEF RefsInv, KernelInv
<1>4. /\ pc' = [pc EXCEPT ![c] = pc'[c]]
      /\ pc[c] \in {"rcu_unlock", "compare", "get_parent", "read_parent", "get_mm",
                    "walk"}
      /\ pc'[c] \in {"compare", "get_parent", "read_parent", "get_mm", "mmput",
                     "put_task"}
      /\ pc[c] = "walk" <=> pc'[c] = "mmput"
      /\ dad' \in [Requests -> Task \cup {NoTask}]
      /\ \A d \in Requests : d # c => dad'[d] = dad[d]
      /\ pc'[c] = "read_parent" =>
           /\ pc[c] = "get_parent" /\ waits' = waits
           /\ found[c] \in linked => dad'[c] \in linked
      /\ pc[c] \in {"rcu_unlock", "read_parent"} => LeaveRCU(c)
      /\ pc'[c] \notin {"rcu_unlock", "pin"}
  BY <1>0 DEF Unlock, Compare, CompareFails, GetParent, ReadParent, GetMMFails, Walk,
              GoTo, Use, Located
<1>5. GraceInv'
  <2>1. ASSUME NEW t \in Task, NEW d \in Requests, d \in waits'[t] PROVE InRCU(d)'
    <3>1. d \in waits[t] /\ (LeaveRCU(c) => d # c)
      BY <1>0, <1>1, <2>1 DEF LeaveRCU
    <3>2. InRCU(d)
      BY <3>1 DEF RefsInv, GraceInv
    <3> QED BY <1>0, <1>4, <3>1, <3>2 DEF InRCU
  <2>2. ASSUME NEW d \in Requests, d # c, NEW u PROVE Guarded(u, d)' <=> Guarded(u, d)
    BY <1>0, <1>1, <2>2 DEF Guarded, LeaveRCU
  <2>3. ASSUME NEW d \in Requests, d # c
        PROVE  /\ pc'[d] = "pin" => Guarded(found[d], d)'
               /\ pc'[d] = "read_parent" /\ Guarded(found[d], d)' => Guarded(dad[d], d)'
    <3>1. pc'[d] = pc[d] /\ dad'[d] = dad[d]
      BY <1>0, <1>4, <2>3
    <3>2. /\ Guarded(found[d], d)' <=> Guarded(found[d], d)
          /\ Guarded(dad[d], d)' <=> Guarded(dad[d], d)
      BY <1>1, <2>2, <2>3, <3>1 DEF Guarded
    <3> QED BY <3>1, <3>2 DEF RefsInv, GraceInv
  <2>4. ASSUME pc'[c] = "read_parent", Guarded(found[c], c)'
        PROVE  Guarded(dad[c], c)'
    <3>1. found[c] \in Task /\ ~InRCU(c)
      BY <1>0, <1>4, <2>4 DEF InRCU, Located
    <3>2. c \notin waits'[found[c]]
      BY <1>4, <2>4, <3>1 DEF RefsInv, GraceInv
    <3> QED BY <1>1, <1>4, <2>4, <3>2 DEF Guarded
  <2> QED BY <1>1, <1>4, <2>1, <2>3, <2>4 DEF GraceInv
<1>6. CountInv'
  BY <1>0, <1>1, <1>4, CountKept DEF RefsInv, HoldsTask, HoldsMM
<1>7. HeapInv'
  BY <1>0, <1>1, <1>4 DEF RefsInv, HeapInv
<1> QED BY <1>3, <1>5, <1>6, <1>7

----------------------------------------------------------------------------
(* The requests: those that take and those that put.                       *)

LEMMA OneHolderMore ==
    ASSUME NEW S, IsFiniteSet(S), NEW c, c \notin S
    PROVE  Cardinality(S \cup {c}) = Cardinality(S) + 1
  BY FS_AddElement

LEMMA OneHolderLess ==
    ASSUME NEW S, IsFiniteSet(S), NEW c \in S
    PROVE  Cardinality(S \ {c}) = Cardinality(S) - 1
  BY FS_RemoveElement

\* What the four of them leave alone.
HoldFrame(c) ==
    /\ UNCHANGED <<unchangedTasks, waits, found, dad, heap>>
    /\ pc' = [pc EXCEPT ![c] = pc'[c]]
    /\ pc[c] # "idle"
    /\ pc'[c] \notin {"idle", "pin", "read_parent"}
    /\ InRCU(c) => InRCU(c)'

LEMMA HoldKeeps ==
    ASSUME RefsInv, NEW c \in Requests, HoldFrame(c)
    PROVE  KernelInv' /\ GraceInv' /\ HeapInv'
<1>0. pc \in [Requests -> PC]
  BY DEF RefsInv, AnswerInv, ShapeInv
<1> QED
  BY <1>0 DEF HoldFrame, RefsInv, KernelInv, GraceInv, HeapInv, Guarded, InRCU,
              unchangedTasks

\* A count moves with its holders.
LEMMA TaskMoved ==
    ASSUME CountInv, NEW t \in Task, usage' = [usage EXCEPT ![t] = usage'[t]],
           usage'[t] = usage[t] + Cardinality(Readers(t)') - Cardinality(Readers(t)),
           \A u : Walkers(u)' = Walkers(u) /\ (u # t => Readers(u)' = Readers(u)),
           UNCHANGED <<linked, pending, withMM, users>>
    PROVE  CountInv'
<1>1. ASSUME NEW u \in Task
      PROVE  /\ usage'[u] = (IF u \in linked \cup pending THEN 1 ELSE 0)
                            + Cardinality(Readers(u)')
             /\ Cardinality(Readers(u)') \in Nat
  <2>1. CASE u = t
    <3>1. Cardinality(Readers(t)') \in Nat
      <4>1. Readers(t)' \subseteq Requests
        BY DEF Readers
      <4> QED BY <4>1, RequestsAssumption, FS_Subset, FS_CardinalityType
    <3> QED BY <2>1, <3>1, Counted
  <2>2. CASE u # t
    BY <2>2, Counted DEF CountInv
  <2> QED BY <2>1, <2>2
<1>2. usage' \in [Task -> Nat]
  <2>1. \A u \in Task : usage'[u] \in Nat
    BY <1>1
  <2> QED BY <2>1 DEF CountInv
<1> QED BY <1>1, <1>2, Counted, BalancedNext DEF CountInv

LEMMA MMMoved ==
    ASSUME CountInv, NEW t \in Task, users' = [users EXCEPT ![t] = users'[t]],
           users'[t] = users[t] + Cardinality(Walkers(t)') - Cardinality(Walkers(t)),
           \A u : Readers(u)' = Readers(u) /\ (u # t => Walkers(u)' = Walkers(u)),
           UNCHANGED <<linked, pending, withMM, usage>>
    PROVE  CountInv'
<1>1. ASSUME NEW u \in Task
      PROVE  /\ users'[u] = (IF u \in withMM THEN 1 ELSE 0) + Cardinality(Walkers(u)')
             /\ Cardinality(Walkers(u)') \in Nat
  <2>1. CASE u = t
    <3>1. Cardinality(Walkers(t)') \in Nat
      <4>1. Walkers(t)' \subseteq Requests
        BY DEF Walkers
      <4> QED BY <4>1, RequestsAssumption, FS_Subset, FS_CardinalityType
    <3> QED BY <2>1, <3>1, Counted
  <2>2. CASE u # t
    BY <2>2, Counted DEF CountInv
  <2> QED BY <2>1, <2>2
<1>2. users' \in [Task -> Nat]
  <2>1. \A u \in Task : users'[u] \in Nat
    BY <1>1
  <2> QED BY <2>1 DEF CountInv
<1> QED BY <1>1, <1>2, Counted, BalancedNext DEF CountInv

LEMMA PinStep ==
    ASSUME RefsInv, NEW c \in Requests, Pin(c)
    PROVE  KernelInv' /\ GraceInv' /\ CountInv' /\ HeapInv'
<1>1. PICK t \in Task : t = found[c]
  BY TaskValues DEF RefsInv, AnswerInv, Answering, Located, Pin
<1>2. /\ pc \in [Requests -> PC] /\ pc[c] = "pin" /\ pc' = [pc EXCEPT ![c] = "rcu_unlock"]
      /\ usage \in [Task -> Nat] /\ usage' = [usage EXCEPT ![t] = @ + 1]
      /\ UNCHANGED <<linked, pending, withMM, users, found>>
  BY <1>1 DEF RefsInv, AnswerInv, ShapeInv, CountInv, Pin, GoTo, unchangedTasks
<1>3. KernelInv' /\ GraceInv' /\ HeapInv'
  BY <1>2, HoldKeeps DEF HoldFrame, InRCU, Pin
<1>4. \A u : Walkers(u)' = Walkers(u) /\ (u # t => Readers(u)' = Readers(u))
  BY <1>1, <1>2 DEF Readers, Walkers, HoldsTask, HoldsMM
<1>5. Readers(t)' = Readers(t) \cup {c} /\ c \notin Readers(t)
  BY <1>1, <1>2 DEF Readers, HoldsTask
<1>6. usage'[t] = usage[t] + Cardinality(Readers(t)') - Cardinality(Readers(t))
  <2>1. Cardinality(Readers(t)') = Cardinality(Readers(t)) + 1
    BY <1>5, ReadersFinite, OneHolderMore
  <2> QED BY <1>2, <2>1, ReadersFinite
<1> QED BY <1>2, <1>3, <1>4, <1>6, TaskMoved DEF RefsInv

LEMMA PutTaskStep ==
    ASSUME RefsInv, NEW c \in Requests, PutTask(c)
    PROVE  KernelInv' /\ GraceInv' /\ CountInv' /\ HeapInv'
<1>1. PICK t \in Task : t = found[c]
  BY TaskValues DEF RefsInv, AnswerInv, Answering, Located, PutTask
<1>2. /\ pc \in [Requests -> PC] /\ pc[c] = "put_task" /\ pc' = [pc EXCEPT ![c] = pc'[c]]
      /\ pc'[c] \in {"free", "dump"}
      /\ usage \in [Task -> Nat] /\ usage' = [usage EXCEPT ![t] = @ - 1]
      /\ UNCHANGED <<linked, pending, withMM, users, found>>
  BY <1>1 DEF RefsInv, AnswerInv, ShapeInv, CountInv, PutTask, GoTo, unchangedTasks
<1>3. KernelInv' /\ GraceInv' /\ HeapInv'
  BY <1>2, HoldKeeps DEF HoldFrame, InRCU, PutTask
<1>4. \A u : Walkers(u)' = Walkers(u) /\ (u # t => Readers(u)' = Readers(u))
  BY <1>1, <1>2 DEF Readers, Walkers, HoldsTask, HoldsMM
<1>5. Readers(t)' = Readers(t) \ {c} /\ c \in Readers(t)
  BY <1>1, <1>2 DEF Readers, HoldsTask
<1>6. usage'[t] = usage[t] + Cardinality(Readers(t)') - Cardinality(Readers(t))
  <2>1. Cardinality(Readers(t)') = Cardinality(Readers(t)) - 1
    BY <1>5, ReadersFinite, OneHolderLess
  <2> QED BY <1>2, <2>1, ReadersFinite
<1> QED BY <1>2, <1>3, <1>4, <1>6, TaskMoved DEF RefsInv

LEMMA GetMMStep ==
    ASSUME RefsInv, NEW c \in Requests, GetMM(c)
    PROVE  KernelInv' /\ GraceInv' /\ CountInv' /\ HeapInv'
<1>1. PICK t \in Task : t = found[c]
  BY TaskValues DEF RefsInv, AnswerInv, Answering, Located, GetMM
<1>2. /\ pc \in [Requests -> PC] /\ pc[c] = "get_mm" /\ pc' = [pc EXCEPT ![c] = "walk"]
      /\ users \in [Task -> Nat] /\ users' = [users EXCEPT ![t] = @ + 1]
      /\ UNCHANGED <<linked, pending, withMM, usage, found>>
  BY <1>1 DEF RefsInv, AnswerInv, ShapeInv, CountInv, GetMM, GoTo, unchangedTasks
<1>3. KernelInv' /\ GraceInv' /\ HeapInv'
  BY <1>2, HoldKeeps DEF HoldFrame, InRCU, GetMM
<1>4. \A u : Readers(u)' = Readers(u) /\ (u # t => Walkers(u)' = Walkers(u))
  BY <1>1, <1>2 DEF Readers, Walkers, HoldsTask, HoldsMM
<1>5. Walkers(t)' = Walkers(t) \cup {c} /\ c \notin Walkers(t)
  BY <1>1, <1>2 DEF Walkers, HoldsMM
<1>6. users'[t] = users[t] + Cardinality(Walkers(t)') - Cardinality(Walkers(t))
  <2>1. Cardinality(Walkers(t)') = Cardinality(Walkers(t)) + 1
    BY <1>5, ReadersFinite, OneHolderMore
  <2> QED BY <1>2, <2>1, ReadersFinite
<1> QED BY <1>2, <1>3, <1>4, <1>6, MMMoved DEF RefsInv

LEMMA MmPutStep ==
    ASSUME RefsInv, NEW c \in Requests, MmPut(c)
    PROVE  KernelInv' /\ GraceInv' /\ CountInv' /\ HeapInv'
<1>1. PICK t \in Task : t = found[c]
  BY TaskValues DEF RefsInv, AnswerInv, Answering, Located, MmPut
<1>2. /\ pc \in [Requests -> PC] /\ pc[c] = "mmput" /\ pc' = [pc EXCEPT ![c] = "put_task"]
      /\ users \in [Task -> Nat] /\ users' = [users EXCEPT ![t] = @ - 1]
      /\ UNCHANGED <<linked, pending, withMM, usage, found>>
  BY <1>1 DEF RefsInv, AnswerInv, ShapeInv, CountInv, MmPut, GoTo, unchangedTasks
<1>3. KernelInv' /\ GraceInv' /\ HeapInv'
  BY <1>2, HoldKeeps DEF HoldFrame, InRCU, MmPut
<1>4. \A u : Readers(u)' = Readers(u) /\ (u # t => Walkers(u)' = Walkers(u))
  BY <1>1, <1>2 DEF Readers, Walkers, HoldsTask, HoldsMM
<1>5. Walkers(t)' = Walkers(t) \ {c} /\ c \in Walkers(t)
  BY <1>1, <1>2 DEF Walkers, HoldsMM
<1>6. users'[t] = users[t] + Cardinality(Walkers(t)') - Cardinality(Walkers(t))
  <2>1. Cardinality(Walkers(t)') = Cardinality(Walkers(t)) - 1
    BY <1>5, ReadersFinite, OneHolderLess
  <2> QED BY <1>2, <2>1, ReadersFinite
<1> QED BY <1>2, <1>3, <1>4, <1>6, MMMoved DEF RefsInv

----------------------------------------------------------------------------
(* What follows.                                                           *)

LEMMA RefsStep == RefsInv /\ [Next]_vars => RefsInv'
<1> SUFFICES ASSUME RefsInv, [Next]_vars PROVE RefsInv'
  OBVIOUS
<1>1. AnswerInv'
  BY AnswerStep DEF RefsInv
<1>2. CASE UNCHANGED vars
  <2>1. KernelInv' /\ GraceInv' /\ HeapInv'
    BY <1>2 DEF RefsInv, KernelInv, GraceInv, HeapInv, Guarded, InRCU, vars,
                 taskVars, requestVars
  <2>2. CountInv'
    BY <1>2, CountKept DEF RefsInv, HoldsTask, HoldsMM, vars, taskVars, requestVars
  <2> QED BY <1>1, <2>1, <2>2 DEF RefsInv
<1>3. CASE Life
  BY <1>1, <1>3, ForkStep, ExitStep, ReleaseStep, DelayedPutStep DEF Life, RefsInv
<1>4. ASSUME NEW c \in Requests, Ask(c) \/ Serve(c) \/ Answered(c) PROVE RefsInv'
  BY <1>1, <1>4, LookupStep, ReadStep, PinStep, PutTaskStep, GetMMStep, MmPutStep
     DEF Serve, RefsInv
<1> QED BY <1>2, <1>3, <1>4 DEF Next

LEMMA RefsInductive == Spec => []RefsInv
  BY RefsInit, RefsStep, PTL DEF Spec

\* Every variable keeps its shape, with any number of tasks, pids and requests.
THEOREM RefsTyped == Spec => []TypeOK
<1>1. RefsInv => TypeOK
  BY TaskValues
     DEF RefsInv, AnswerInv, ShapeInv, KernelInv, GraceInv, CountInv, HeapInv, TypeOK, PC
<1> QED BY <1>1, RefsInductive, PTL

\* Every reference is given back exactly once, on every way out of a request, though the
\* task exits, is released and its pid is reused meanwhile.
THEOREM CountsExact == Spec => []CountsBalanced
<1>1. RefsInv => CountsBalanced
  BY DEF RefsInv, CountInv
<1> QED BY <1>1, RefsInductive, PTL

\* No request counts, reads or walks a task or an mm that has been freed, nor reads the
\* parent of a task that was not released when its RCU section began.
THEOREM HeldTasksLive == Spec => []PointersLive
<1>1. ASSUME RefsInv, NEW c \in Requests
      PROVE  /\ pc[c] = "pin" \/ HoldsTask(c) => usage[found[c]] > 0
             /\ pc[c] = "read_parent" /\ Guarded(found[c], c) => usage[dad[c]] > 0
             /\ HoldsMM(c) => users[found[c]] > 0
  <2>1. pc[c] \in Located => found[c] \in Task
    BY <1>1, TaskValues DEF RefsInv, AnswerInv, Answering
  <2>2. HoldsTask(c) => usage[found[c]] > 0
    BY <1>1, <2>1, HeldCounts DEF RefsInv, HoldsTask, Located
  <2>3. HoldsMM(c) => users[found[c]] > 0
    BY <1>1, <2>1, HeldCounts DEF RefsInv, HoldsMM, Located
  <2>4. ASSUME NEW t, Guarded(t, c) PROVE usage[t] > 0
    <3>1. t \in Task /\ t \in linked \cup pending
      BY <1>1, <2>4, TaskValues DEF RefsInv, Guarded, AnswerInv, ShapeInv, KernelInv
    <3> QED BY <1>1, <3>1, Counted DEF RefsInv
  <2>5. pc[c] = "pin" => usage[found[c]] > 0
    BY <1>1, <2>4 DEF RefsInv, GraceInv
  <2>6. pc[c] = "read_parent" /\ Guarded(found[c], c) => usage[dad[c]] > 0
    BY <1>1, <2>4 DEF RefsInv, GraceInv
  <2> QED BY <2>2, <2>3, <2>5, <2>6
<1>2. RefsInv => PointersLive
  BY <1>1 DEF PointersLive
<1> QED BY <1>2, RefsInductive, PTL

\* gb_vme_get() and gb_taskview_get() leak no result.
THEOREM NothingLeaked == Spec => []ResultsFreed
<1>1. RefsInv => ResultsFreed
  BY DEF RefsInv, HeapInv, ResultsFreed
<1> QED BY <1>1, RefsInductive, PTL
=============================================================================
