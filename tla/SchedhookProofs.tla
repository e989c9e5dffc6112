-------------------------- MODULE SchedhookProofs --------------------------
(***************************************************************************)
(* Theorems about schedhook.c that hold for any number of CPUs, callers,   *)
(* events and captures.                                                    *)
(***************************************************************************)
EXTENDS Schedhook, TLAPS

USE NumCPUsAssumption, MaxPerCPUAssumption, MaxEventsAssumption,
    MaxCapturesAssumption, CallersAssumption

\* A probe that has written its event still has room to count it.
RoomToCount == \A cpu \in CPU : probe[cpu] = "wrote" => num[cpu] < MaxPerCPU

\* The types alone are not inductive: ProbeCount needs the room ProbeWrite found.
TypeInv == TypeOK /\ RoomToCount

\* The values of the abbreviations used in TypeOK.
LEMMA Values ==
    /\ CPU \subseteq Int /\ 0 \in CPU /\ \A cpu \in CPU : 0 <= cpu
    /\ \A cpu \in CPU : cpu + 1 < NumCPUs => cpu + 1 \in CPU
    /\ EmptyBuffer \in Buffer
    /\ Blank \notin Event
<1>1. Blank \notin Event
  BY DEF Blank, Event, CPU
<1>2. EmptyBuffer \in Buffer
  BY DEF EmptyBuffer, Buffer
<1> QED
  BY <1>1, <1>2 DEF CPU

LEMMA TypeInit == Init => TypeInv
<1> SUFFICES ASSUME Init PROVE TypeInv
  OBVIOUS
<1> USE Values DEF Init
<1>1. /\ state \in State /\ module \in Module
      /\ capture \in Capture /\ warned \in BOOLEAN
  <2>1. state \in State /\ module \in Module
    BY DEF State, Module, Registered
  <2>2. capture \in Capture
    BY DEF Capture
  <2> QED
    BY <2>1, <2>2
<1>2. num \in [CPU -> 0 .. MaxPerCPU] /\ saw \in [CPU -> Capture]
  BY DEF Capture
<1>3. slots \in [CPU -> Buffer]
  OBVIOUS
<1>4. /\ lock \in [CPU -> {"free", "probe"} \cup Callers]
      /\ probe \in [CPU -> {"idle", "checked", "locked", "wrote"}]
  OBVIOUS
<1>5. pc \in [Callers -> PC]
  BY DEF PC
<1>6. cur \in [Callers -> CPU] /\ idx \in [Callers -> 0 .. MaxPerCPU]
  OBVIOUS
<1>7. cap \in [Callers -> Seq(Event \cup {Blank})]
  OBVIOUS
<1>8. heap \in [Callers -> SUBSET {"cap", "events"}]
  OBVIOUS
<1> QED
  BY <1>1, <1>2, <1>3, <1>4, <1>5, <1>6, <1>7, <1>8 DEF TypeInv, TypeOK, RoomToCount

LEMMA TypeStep == TypeInv /\ [Next]_vars => TypeInv'
<1> SUFFICES ASSUME TypeInv, [Next]_vars PROVE TypeInv'
  OBVIOUS
<1> USE Values DEF TypeInv, TypeOK, RoomToCount, bufferVars, probeVars, callerVars,
        ambient
<1>1. ASSUME NEW p \in CPU, ProbeCheck(p) PROVE TypeInv'
  BY <1>1 DEF ProbeCheck
<1>2. ASSUME NEW p \in CPU, ProbeLock(p) PROVE TypeInv'
  BY <1>2 DEF ProbeLock
<1>3. ASSUME NEW p \in CPU, ProbeWrite(p) PROVE TypeInv'
  <2> DEFINE e == [cpu |-> p, saw |-> saw[p], at |-> capture, st |-> state]
  <2>1. e \in Event
    BY DEF Event
  <2>2. num[p] \in Slot
    BY <1>3 DEF ProbeWrite, Slot
  <2>3. slots' = [slots EXCEPT ![p][num[p]] = e]
    BY <1>3 DEF ProbeWrite
  <2>4. slots' \in [CPU -> Buffer]
    BY <2>1, <2>2, <2>3 DEF Buffer
  <2> QED
    BY <1>3, <2>4 DEF ProbeWrite
<1>4. ASSUME NEW p \in CPU, ProbeCount(p) PROVE TypeInv'
  BY <1>4 DEF ProbeCount, ProbeLeave, Capture
<1>5. ASSUME NEW p \in CPU, ProbeFull(p) PROVE TypeInv'
  BY <1>5 DEF ProbeFull, ProbeLeave, Capture
<1>6. ASSUME NEW c \in Callers, StartCas(c) PROVE TypeInv'
  BY <1>6 DEF StartCas, Capture, State, PC, Starting
<1>7. ASSUME NEW c \in Callers, ResetLock(c) PROVE TypeInv'
  BY <1>7 DEF ResetLock, PC, Starting
<1>8. ASSUME NEW c \in Callers, ResetNum(c) PROVE TypeInv'
  BY <1>8 DEF ResetNum, PC, Starting
<1>9. ASSUME NEW c \in Callers, ResetSlots(c) PROVE TypeInv'
  BY <1>9 DEF ResetSlots, NextCPU, PC, Starting
<1>10. ASSUME NEW c \in Callers, StartRun(c) PROVE TypeInv'
  BY <1>10 DEF StartRun, CasOrWarn, State, PC
<1>11. ASSUME NEW c \in Callers, EndCas(c) PROVE TypeInv'
  BY <1>11 DEF EndCas, State, PC, Ending
<1>12. ASSUME NEW c \in Callers, AllocCap(c) PROVE TypeInv'
  <2>1. pc' \in [Callers -> PC]
    BY <1>12 DEF AllocCap, PC, Ending
  <2>2. PICK h \in SUBSET {"cap", "events"} : heap' = [heap EXCEPT ![c] = h]
    <3>1. CASE heap' = heap
      <4>1. heap' = [heap EXCEPT ![c] = heap[c]]
        BY <3>1
      <4> QED
        BY <4>1
    <3>2. CASE heap' = [heap EXCEPT ![c] = {"cap"}]
      BY <3>2
    <3> QED
      BY <1>12, <3>1, <3>2 DEF AllocCap
  <2>3. heap' \in [Callers -> SUBSET {"cap", "events"}]
    BY <2>2
  <2> QED
    BY <1>12, <2>1, <2>3 DEF AllocCap
<1>13. ASSUME NEW c \in Callers, AllocEvents(c) PROVE TypeInv'
  <2>1. pc' \in [Callers -> PC]
    BY <1>13 DEF AllocEvents, PC, Ending
  <2>2. PICK h \in SUBSET {"cap", "events"} : heap' = [heap EXCEPT ![c] = h]
    BY <1>13 DEF AllocEvents
  <2>3. heap' \in [Callers -> SUBSET {"cap", "events"}]
    BY <2>2
  <2> QED
    BY <1>13, <2>1, <2>3 DEF AllocEvents
<1>14. ASSUME NEW c \in Callers, FillLock(c) PROVE TypeInv'
  BY <1>14 DEF FillLock, PC, Ending
<1>15. ASSUME NEW c \in Callers, FillCopy(c) PROVE TypeInv'
  <2>1. /\ cur[c] \in CPU
        /\ num[cur[c]] \in 0 .. MaxPerCPU
        /\ idx[c] \in 0 .. MaxPerCPU
        /\ idx[c] < num[cur[c]]
    BY <1>15 DEF FillCopy
  <2>2. idx[c] \in Slot /\ idx[c] + 1 \in 0 .. MaxPerCPU
    BY ONLY <2>1, MaxPerCPUAssumption DEF Slot
  <2>4. slots[cur[c]] \in Buffer
    BY <2>1
  <2>5. slots[cur[c]][idx[c]] \in Event \cup {Blank}
    BY ONLY <2>2, <2>4 DEF Buffer
  <2>3. cap' \in [Callers -> Seq(Event \cup {Blank})]
    BY <1>15, <2>5 DEF FillCopy
  <2> QED
    BY <1>15, <2>2, <2>3 DEF FillCopy
<1>16. ASSUME NEW c \in Callers, FillDone(c) PROVE TypeInv'
  BY <1>16 DEF FillDone, NextCPU, PC, Ending
<1>17. ASSUME NEW c \in Callers, FillFull(c) PROVE TypeInv'
  BY <1>17 DEF FillFull, PC, Ending
<1>18. ASSUME NEW c \in Callers, EndFinish(c) PROVE TypeInv'
  BY <1>18 DEF EndFinish, CasOrWarn, State, PC
<1>19. ASSUME NEW c \in Callers, CapFree(c) PROVE TypeInv'
  BY <1>19 DEF CapFree, PC
<1>20. CASE NetlinkInit \/ NetlinkExit \/ UnregisterProbe \/ SynchronizeProbe
  BY <1>20 DEF NetlinkInit, NetlinkExit, UnregisterProbe, SynchronizeProbe, Module,
               Registered
<1>21. CASE Load
  BY <1>21 DEF Load, State, Module, Registered
<1>22. CASE UNCHANGED vars
  BY <1>22 DEF vars
<1> QED
  BY <1>1, <1>2, <1>3, <1>4, <1>5, <1>6, <1>7, <1>8, <1>9, <1>10, <1>11, <1>12, <1>13,
     <1>14, <1>15, <1>16, <1>17, <1>18, <1>19, <1>20, <1>21, <1>22
     DEF Next, ProbeStep, StartStep, EndStep, ModuleStep

\* Every reachable state is well typed: no index of a buffer, no counter and no
\* cursor leaves its range.
THEOREM TypeCorrect == Spec => []TypeOK
<1>1. TypeInv => TypeOK
  BY DEF TypeInv
<1> QED
  BY <1>1, TypeInit, TypeStep, PTL DEF Spec

----------------------------------------------------------------------------
(* One capture at a time, and no code left running after an unload.        *)

\* Requests are served, and probes run, only while the module is there for them.
ModuleInv ==
    /\ module # "loaded" => AllIdle
    /\ module = "unloaded" => \A cpu \in CPU : probe[cpu] = "idle"

PhaseInv == ExclusiveCapture /\ ModuleInv

LEMMA PhaseInit == Init => PhaseInv
BY DEF Init, PhaseInv, ExclusiveCapture, ModuleInv, AllIdle, Starting, Ending

LEMMA PhaseStep == TypeInv /\ PhaseInv /\ [Next]_vars => PhaseInv'
<1> SUFFICES ASSUME TypeInv, PhaseInv, [Next]_vars PROVE PhaseInv'
  OBVIOUS
<1>0. /\ pc \in [Callers -> PC]
      /\ probe \in [CPU -> {"idle", "checked", "locked", "wrote"}]
  BY DEF TypeInv, TypeOK
<1> USE <1>0 DEF PhaseInv, ExclusiveCapture, ModuleInv, AllIdle, Starting, Ending,
        bufferVars, probeVars, callerVars, ambient
<1>1. ASSUME NEW p \in CPU, ProbeCheck(p) PROVE PhaseInv'
  BY <1>1 DEF ProbeCheck, Registered
<1>2. ASSUME NEW p \in CPU, ProbeLock(p) PROVE PhaseInv'
  BY <1>2 DEF ProbeLock
<1>3. ASSUME NEW p \in CPU, ProbeWrite(p) PROVE PhaseInv'
  BY <1>3 DEF ProbeWrite
<1>4. ASSUME NEW p \in CPU, ProbeCount(p) \/ ProbeFull(p) PROVE PhaseInv'
  BY <1>4 DEF ProbeCount, ProbeFull, ProbeLeave
<1>5. ASSUME NEW c \in Callers, StartCas(c) PROVE PhaseInv'
  BY <1>5 DEF StartCas
<1>6. ASSUME NEW c \in Callers, ResetLock(c) \/ ResetNum(c) PROVE PhaseInv'
  BY <1>6 DEF ResetLock, ResetNum
<1>7. ASSUME NEW c \in Callers, ResetSlots(c) PROVE PhaseInv'
  BY <1>7 DEF ResetSlots, NextCPU
<1>8. ASSUME NEW c \in Callers, StartRun(c) PROVE PhaseInv'
  BY <1>8 DEF StartRun, CasOrWarn
<1>9. ASSUME NEW c \in Callers, EndCas(c) PROVE PhaseInv'
  BY <1>9 DEF EndCas
<1>10. ASSUME NEW c \in Callers, AllocCap(c) \/ AllocEvents(c) PROVE PhaseInv'
  BY <1>10 DEF AllocCap, AllocEvents
<1>11. ASSUME NEW c \in Callers, FillLock(c) \/ FillCopy(c) \/ FillFull(c) PROVE PhaseInv'
  BY <1>11 DEF FillLock, FillCopy, FillFull
<1>12. ASSUME NEW c \in Callers, FillDone(c) PROVE PhaseInv'
  BY <1>12 DEF FillDone, NextCPU
<1>13. ASSUME NEW c \in Callers, EndFinish(c) PROVE PhaseInv'
  <2>1. PICK next \in {"idle", "holding"} : pc' = [pc EXCEPT ![c] = next]
    BY <1>13 DEF EndFinish
  <2>2. /\ pc[c] = "finish" /\ state = "DONE" /\ warned' = FALSE
        /\ UNCHANGED <<probe, module>>
    BY <1>13 DEF EndFinish, CasOrWarn
  <2> QED
    BY <2>1, <2>2
<1>14. ASSUME NEW c \in Callers, CapFree(c) PROVE PhaseInv'
  <2>1. /\ pc[c] = "holding" /\ pc' = [pc EXCEPT ![c] = "idle"]
        /\ UNCHANGED <<state, warned, probe, module>>
    BY <1>14 DEF CapFree
  <2> QED
    BY <2>1
<1>15. CASE ModuleStep
  BY <1>15 DEF ModuleStep, NetlinkInit, NetlinkExit, UnregisterProbe,
               SynchronizeProbe, Load
<1>16. CASE UNCHANGED vars
  BY <1>16 DEF vars
<1> QED
  BY <1>1, <1>2, <1>3, <1>4, <1>5, <1>6, <1>7, <1>8, <1>9, <1>10, <1>11, <1>12, <1>13,
     <1>14, <1>15, <1>16 DEF Next, ProbeStep, StartStep, EndStep

\* Racing cap_start() and cap_end() calls never overlap inside a capture, and the
\* two WARN_ONs never fire.
THEOREM Exclusive == Spec => []ExclusiveCapture
<1>1. PhaseInv => ExclusiveCapture
  BY DEF PhaseInv
<1> QED
  BY <1>1, TypeInit, TypeStep, PhaseInit, PhaseStep, PTL DEF Spec

\* gb_exit() frees the module's text only when no probe and no request is in it.
THEOREM SafeUnload == Spec => []UnloadSafe
<1>1. PhaseInv => UnloadSafe
  BY DEF PhaseInv, ModuleInv, UnloadSafe
<1> QED
  BY <1>1, TypeInit, TypeStep, PhaseInit, PhaseStep, PTL DEF Spec

----------------------------------------------------------------------------
(* The spinlocks: who holds one is where its holder stands.                *)

LockInv ==
    /\ \A cpu \in CPU : lock[cpu] = "probe" <=> probe[cpu] \in {"locked", "wrote"}
    /\ \A cpu \in CPU, c \in Callers :
          lock[cpu] = c <=> /\ pc[c] \in {"reset_num", "reset_slots", "fill"}
                            /\ cur[c] = cpu

LEMMA LockInit == Init => LockInv
BY DEF Init, LockInv

LEMMA LockStep == TypeInv /\ PhaseInv /\ LockInv /\ [Next]_vars => LockInv'
<1> SUFFICES ASSUME TypeInv, PhaseInv, LockInv, [Next]_vars PROVE LockInv'
  OBVIOUS
<1>0. /\ pc \in [Callers -> PC] /\ cur \in [Callers -> CPU]
      /\ probe \in [CPU -> {"idle", "checked", "locked", "wrote"}]
      /\ lock \in [CPU -> {"free", "probe"} \cup Callers]
  BY DEF TypeInv, TypeOK
<1> USE <1>0 DEF LockInv, bufferVars, probeVars, callerVars, ambient
<1>1. ASSUME NEW p \in CPU, ProbeCheck(p) PROVE LockInv'
  BY <1>1 DEF ProbeCheck
<1>2. ASSUME NEW p \in CPU, ProbeLock(p) PROVE LockInv'
  BY <1>2 DEF ProbeLock
<1>3. ASSUME NEW p \in CPU, ProbeWrite(p) PROVE LockInv'
  BY <1>3 DEF ProbeWrite
<1>4. ASSUME NEW p \in CPU, ProbeCount(p) \/ ProbeFull(p) PROVE LockInv'
  BY <1>4 DEF ProbeCount, ProbeFull, ProbeLeave
<1>5. ASSUME NEW c \in Callers, StartCas(c) PROVE LockInv'
  BY <1>5 DEF StartCas
<1>6. ASSUME NEW c \in Callers, ResetLock(c) PROVE LockInv'
  BY <1>6 DEF ResetLock
<1>7. ASSUME NEW c \in Callers, ResetNum(c) PROVE LockInv'
  BY <1>7 DEF ResetNum
<1>8. ASSUME NEW c \in Callers, ResetSlots(c) PROVE LockInv'
  BY <1>8 DEF ResetSlots, NextCPU
<1>9. ASSUME NEW c \in Callers, StartRun(c) \/ EndCas(c) PROVE LockInv'
  BY <1>9 DEF StartRun, EndCas
<1>10. ASSUME NEW c \in Callers, AllocCap(c) \/ AllocEvents(c) PROVE LockInv'
  BY <1>10 DEF AllocCap, AllocEvents
<1>11. ASSUME NEW c \in Callers, FillLock(c) PROVE LockInv'
  BY <1>11 DEF FillLock
<1>12. ASSUME NEW c \in Callers, FillCopy(c) PROVE LockInv'
  BY <1>12 DEF FillCopy
<1>13. ASSUME NEW c \in Callers, FillDone(c) \/ FillFull(c) PROVE LockInv'
  BY <1>13 DEF FillDone, FillFull, NextCPU
<1>14. ASSUME NEW c \in Callers, EndFinish(c) \/ CapFree(c) PROVE LockInv'
  BY <1>14 DEF EndFinish, CapFree
<1>15. CASE NetlinkInit \/ NetlinkExit \/ UnregisterProbe \/ SynchronizeProbe
  BY <1>15 DEF NetlinkInit, NetlinkExit, UnregisterProbe, SynchronizeProbe
<1>16. CASE Load
  BY <1>16 DEF Load, PhaseInv, ModuleInv, AllIdle
<1>17. CASE UNCHANGED vars
  BY <1>17 DEF vars
<1> QED
  BY <1>1, <1>2, <1>3, <1>4, <1>5, <1>6, <1>7, <1>8, <1>9, <1>10, <1>11, <1>12, <1>13,
     <1>14, <1>15, <1>16, <1>17 DEF Next, ProbeStep, StartStep, EndStep, ModuleStep

\* No probe is inside the buffer a caller has locked.
LEMMA HolderExcludesProbe ==
    ASSUME TypeInv, LockInv, NEW c \in Callers,
           pc[c] \in {"reset_num", "reset_slots", "fill"}
    PROVE  cur[c] \in CPU /\ probe[cur[c]] \in {"idle", "checked"}
<1>1. cur[c] \in CPU
  BY DEF TypeInv, TypeOK
<1>2. lock[cur[c]] = c
  BY <1>1 DEF LockInv
<1>3. probe[cur[c]] \in {"idle", "checked", "locked", "wrote"}
  BY <1>1 DEF TypeInv, TypeOK
<1>4. lock[cur[c]] # "probe"
  BY <1>2
<1> QED
  BY <1>1, <1>3, <1>4 DEF LockInv

----------------------------------------------------------------------------
(* A snapshot holds events only: what num_events counts has been written.  *)

BufferInv ==
    /\ \A cpu \in CPU : \A i \in 0 .. num[cpu] - 1 : slots[cpu][i] \in Event
    /\ \A cpu \in CPU : probe[cpu] = "wrote" => slots[cpu][num[cpu]] \in Event
    /\ \A c \in Callers : pc[c] = "reset_slots" => num[cur[c]] = 0

LEMMA BufferInit == Init => BufferInv
BY DEF Init, BufferInv

LEMMA BufferStep ==
    TypeInv /\ PhaseInv /\ LockInv /\ BufferInv /\ [Next]_vars => BufferInv'
<1> SUFFICES ASSUME TypeInv, PhaseInv, LockInv, BufferInv, [Next]_vars
             PROVE BufferInv'
  OBVIOUS
<1>0. /\ pc \in [Callers -> PC] /\ cur \in [Callers -> CPU]
      /\ probe \in [CPU -> {"idle", "checked", "locked", "wrote"}]
      /\ num \in [CPU -> 0 .. MaxPerCPU]
      /\ slots \in [CPU -> Buffer]
      /\ saw \in [CPU -> Capture] /\ capture \in Capture /\ state \in State
  BY DEF TypeInv, TypeOK
<1> USE <1>0, Values DEF BufferInv, bufferVars, probeVars, callerVars, ambient
<1>1. ASSUME NEW p \in CPU, ProbeCheck(p) \/ ProbeLock(p) PROVE BufferInv'
  BY <1>1 DEF ProbeCheck, ProbeLock
<1>2. ASSUME NEW p \in CPU, ProbeWrite(p) PROVE BufferInv'
  <2> DEFINE e == [cpu |-> p, saw |-> saw[p], at |-> capture, st |-> state]
  <2>1. e \in Event
    BY DEF Event
  <2>2. num[p] \in Slot
    BY <1>2 DEF ProbeWrite, Slot
  <2>3. /\ slots' = [slots EXCEPT ![p] = [slots[p] EXCEPT ![num[p]] = e]]
        /\ UNCHANGED <<num, pc, cur>>
        /\ probe' = [probe EXCEPT ![p] = "wrote"]
    BY <1>2 DEF ProbeWrite
  <2>4. slots'[p] = [slots[p] EXCEPT ![num[p]] = e] /\ slots[p] \in Buffer
    BY <2>3
  <2>5. slots'[p][num[p]] = e
    BY <2>2, <2>4 DEF Buffer
  <2>6. \A i \in 0 .. num[p] - 1 : slots'[p][i] = slots[p][i]
    BY <2>4 DEF Buffer
  <2> HIDE DEF e
  <2> QED
    BY <2>1, <2>3, <2>5, <2>6
<1>3. ASSUME NEW p \in CPU, ProbeCount(p) PROVE BufferInv'
  <2>1. \A c \in Callers : pc[c] = "reset_slots" => cur[c] # p
    BY <1>3 DEF ProbeCount, LockInv
  <2> QED
    BY <1>3, <2>1 DEF ProbeCount, ProbeLeave
<1>4. ASSUME NEW p \in CPU, ProbeFull(p) PROVE BufferInv'
  BY <1>4 DEF ProbeFull, ProbeLeave
<1>5. ASSUME NEW c \in Callers, StartCas(c) \/ ResetLock(c) PROVE BufferInv'
  BY <1>5 DEF StartCas, ResetLock
<1>6. ASSUME NEW c \in Callers, ResetNum(c) PROVE BufferInv'
  <2>1. probe[cur[c]] # "wrote"
    BY <1>6, HolderExcludesProbe DEF ResetNum
  <2> QED
    BY <1>6, <2>1 DEF ResetNum
<1>7. ASSUME NEW c \in Callers, ResetSlots(c) PROVE BufferInv'
  <2>1. num[cur[c]] = 0 /\ probe[cur[c]] # "wrote"
    BY <1>7, HolderExcludesProbe DEF ResetSlots
  <2>2. \A d \in Callers : d # c => pc[d] # "reset_slots"
    BY <1>7 DEF ResetSlots, PhaseInv, ExclusiveCapture, Starting
  <2> QED
    BY <1>7, <2>1, <2>2 DEF ResetSlots, NextCPU
<1>8. ASSUME NEW c \in Callers, StartRun(c) \/ EndCas(c) PROVE BufferInv'
  BY <1>8 DEF StartRun, EndCas
<1>9. ASSUME NEW c \in Callers, AllocCap(c) \/ AllocEvents(c) PROVE BufferInv'
  BY <1>9 DEF AllocCap, AllocEvents
<1>10. ASSUME NEW c \in Callers, FillLock(c) \/ FillCopy(c) \/ FillFull(c)
       PROVE BufferInv'
  BY <1>10 DEF FillLock, FillCopy, FillFull
<1>11. ASSUME NEW c \in Callers, FillDone(c) PROVE BufferInv'
  BY <1>11 DEF FillDone, NextCPU
<1>12. ASSUME NEW c \in Callers, EndFinish(c) \/ CapFree(c) PROVE BufferInv'
  BY <1>12 DEF EndFinish, CapFree
<1>13. CASE NetlinkInit \/ NetlinkExit \/ UnregisterProbe \/ SynchronizeProbe
  BY <1>13 DEF NetlinkInit, NetlinkExit, UnregisterProbe, SynchronizeProbe
<1>14. CASE Load
  BY <1>14 DEF Load, PhaseInv, ModuleInv, AllIdle
<1>15. CASE UNCHANGED vars
  BY <1>15 DEF vars
<1> QED
  BY <1>1, <1>2, <1>3, <1>4, <1>5, <1>6, <1>7, <1>8, <1>9, <1>10, <1>11, <1>12, <1>13,
     <1>14, <1>15 DEF Next, ProbeStep, StartStep, EndStep, ModuleStep

LEMMA SnapshotInit == Init => SnapshotIntact
BY DEF Init, SnapshotIntact

LEMMA SnapshotStep ==
    TypeInv /\ BufferInv /\ SnapshotIntact /\ [Next]_vars => SnapshotIntact'
<1> SUFFICES ASSUME TypeInv, BufferInv, SnapshotIntact, [Next]_vars
             PROVE SnapshotIntact'
  OBVIOUS
<1>0. cap \in [Callers -> Seq(Event \cup {Blank})]
  BY DEF TypeInv, TypeOK
<1>1. ASSUME NEW c \in Callers, FillCopy(c) PROVE SnapshotIntact'
  <2> DEFINE e == slots[cur[c]][idx[c]]
  <2>1. cur[c] \in CPU /\ idx[c] \in 0 .. num[cur[c]] - 1
    BY <1>1 DEF FillCopy, TypeInv, TypeOK
  <2>2. e \in Event
    BY <2>1 DEF BufferInv
  <2>3. cap' = [cap EXCEPT ![c] = Append(cap[c], e)]
    BY <1>1 DEF FillCopy
  <2>4. Len(cap[c]) < MaxEvents
    BY <1>1 DEF FillCopy
  <2> HIDE DEF e
  <2>5. /\ Len(cap'[c]) = Len(cap[c]) + 1
        /\ cap'[c][Len(cap[c]) + 1] = e
        /\ \A k \in 1 .. Len(cap[c]) : cap'[c][k] = cap[c][k]
    BY <1>0, <2>2, <2>3
  <2>6. Len(cap'[c]) <= MaxEvents /\ \A k \in 1 .. Len(cap'[c]) : cap'[c][k] \in Event
    BY <1>0, <2>2, <2>4, <2>5 DEF SnapshotIntact
  <2>7. \A d \in Callers : d # c => cap'[d] = cap[d]
    BY <1>0, <2>3
  <2> QED
    BY <2>6, <2>7 DEF SnapshotIntact
<1>2. ASSUME NEW c \in Callers, CapFree(c) PROVE SnapshotIntact'
  <2>1. cap' = [cap EXCEPT ![c] = <<>>]
    BY <1>2 DEF CapFree
  <2> QED
    BY <1>0, <2>1 DEF SnapshotIntact
<1>3. CASE UNCHANGED cap
  BY <1>3 DEF SnapshotIntact
<1>4. ASSUME NEW c \in Callers, StartCas(c) \/ EndCas(c) \/ StartStep(c)
      PROVE UNCHANGED cap
  BY <1>4 DEF StartStep, StartCas, EndCas, ResetLock, ResetNum, ResetSlots, StartRun
<1>5. ASSUME NEW c \in Callers, EndStep(c), ~ FillCopy(c), ~ CapFree(c)
      PROVE UNCHANGED cap
  BY <1>5 DEF EndStep, AllocCap, AllocEvents, FillLock, FillDone, FillFull, EndFinish
<1>6. ASSUME NEW p \in CPU, ProbeCheck(p) \/ ProbeStep(p) PROVE UNCHANGED cap
  BY <1>6 DEF ProbeStep, ProbeCheck, ProbeLock, ProbeWrite, ProbeCount, ProbeFull,
              callerVars
<1>7. CASE ModuleStep
  BY <1>7, <1>3 DEF ModuleStep, NetlinkInit, NetlinkExit, UnregisterProbe,
                    SynchronizeProbe, Load, callerVars
<1>8. CASE UNCHANGED vars
  BY <1>8, <1>3 DEF vars
<1> QED
  BY <1>1, <1>2, <1>3, <1>4, <1>5, <1>6, <1>7, <1>8 DEF Next

\* No snapshot is ever handed out with a blank or torn slot in it, and none grows
\* past GB_SCHEDHOOK_MAX_EVENTS.
THEOREM Intact == Spec => []SnapshotIntact
<1> DEFINE IInv == TypeInv /\ PhaseInv /\ LockInv /\ BufferInv /\ SnapshotIntact
<1>1. Init => IInv
  BY TypeInit, PhaseInit, LockInit, BufferInit, SnapshotInit
<1>2. IInv /\ [Next]_vars => IInv'
  BY TypeStep, PhaseStep, LockStep, BufferStep, SnapshotStep
<1>3. IInv => SnapshotIntact
  OBVIOUS
<1> QED
  BY <1>1, <1>2, <1>3, PTL DEF Spec

----------------------------------------------------------------------------
(* The allocations of gb_schedhook_cap_end().                              *)

HeapInv ==
    \A c \in Callers :
        /\ pc[c] \in {"idle", "alloc_cap"} \cup Starting => heap[c] = {}
        /\ pc[c] = "alloc_events" => heap[c] = {"cap"}
        /\ pc[c] \in {"fill_lock", "fill", "holding"} => heap[c] = {"cap", "events"}
        /\ pc[c] = "finish" => heap[c] = {} \/ heap[c] = {"cap", "events"}

LEMMA HeapInit == Init => HeapInv
BY DEF Init, HeapInv, Starting

LEMMA HeapStep == TypeInv /\ HeapInv /\ [Next]_vars => HeapInv'
<1> SUFFICES ASSUME TypeInv, HeapInv, [Next]_vars PROVE HeapInv'
  OBVIOUS
<1>0. /\ pc \in [Callers -> PC]
      /\ DOMAIN heap = Callers /\ heap = [c \in Callers |-> heap[c]]
  BY DEF TypeInv, TypeOK
<1> USE <1>0 DEF HeapInv, Starting, callerVars
<1>1. ASSUME NEW c \in Callers,
             StartCas(c) \/ ResetLock(c) \/ ResetNum(c) \/ ResetSlots(c) \/ StartRun(c)
      PROVE  HeapInv'
  BY <1>1 DEF StartCas, ResetLock, ResetNum, ResetSlots, NextCPU, StartRun
<1>2. ASSUME NEW c \in Callers, EndCas(c) PROVE HeapInv'
  BY <1>2 DEF EndCas
<1>3. ASSUME NEW c \in Callers, AllocCap(c) PROVE HeapInv'
  BY <1>3 DEF AllocCap
<1>4. ASSUME NEW c \in Callers, AllocEvents(c) PROVE HeapInv'
  BY <1>4 DEF AllocEvents
<1>5. ASSUME NEW c \in Callers, FillLock(c) \/ FillCopy(c) \/ FillDone(c) \/ FillFull(c)
      PROVE  HeapInv'
  BY <1>5 DEF FillLock, FillCopy, FillDone, FillFull, NextCPU
<1>6. ASSUME NEW c \in Callers, EndFinish(c) PROVE HeapInv'
  <2>1. CASE heap[c] = {}
    BY <1>6, <2>1 DEF EndFinish
  <2>2. CASE heap[c] = {"cap", "events"}
    BY <1>6, <2>2 DEF EndFinish
  <2> QED
    BY <1>6, <2>1, <2>2 DEF EndFinish
<1>7. ASSUME NEW c \in Callers, CapFree(c) PROVE HeapInv'
  BY <1>7 DEF CapFree
<1>8. CASE UNCHANGED <<pc, heap>>
  BY <1>8
<1>9. ASSUME NEW p \in CPU, ProbeCheck(p) \/ ProbeStep(p) PROVE UNCHANGED <<pc, heap>>
  BY <1>9 DEF ProbeStep, ProbeCheck, ProbeLock, ProbeWrite, ProbeCount, ProbeFull
<1>10. CASE ModuleStep
  BY <1>10, <1>8 DEF ModuleStep, NetlinkInit, NetlinkExit, UnregisterProbe,
                     SynchronizeProbe, Load
<1>11. CASE UNCHANGED vars
  BY <1>11, <1>8 DEF vars
<1> QED
  BY <1>1, <1>2, <1>3, <1>4, <1>5, <1>6, <1>7, <1>8, <1>9, <1>10, <1>11
     DEF Next, StartStep, EndStep

\* Every path of cap_end(), the two failures of its allocations included, frees what
\* it does not hand out.
THEOREM LeakFree == Spec => []NoLeak
<1>1. HeapInv => NoLeak
  BY DEF HeapInv, NoLeak
<1> QED
  BY <1>1, TypeInit, TypeStep, HeapInit, HeapStep, PTL DEF Spec

----------------------------------------------------------------------------
(* A snapshot belongs to its capture: what the reset of cap_start() leaves  *)
(* behind, and what the probes that are late can still add                  *)
(* (schedhook.c:159-172).                                                  *)

\* The caller c of cap_start() has reset cpu's buffer.
ResetBy(c, cpu) ==
    \/ pc[c] = "run"
    \/ pc[c] \in {"reset_lock", "reset_num"} /\ cpu < cur[c]
    \/ pc[c] = "reset_slots" /\ cpu <= cur[c]

\* cpu's buffer has been reset in the capture that is open now.
Cleared(cpu) ==
    \/ state \in {"RUNNING", "DONE"}
    \/ \E c \in Callers : ResetBy(c, cpu)

\* An event is in the buffer of its CPU.
HomeInv ==
    \A cpu \in CPU :
        /\ \A i \in 0 .. num[cpu] - 1 : slots[cpu][i].cpu = cpu
        /\ probe[cpu] = "wrote" => slots[cpu][num[cpu]].cpu = cpu

\* What a cleared buffer holds was written in this capture.
FreshInv ==
    \A cpu \in CPU : Cleared(cpu) =>
        /\ \A i \in 0 .. num[cpu] - 1 : slots[cpu][i].at = capture
        /\ probe[cpu] = "wrote" => slots[cpu][num[cpu]].at = capture

\* All of it but the first event is of probes that passed their check in this
\* capture, and so is the probe that is about to add to it.
LateInv ==
    \A cpu \in CPU :
        /\ probe[cpu] = "wrote" => slots[cpu][num[cpu]].saw = saw[cpu]
        /\ Cleared(cpu) =>
             /\ \A i \in 1 .. num[cpu] - 1 : slots[cpu][i].saw = capture
             /\ probe[cpu] # "idle" /\ num[cpu] > 0 => saw[cpu] = capture

\* How far a snapshot has got: the CPUs before cur[c] and the first idx[c] events of
\* cur[c], whose buffer does not change while c holds its lock.
ProgressInv ==
    \A c \in Callers :
        /\ pc[c] \in {"idle", "alloc_cap", "alloc_events"} \cup Starting => cap[c] = <<>>
        /\ pc[c] = "finish" /\ heap[c] = {} => cap[c] = <<>>
        /\ pc[c] = "fill_lock" => \A k \in 1 .. Len(cap[c]) : cap[c][k].cpu < cur[c]
        /\ pc[c] = "fill" =>
             /\ idx[c] <= Len(cap[c]) /\ idx[c] <= num[cur[c]]
             /\ \A k \in 1 .. Len(cap[c]) - idx[c] : cap[c][k].cpu < cur[c]
             /\ \A k \in 1 .. idx[c] :
                   cap[c][Len(cap[c]) - idx[c] + k] = slots[cur[c]][k - 1]

----------------------------------------------------------------------------
(* What one step can do to one CPU's buffer and probe.                     *)

Kept(cpu) ==
    /\ num'[cpu] = num[cpu] /\ slots'[cpu] = slots[cpu]
    /\ \/ probe'[cpu] = "idle"
       \/ probe'[cpu] = probe[cpu] /\ saw'[cpu] = saw[cpu]
       \/ probe'[cpu] = "checked" /\ saw'[cpu] = capture
       \/ probe'[cpu] = "locked" /\ probe[cpu] = "checked" /\ saw'[cpu] = saw[cpu]

Written(cpu) ==
    /\ num'[cpu] = num[cpu] /\ saw'[cpu] = saw[cpu]
    /\ probe[cpu] = "locked" /\ probe'[cpu] = "wrote"
    /\ slots'[cpu][num[cpu]] =
          [cpu |-> cpu, saw |-> saw[cpu], at |-> capture, st |-> state]
    /\ \A i \in 0 .. num[cpu] - 1 : slots'[cpu][i] = slots[cpu][i]

Counted(cpu) ==
    /\ num'[cpu] = num[cpu] + 1 /\ slots'[cpu] = slots[cpu]
    /\ probe[cpu] = "wrote" /\ probe'[cpu] = "idle"

Emptied(cpu) == num'[cpu] = 0 /\ probe'[cpu] # "wrote"

LEMMA BufferCases ==
    ASSUME TypeInv, PhaseInv, LockInv, BufferInv, [Next]_vars, NEW cpu \in CPU
    PROVE  Kept(cpu) \/ Written(cpu) \/ Counted(cpu) \/ Emptied(cpu)
<1>0. /\ num \in [CPU -> 0 .. MaxPerCPU] /\ slots \in [CPU -> Buffer]
      /\ probe \in [CPU -> {"idle", "checked", "locked", "wrote"}]
      /\ saw \in [CPU -> Capture]
  BY DEF TypeInv, TypeOK
<1> USE <1>0 DEF bufferVars, probeVars, callerVars, ambient
<1>1. ASSUME NEW p \in CPU, ProbeCheck(p) \/ ProbeLock(p) PROVE Kept(cpu)
  BY <1>1 DEF ProbeCheck, ProbeLock, Kept
<1>2. ASSUME NEW p \in CPU, ProbeWrite(p) PROVE Kept(cpu) \/ Written(cpu)
  <2> DEFINE e == [cpu |-> p, saw |-> saw[p], at |-> capture, st |-> state]
  <2>1. /\ slots' = [slots EXCEPT ![p] = [slots[p] EXCEPT ![num[p]] = e]]
        /\ probe' = [probe EXCEPT ![p] = "wrote"] /\ probe[p] = "locked"
        /\ UNCHANGED <<num, saw>>
    BY <1>2 DEF ProbeWrite
  <2>2. CASE cpu # p
    BY <2>1, <2>2 DEF Kept
  <2>3. CASE cpu = p
    <3>0. num[p] \in 0 .. MaxPerCPU /\ num[p] < MaxPerCPU
      BY <1>2 DEF ProbeWrite
    <3>1. num[p] \in Slot
      BY ONLY <3>0, MaxPerCPUAssumption DEF Slot
    <3>2. slots'[p] = [slots[p] EXCEPT ![num[p]] = e] /\ slots[p] \in Buffer
      BY <2>1
    <3>3. slots'[p][num[p]] = e
      BY <3>1, <3>2 DEF Buffer
    <3>4. \A i \in 0 .. num[p] - 1 : slots'[p][i] = slots[p][i]
      BY <3>2 DEF Buffer
    <3> QED
      BY <2>1, <2>3, <3>3, <3>4 DEF Written
  <2> QED
    BY <2>2, <2>3
<1>3. ASSUME NEW p \in CPU, ProbeCount(p) PROVE Kept(cpu) \/ Counted(cpu)
  BY <1>3 DEF ProbeCount, ProbeLeave, Kept, Counted
<1>4. ASSUME NEW p \in CPU, ProbeFull(p) PROVE Kept(cpu)
  BY <1>4 DEF ProbeFull, ProbeLeave, Kept
<1>5. ASSUME NEW c \in Callers, ResetNum(c) PROVE Kept(cpu) \/ Emptied(cpu)
  <2>1. cur[c] \in CPU /\ probe[cur[c]] # "wrote"
    BY <1>5, HolderExcludesProbe DEF ResetNum
  <2> QED
    BY <1>5, <2>1 DEF ResetNum, Kept, Emptied
<1>6. ASSUME NEW c \in Callers, ResetSlots(c) PROVE Kept(cpu) \/ Emptied(cpu)
  <2>1. cur[c] \in CPU /\ probe[cur[c]] # "wrote" /\ num[cur[c]] = 0
    BY <1>6, HolderExcludesProbe DEF ResetSlots, BufferInv
  <2> QED
    BY <1>6, <2>1 DEF ResetSlots, Kept, Emptied
<1>7. CASE Load
  BY <1>7 DEF Load, PhaseInv, ModuleInv, Emptied
<1>8. CASE UNCHANGED <<num, slots, probe, saw>>
  BY <1>8 DEF Kept
<1>9. ASSUME NEW c \in Callers,
             StartCas(c) \/ EndCas(c) \/ ResetLock(c) \/ StartRun(c) \/ EndStep(c)
      PROVE UNCHANGED <<num, slots, probe, saw>>
  BY <1>9 DEF StartCas, EndCas, ResetLock, StartRun, EndStep, AllocCap, AllocEvents,
              FillLock, FillCopy, FillDone, FillFull, EndFinish, CapFree
<1>10. CASE NetlinkInit \/ NetlinkExit \/ UnregisterProbe \/ SynchronizeProbe
  BY <1>10, <1>8 DEF NetlinkInit, NetlinkExit, UnregisterProbe, SynchronizeProbe
<1>11. CASE UNCHANGED vars
  BY <1>11, <1>8 DEF vars
<1> QED
  BY <1>1, <1>2, <1>3, <1>4, <1>5, <1>6, <1>7, <1>8, <1>9, <1>10, <1>11
     DEF Next, ProbeStep, StartStep, ModuleStep

\* A buffer becomes cleared only by the reset of its num_events, and stays so only
\* within one capture.
LEMMA ClearedCases ==
    ASSUME TypeInv, PhaseInv, LockInv, [Next]_vars, NEW cpu \in CPU, Cleared(cpu)'
    PROVE  /\ capture' = capture
           /\ Cleared(cpu) \/ Emptied(cpu)
<1>0. /\ pc \in [Callers -> PC] /\ cur \in [Callers -> CPU]
      /\ num \in [CPU -> 0 .. MaxPerCPU]
      /\ \A d \in CPU : d \in Int /\ d < NumCPUs
  <2>1. \A d \in CPU : d \in Int /\ d < NumCPUs
    BY DEF CPU
  <2> QED
    BY <2>1 DEF TypeInv, TypeOK
<1> USE <1>0 DEF bufferVars, probeVars, callerVars, ambient
<1> DEFINE Goal == /\ capture' = capture
                   /\ Cleared(cpu) \/ Emptied(cpu)
<1>1. CASE UNCHANGED <<state, pc, cur, capture>>
  <2>1. Cleared(cpu)
    BY <1>1 DEF Cleared, ResetBy
  <2> QED
    BY <1>1, <2>1
<1>2. ASSUME NEW p \in CPU, ProbeCheck(p) \/ ProbeStep(p)
      PROVE UNCHANGED <<state, pc, cur, capture>>
  BY <1>2 DEF ProbeStep, ProbeCheck, ProbeLock, ProbeWrite, ProbeCount, ProbeFull
<1>3. ASSUME NEW c \in Callers, StartCas(c) PROVE FALSE
  BY <1>3 DEF StartCas, Cleared, ResetBy, PhaseInv, ExclusiveCapture, Starting, CPU
<1>4. ASSUME NEW c \in Callers, ResetLock(c) PROVE Goal
  BY <1>4 DEF ResetLock, Cleared, ResetBy
<1>5. ASSUME NEW c \in Callers, ResetNum(c) PROVE Goal
  <2>1. CASE cpu # cur[c]
    BY <1>5, <2>1 DEF ResetNum, Cleared, ResetBy
  <2>2. CASE cpu = cur[c]
    BY <1>5, <2>2, HolderExcludesProbe DEF ResetNum, Emptied
  <2> QED
    BY <2>1, <2>2
<1>6. ASSUME NEW c \in Callers, ResetSlots(c) PROVE Goal
  <2>1. /\ pc[c] = "reset_slots" /\ UNCHANGED <<state, capture>>
        /\ \A d \in Callers : d # c => pc'[d] = pc[d] /\ cur'[d] = cur[d]
    BY <1>6 DEF ResetSlots, NextCPU
  <2>2. ResetBy(c, cpu)' => cpu <= cur[c]
    BY <1>6 DEF ResetSlots, NextCPU, ResetBy
  <2>3. Cleared(cpu)
    BY <2>1, <2>2 DEF Cleared, ResetBy
  <2> QED
    BY <2>1, <2>3
<1>7. ASSUME NEW c \in Callers, StartRun(c) PROVE Goal
  BY <1>7 DEF StartRun, Cleared, ResetBy
<1>8. ASSUME NEW c \in Callers, EndCas(c) PROVE Goal
  BY <1>8 DEF EndCas, Cleared
<1>9. ASSUME NEW c \in Callers, EndStep(c) PROVE Goal
  <2>1. state' = state \/ state' = "WAITING"
    BY <1>9 DEF EndStep, AllocCap, AllocEvents, FillLock, FillCopy, FillDone, FillFull,
                EndFinish, CasOrWarn, CapFree
  <2>2. /\ capture' = capture
        /\ pc'[c] \notin Starting
        /\ \A d \in Callers : d # c => pc'[d] = pc[d] /\ cur'[d] = cur[d]
    BY <1>9 DEF EndStep, AllocCap, AllocEvents, FillLock, FillCopy, FillDone, FillFull,
                NextCPU, EndFinish, CapFree, Starting
  <2> QED
    BY <2>1, <2>2 DEF Cleared, ResetBy, Starting
<1>10. CASE NetlinkInit \/ NetlinkExit \/ UnregisterProbe \/ SynchronizeProbe
  BY <1>10, <1>1 DEF NetlinkInit, NetlinkExit, UnregisterProbe, SynchronizeProbe
<1>11. CASE Load
  BY <1>11 DEF Load, Cleared, ResetBy, PhaseInv, ModuleInv, AllIdle
<1>12. CASE UNCHANGED vars
  BY <1>12, <1>1 DEF vars
<1> QED
  BY <1>1, <1>2, <1>3, <1>4, <1>5, <1>6, <1>7, <1>8, <1>9, <1>10, <1>11, <1>12
     DEF Next, StartStep, ModuleStep

----------------------------------------------------------------------------
(* The marks on the events of a buffer.                                    *)

MarkInv == HomeInv /\ FreshInv /\ LateInv

LEMMA MarkInit == Init => MarkInv
<1> SUFFICES ASSUME Init PROVE MarkInv
  OBVIOUS
<1>1. \A cpu \in CPU : num[cpu] = 0 /\ probe[cpu] = "idle"
  BY DEF Init
<1> QED
  BY <1>1 DEF MarkInv, HomeInv, FreshInv, LateInv

LEMMA MarkStep ==
    TypeInv /\ PhaseInv /\ LockInv /\ BufferInv /\ MarkInv /\ [Next]_vars => MarkInv'
<1> SUFFICES ASSUME TypeInv, PhaseInv, LockInv, BufferInv, MarkInv, [Next]_vars,
                    NEW cpu \in CPU
             PROVE  /\ \A i \in 0 .. num'[cpu] - 1 : slots'[cpu][i].cpu = cpu
                    /\ probe'[cpu] = "wrote" =>
                          /\ slots'[cpu][num'[cpu]].cpu = cpu
                          /\ slots'[cpu][num'[cpu]].saw = saw'[cpu]
                    /\ Cleared(cpu)' =>
                          /\ \A i \in 0 .. num'[cpu] - 1 : slots'[cpu][i].at = capture'
                          /\ probe'[cpu] = "wrote" =>
                                slots'[cpu][num'[cpu]].at = capture'
                          /\ \A i \in 1 .. num'[cpu] - 1 : slots'[cpu][i].saw = capture'
                          /\ probe'[cpu] # "idle" /\ num'[cpu] > 0 =>
                                saw'[cpu] = capture'
  BY DEF MarkInv, HomeInv, FreshInv, LateInv
<1>0. num[cpu] \in Nat
  BY DEF TypeInv, TypeOK
<1>1. Cleared(cpu)' => /\ capture' = capture
                       /\ Cleared(cpu) \/ Emptied(cpu)
  BY ClearedCases
<1>2. /\ \A i \in 0 .. num[cpu] - 1 : slots[cpu][i].cpu = cpu
      /\ probe[cpu] = "wrote" => /\ slots[cpu][num[cpu]].cpu = cpu
                                 /\ slots[cpu][num[cpu]].saw = saw[cpu]
      /\ Cleared(cpu) =>
            /\ \A i \in 0 .. num[cpu] - 1 : slots[cpu][i].at = capture
            /\ probe[cpu] = "wrote" => slots[cpu][num[cpu]].at = capture
            /\ \A i \in 1 .. num[cpu] - 1 : slots[cpu][i].saw = capture
            /\ probe[cpu] # "idle" /\ num[cpu] > 0 => saw[cpu] = capture
  BY DEF MarkInv, HomeInv, FreshInv, LateInv
<1>3. CASE Emptied(cpu)
  BY <1>3 DEF Emptied
<1>4. CASE Kept(cpu)
  BY <1>0, <1>1, <1>2, <1>3, <1>4 DEF Kept
<1>5. CASE Written(cpu)
  <2>1. Cleared(cpu)' => Cleared(cpu) /\ capture' = capture
    BY <1>1, <1>5 DEF Written, Emptied
  <2> QED
    BY <1>0, <1>2, <1>5, <2>1 DEF Written
<1>6. CASE Counted(cpu)
  <2>1. Cleared(cpu)' => Cleared(cpu) /\ capture' = capture
    BY <1>0, <1>1, <1>6 DEF Counted, Emptied
  <2>2. \A i \in 0 .. num'[cpu] - 1 : i \in 0 .. num[cpu] - 1 \/ i = num[cpu]
    BY <1>0, <1>6 DEF Counted
  <2>3. num[cpu] > 0 /\ Cleared(cpu) => saw[cpu] = capture
    BY <1>2, <1>6 DEF Counted
  <2> QED
    BY <1>0, <1>2, <1>6, <2>1, <2>2, <2>3 DEF Counted
<1> QED
  BY <1>3, <1>4, <1>5, <1>6, BufferCases

----------------------------------------------------------------------------
(* The progress of the copy.                                               *)

LEMMA ProgressInit == Init => ProgressInv
BY DEF Init, ProgressInv

\* Nobody changes the buffer that is being copied.
LEMMA HeldBuffer ==
    ASSUME TypeInv, PhaseInv, LockInv, [Next]_vars, NEW d \in Callers, pc[d] = "fill"
    PROVE  num'[cur[d]] = num[cur[d]] /\ slots'[cur[d]] = slots[cur[d]]
<1>0. /\ num \in [CPU -> 0 .. MaxPerCPU] /\ slots \in [CPU -> Buffer]
  BY DEF TypeInv, TypeOK
<1>1. cur[d] \in CPU /\ probe[cur[d]] \in {"idle", "checked"}
  BY HolderExcludesProbe
<1> USE <1>0, <1>1 DEF bufferVars, callerVars
<1>2. \A c \in Callers : pc[c] \notin Starting
  BY DEF PhaseInv, ExclusiveCapture, Starting, Ending
<1>3. module = "loaded"
  BY DEF PhaseInv, ModuleInv, AllIdle
<1>4. ASSUME NEW p \in CPU, ProbeCheck(p) \/ ProbeStep(p)
      PROVE  num'[cur[d]] = num[cur[d]] /\ slots'[cur[d]] = slots[cur[d]]
  BY <1>4 DEF ProbeStep, ProbeCheck, ProbeLock, ProbeWrite, ProbeCount, ProbeFull
<1>5. ASSUME NEW c \in Callers, StartStep(c) PROVE FALSE
  BY <1>5, <1>2 DEF StartStep, ResetLock, ResetNum, ResetSlots, StartRun, Starting
<1>6. ASSUME NEW c \in Callers, StartCas(c) \/ EndCas(c) \/ EndStep(c)
      PROVE  UNCHANGED <<num, slots>>
  BY <1>6 DEF StartCas, EndCas, EndStep, AllocCap, AllocEvents, FillLock, FillCopy,
              FillDone, FillFull, EndFinish, CapFree
<1>7. CASE ModuleStep
  BY <1>7, <1>3 DEF ModuleStep, NetlinkInit, NetlinkExit, UnregisterProbe,
                    SynchronizeProbe, Load
<1>8. CASE UNCHANGED vars
  BY <1>8 DEF vars
<1> QED
  BY <1>4, <1>5, <1>6, <1>7, <1>8 DEF Next

LEMMA ProgressStep ==
    TypeInv /\ PhaseInv /\ LockInv /\ HeapInv /\ MarkInv /\ ProgressInv /\ [Next]_vars
        => ProgressInv'
<1> SUFFICES ASSUME TypeInv, PhaseInv, LockInv, HeapInv, MarkInv, ProgressInv,
                    [Next]_vars
             PROVE  ProgressInv'
  OBVIOUS
<1> DEFINE Progress(d) ==
      /\ pc[d] \in {"idle", "alloc_cap", "alloc_events"} \cup Starting => cap[d] = <<>>
      /\ pc[d] = "finish" /\ heap[d] = {} => cap[d] = <<>>
      /\ pc[d] = "fill_lock" => \A k \in 1 .. Len(cap[d]) : cap[d][k].cpu < cur[d]
      /\ pc[d] = "fill" =>
           /\ idx[d] <= Len(cap[d]) /\ idx[d] <= num[cur[d]]
           /\ \A k \in 1 .. Len(cap[d]) - idx[d] : cap[d][k].cpu < cur[d]
           /\ \A k \in 1 .. idx[d] :
                 cap[d][Len(cap[d]) - idx[d] + k] = slots[cur[d]][k - 1]
      Same(d) == /\ pc'[d] = pc[d] /\ cur'[d] = cur[d] /\ idx'[d] = idx[d]
                 /\ cap'[d] = cap[d] /\ heap'[d] = heap[d]
<1>0. /\ pc \in [Callers -> PC] /\ cur \in [Callers -> CPU]
      /\ idx \in [Callers -> 0 .. MaxPerCPU] /\ num \in [CPU -> 0 .. MaxPerCPU]
      /\ cap \in [Callers -> Seq(Event \cup {Blank})]
      /\ DOMAIN heap = Callers /\ heap = [c \in Callers |-> heap[c]]
  BY DEF TypeInv, TypeOK
<1>1. \A d \in Callers : Progress(d)
  BY DEF ProgressInv
<1>2. ASSUME NEW d \in Callers, Same(d) PROVE Progress(d)'
  <2>1. pc[d] = "fill" => num'[cur[d]] = num[cur[d]] /\ slots'[cur[d]] = slots[cur[d]]
    BY HeldBuffer
  <2> QED
    BY <1>1, <1>2, <2>1
<1> SUFFICES \A d \in Callers : Progress(d)'
  BY DEF ProgressInv
<1>3. ASSUME NEW c \in Callers,
             StartCas(c) \/ ResetLock(c) \/ ResetNum(c) \/ ResetSlots(c) \/ StartRun(c)
      PROVE  Progress(c)' /\ \A d \in Callers : d # c => Same(d)
  <2>1. /\ pc[c] \in {"idle"} \cup Starting /\ pc'[c] \in {"idle"} \cup Starting
        /\ cap' = cap
        /\ \A d \in Callers : d # c => Same(d)
    BY <1>0, <1>3 DEF StartCas, ResetLock, ResetNum, ResetSlots, NextCPU, StartRun, Starting
  <2> QED
    BY <1>1, <2>1 DEF Starting
<1>4. ASSUME NEW c \in Callers, EndCas(c) \/ AllocCap(c) \/ AllocEvents(c)
      PROVE  Progress(c)' /\ \A d \in Callers : d # c => Same(d)
  <2>1. /\ pc[c] \in {"idle", "alloc_cap", "alloc_events"}
        /\ pc'[c] \in {"alloc_cap", "alloc_events", "fill_lock", "finish"}
        /\ cap' = cap
        /\ \A d \in Callers : d # c => Same(d)
    BY <1>0, <1>4 DEF EndCas, AllocCap, AllocEvents
  <2>2. cap'[c] = <<>>
    BY <1>1, <2>1
  <2> QED
    BY <2>1, <2>2 DEF Starting
<1>5. ASSUME NEW c \in Callers, FillLock(c)
      PROVE  Progress(c)' /\ \A d \in Callers : d # c => Same(d)
  <2>1. /\ pc[c] = "fill_lock" /\ pc'[c] = "fill" /\ idx'[c] = 0
        /\ cap' = cap /\ cur' = cur /\ num' = num
        /\ \A d \in Callers : d # c => Same(d)
    BY <1>0, <1>5 DEF FillLock, bufferVars
  <2>2. Len(cap[c]) \in Nat /\ cur[c] \in CPU /\ num[cur[c]] \in Nat
    BY <1>0
  <2> QED
    BY <1>1, <2>1, <2>2 DEF Starting
<1>6. ASSUME NEW c \in Callers, FillCopy(c)
      PROVE  Progress(c)' /\ \A d \in Callers : d # c => Same(d)
  <2> DEFINE e == slots[cur[c]][idx[c]]
  <2>1. /\ pc[c] = "fill" /\ idx[c] < num[cur[c]] /\ idx' = [idx EXCEPT ![c] = idx[c] + 1]
        /\ cap' = [cap EXCEPT ![c] = Append(cap[c], e)]
        /\ pc' = pc /\ cur' = cur /\ heap' = heap /\ num' = num /\ slots' = slots
    BY <1>6 DEF FillCopy, bufferVars
  <2>2. /\ Len(cap[c]) \in Nat /\ cur[c] \in CPU /\ num[cur[c]] \in Nat /\ idx[c] \in Nat
        /\ cap[c] \in Seq(Event \cup {Blank}) /\ idx[c] \in Slot
    <3>1. cur[c] \in CPU /\ num[cur[c]] \in 0 .. MaxPerCPU /\ idx[c] \in 0 .. MaxPerCPU
      BY <1>0
    <3>2. idx[c] \in Slot /\ num[cur[c]] \in Nat /\ idx[c] \in Nat
      BY ONLY <2>1, <3>1, MaxPerCPUAssumption DEF Slot
    <3> QED
      BY <1>0, <3>1, <3>2
  <2>3. e \in Event \cup {Blank}
    BY <2>2 DEF TypeInv, TypeOK, Buffer
  <2> HIDE DEF e
  <2>4. /\ Len(cap'[c]) = Len(cap[c]) + 1
        /\ cap'[c][Len(cap[c]) + 1] = e
        /\ \A k \in 1 .. Len(cap[c]) : cap'[c][k] = cap[c][k]
    BY <1>0, <2>1, <2>2, <2>3
  <2>5. idx'[c] = idx[c] + 1
    BY <1>0, <2>1
  <2>6. \A k \in 1 .. Len(cap'[c]) - idx'[c] : cap'[c][k].cpu < cur[c]
    <3>1. Len(cap'[c]) - idx'[c] = Len(cap[c]) - idx[c]
      <4>1. /\ Len(cap[c]) \in Nat /\ idx[c] \in Nat
            /\ Len(cap'[c]) = Len(cap[c]) + 1 /\ idx'[c] = idx[c] + 1
        BY <2>2, <2>4, <2>5
      <4> QED
        BY ONLY <4>1
    <3>2. \A k \in 1 .. Len(cap[c]) - idx[c] : k \in 1 .. Len(cap[c])
      BY <2>2
    <3>3. \A k \in 1 .. Len(cap[c]) - idx[c] : cap[c][k].cpu < cur[c]
      BY <1>1, <2>1
    <3> QED
      BY <2>4, <3>1, <3>2, <3>3
  <2>7. ASSUME NEW k \in 1 .. idx'[c]
        PROVE  cap'[c][Len(cap'[c]) - idx'[c] + k] = slots[cur[c]][k - 1]
    <3>1. Len(cap'[c]) - idx'[c] + k = Len(cap[c]) - idx[c] + k
      <4>1. /\ Len(cap[c]) \in Nat /\ idx[c] \in Nat
            /\ Len(cap'[c]) = Len(cap[c]) + 1 /\ idx'[c] = idx[c] + 1
        BY <2>2, <2>4, <2>5
      <4>2. k \in Int
        BY <4>1
      <4> QED
        BY ONLY <4>1, <4>2
    <3>2. CASE k = idx[c] + 1
      <4>1. Len(cap[c]) - idx[c] + k = Len(cap[c]) + 1 /\ k - 1 = idx[c]
        BY <2>2, <3>2
      <4>2. slots[cur[c]][k - 1] = e
        BY <4>1 DEF e
      <4> QED
        BY <2>4, <3>1, <4>1, <4>2
    <3>3. CASE k \in 1 .. idx[c]
      <4>1. Len(cap[c]) - idx[c] + k \in 1 .. Len(cap[c])
        BY <1>1, <2>1, <2>2, <3>3
      <4>2. cap[c][Len(cap[c]) - idx[c] + k] = slots[cur[c]][k - 1]
        BY <1>1, <2>1, <3>3
      <4> QED
        BY <2>4, <3>1, <4>1, <4>2
    <3> QED
      BY <2>2, <2>5, <3>2, <3>3
  <2>8. idx'[c] <= Len(cap'[c]) /\ idx'[c] <= num[cur[c]]
    BY <1>1, <2>1, <2>2, <2>4, <2>5
  <2>9. \A d \in Callers : d # c => Same(d)
    BY <1>0, <2>1
  <2> QED
    BY <2>1, <2>6, <2>7, <2>8, <2>9 DEF Starting
<1>7. ASSUME NEW c \in Callers, FillDone(c)
      PROVE  Progress(c)' /\ \A d \in Callers : d # c => Same(d)
  <2>1. /\ pc[c] = "fill" /\ idx[c] >= num[cur[c]] /\ cap' = cap
        /\ \/ pc'[c] = "fill_lock" /\ cur'[c] = cur[c] + 1
           \/ pc'[c] = "finish" /\ heap'[c] # {}
        /\ \A d \in Callers : d # c => Same(d)
    BY <1>0, <1>7 DEF FillDone, NextCPU, HeapInv
  <2>2. /\ Len(cap[c]) \in Nat /\ cur[c] \in CPU /\ cur[c] \in Int
        /\ num[cur[c]] \in Nat /\ idx[c] \in Nat
    <3>1. cur[c] \in CPU /\ Len(cap[c]) \in Nat /\ idx[c] \in Nat
      BY <1>0
    <3>2. cur[c] \in Int
      BY <3>1, Values
    <3>3. num[cur[c]] \in Nat
      BY <1>0, <3>1
    <3> QED
      BY <3>1, <3>2, <3>3
  <2>3. ASSUME NEW k \in 1 .. Len(cap[c]) PROVE cap[c][k].cpu < cur[c] + 1
    <3>1. CASE k \in 1 .. Len(cap[c]) - idx[c]
      <4>1. cap[c][k].cpu < cur[c]
        BY <1>1, <2>1, <3>1
      <4>2. cap[c][k] \in Event \cup {Blank}
        BY <1>0
      <4>3. cap[c][k].cpu \in Int
        BY ONLY <4>2 DEF Event, Blank, CPU
      <4> QED
        BY <2>2, <4>1, <4>3
    <3>2. CASE k > Len(cap[c]) - idx[c]
      <4> DEFINE j == k - (Len(cap[c]) - idx[c])
      <4>1. j \in 1 .. idx[c] /\ k = Len(cap[c]) - idx[c] + j
        BY <1>1, <2>1, <2>2, <3>2
      <4>2. cap[c][k] = slots[cur[c]][j - 1]
        BY <1>1, <2>1, <4>1
      <4>3. j - 1 \in 0 .. num[cur[c]] - 1
        BY <1>1, <2>1, <2>2, <4>1
      <4>4. slots[cur[c]][j - 1].cpu = cur[c]
        BY <2>2, <4>3 DEF MarkInv, HomeInv
      <4> QED
        BY <2>2, <4>2, <4>4
    <3> QED
      BY <2>2, <3>1, <3>2
  <2> QED
    BY <2>1, <2>3 DEF Starting
<1>8. ASSUME NEW c \in Callers, FillFull(c) \/ EndFinish(c) \/ CapFree(c)
      PROVE  Progress(c)' /\ \A d \in Callers : d # c => Same(d)
  <2>1. /\ \/ pc'[c] = "finish" /\ heap'[c] # {}
           \/ pc'[c] = "holding"
           \/ pc'[c] = "idle" /\ cap'[c] = <<>>
        /\ \A d \in Callers : d # c => Same(d)
    <3>1. CASE FillFull(c)
      BY <1>0, <3>1 DEF FillFull, HeapInv
    <3>2. CASE CapFree(c)
      BY <1>0, <3>2 DEF CapFree
    <3>3. CASE EndFinish(c)
      <4>1. /\ pc[c] = "finish" /\ cap' = cap /\ heap' = heap
            /\ UNCHANGED <<cur, idx>>
            /\ pc' = [pc EXCEPT ![c] = IF "events" \in heap[c] THEN "holding" ELSE "idle"]
        BY <3>3 DEF EndFinish
      <4>2. \A d \in Callers : d # c => Same(d)
        BY <1>0, <4>1
      <4>3. CASE heap[c] = {}
        BY <1>0, <1>1, <4>1, <4>2, <4>3
      <4>4. CASE heap[c] = {"cap", "events"}
        BY <1>0, <4>1, <4>2, <4>4
      <4> QED
        BY <4>1, <4>3, <4>4 DEF HeapInv
    <3> QED
      BY <1>8, <3>1, <3>2, <3>3
  <2> QED
    BY <2>1 DEF Starting
<1>9. ASSUME NEW p \in CPU, ProbeCheck(p) \/ ProbeStep(p), NEW d \in Callers
      PROVE Same(d)
  BY <1>9 DEF ProbeStep, ProbeCheck, ProbeLock, ProbeWrite, ProbeCount, ProbeFull,
              callerVars
<1>10. ASSUME ModuleStep \/ UNCHANGED vars, NEW d \in Callers PROVE Same(d)
  BY <1>10 DEF ModuleStep, NetlinkInit, NetlinkExit, UnregisterProbe, SynchronizeProbe,
               Load, callerVars, vars
<1> HIDE DEF Progress, Same
<1> QED
  BY <1>2, <1>3, <1>4, <1>5, <1>6, <1>7, <1>8, <1>9, <1>10 DEF Next, StartStep, EndStep

----------------------------------------------------------------------------
(* What that makes of a snapshot.                                          *)

SnapshotMarks == SnapshotFresh /\ LateEventFirst

LEMMA SnapshotMarksInit == Init => SnapshotMarks
BY DEF Init, SnapshotMarks, SnapshotFresh, LateEventFirst, Ending

LEMMA SnapshotMarksStep ==
    TypeInv /\ PhaseInv /\ MarkInv /\ ProgressInv /\ SnapshotMarks /\ [Next]_vars
        => SnapshotMarks'
<1> SUFFICES ASSUME TypeInv, PhaseInv, MarkInv, ProgressInv, SnapshotMarks, [Next]_vars
             PROVE  SnapshotMarks'
  OBVIOUS
<1> DEFINE Marked(d) ==
      pc[d] \in Ending =>
        \A k \in 1 .. Len(cap[d]) :
          /\ cap[d][k].at = capture
          /\ cap[d][k].saw # capture =>
               \A j \in 1 .. k - 1 : cap[d][j].cpu # cap[d][k].cpu
<1>0. /\ pc \in [Callers -> PC] /\ cur \in [Callers -> CPU]
      /\ cap \in [Callers -> Seq(Event \cup {Blank})]
  BY DEF TypeInv, TypeOK
<1>1. \A d \in Callers : Marked(d)
  BY DEF SnapshotMarks, SnapshotFresh, LateEventFirst
<1> SUFFICES \A d \in Callers : Marked(d)'
  BY DEF SnapshotMarks, SnapshotFresh, LateEventFirst
<1>2. ASSUME NEW d \in Callers, pc'[d] \in Ending => pc[d] \in Ending,
             cap'[d] = cap[d], capture' = capture
      PROVE  Marked(d)'
  BY <1>1, <1>2
<1>3. ASSUME NEW c \in Callers, StartCas(c), NEW d \in Callers PROVE pc'[d] \notin Ending
  <2>1. \A b \in Callers : pc[b] \notin Ending
    BY <1>3 DEF StartCas, PhaseInv, ExclusiveCapture
  <2> QED
    BY <1>0, <1>3, <2>1 DEF StartCas, Ending
<1>4. ASSUME NEW c \in Callers, StartStep(c), NEW d \in Callers
      PROVE  /\ pc'[d] \in Ending => pc[d] \in Ending
             /\ cap'[d] = cap[d] /\ capture' = capture
  BY <1>0, <1>4 DEF StartStep, ResetLock, ResetNum, ResetSlots, NextCPU, StartRun, Ending,
                    Starting, ambient
<1>5. ASSUME NEW c \in Callers, EndCas(c), NEW d \in Callers PROVE Marked(d)'
  <2>1. /\ pc[c] = "idle" /\ cap' = cap /\ capture' = capture
        /\ \A b \in Callers : b # c => pc'[b] = pc[b]
    BY <1>0, <1>5 DEF EndCas, ambient
  <2>2. cap[c] = <<>>
    BY <2>1 DEF ProgressInv
  <2>3. CASE d = c
    BY <2>1, <2>2, <2>3
  <2>4. CASE d # c
    BY <1>2, <2>1, <2>4
  <2> QED
    BY <2>3, <2>4
<1>6. ASSUME NEW c \in Callers, FillCopy(c), NEW d \in Callers PROVE Marked(d)'
  <2> DEFINE e == slots[cur[c]][idx[c]]
  <2>1. /\ pc[c] = "fill" /\ idx[c] < num[cur[c]] /\ pc' = pc /\ capture' = capture
        /\ cap' = [cap EXCEPT ![c] = Append(cap[c], e)]
    BY <1>6 DEF FillCopy, ambient
  <2>2. cur[c] \in CPU /\ idx[c] \in 0 .. num[cur[c]] - 1 /\ idx[c] \in Slot
    <3>1. cur[c] \in CPU /\ num[cur[c]] \in 0 .. MaxPerCPU /\ idx[c] \in 0 .. MaxPerCPU
      BY DEF TypeInv, TypeOK
    <3> QED
      BY ONLY <2>1, <3>1, MaxPerCPUAssumption DEF Slot
  <2>3. e \in Event \cup {Blank}
    BY <2>2 DEF TypeInv, TypeOK, Buffer
  <2>4. Cleared(cur[c])
    BY <2>1 DEF Cleared, PhaseInv, ExclusiveCapture, Ending
  <2>5. e.at = capture /\ e.cpu = cur[c]
    BY <2>2, <2>4 DEF MarkInv, HomeInv, FreshInv
  <2>6. e.saw # capture => idx[c] = 0
    <3>1. idx[c] # 0 => idx[c] \in 1 .. num[cur[c]] - 1
      BY <2>2
    <3> QED
      BY <2>2, <2>4, <3>1 DEF MarkInv, LateInv
  <2>7. e.saw # capture => \A j \in 1 .. Len(cap[c]) : cap[c][j].cpu # e.cpu
    <3>1. SUFFICES ASSUME e.saw # capture, NEW j \in 1 .. Len(cap[c])
                   PROVE  cap[c][j].cpu # e.cpu
      OBVIOUS
    <3>2. idx[c] = 0 /\ Len(cap[c]) \in Nat
      BY <1>0, <2>6, <3>1
    <3>3. j \in 1 .. Len(cap[c]) - idx[c]
      BY <3>2
    <3>4. cap[c][j].cpu < cur[c]
      BY <2>1, <3>3 DEF ProgressInv
    <3>5. cur[c] \in Int
      BY <2>2 DEF CPU
    <3> QED
      BY <2>5, <3>4, <3>5
  <2> HIDE DEF e
  <2>8. /\ Len(cap[c]) \in Nat
        /\ Len(cap'[c]) = Len(cap[c]) + 1
        /\ cap'[c][Len(cap[c]) + 1] = e
        /\ \A k \in 1 .. Len(cap[c]) : cap'[c][k] = cap[c][k]
    BY <1>0, <2>1, <2>3
  <2>9. CASE d # c
    BY <1>0, <1>2, <2>1, <2>9
  <2>10. ASSUME NEW k \in 1 .. Len(cap'[c])
         PROVE  /\ cap'[c][k].at = capture
                /\ cap'[c][k].saw # capture =>
                     \A j \in 1 .. k - 1 : cap'[c][j].cpu # cap'[c][k].cpu
    <3>1. CASE k \in 1 .. Len(cap[c])
      <4>1. \A j \in 1 .. k - 1 : j \in 1 .. Len(cap[c])
        BY <2>8, <3>1
      <4>2. pc[c] \in Ending
        BY <2>1 DEF Ending
      <4> QED
        BY <1>1, <2>8, <3>1, <4>1, <4>2
    <3>2. CASE k = Len(cap[c]) + 1
      <4>1. \A j \in 1 .. k - 1 : j \in 1 .. Len(cap[c])
        BY <2>8, <3>2
      <4> QED
        BY <2>5, <2>7, <2>8, <3>2, <4>1
    <3> QED
      BY <2>8, <3>1, <3>2
  <2> QED
    BY <2>1, <2>9, <2>10
<1>7. ASSUME NEW c \in Callers, EndStep(c), ~ FillCopy(c), NEW d \in Callers
      PROVE  /\ pc'[d] \in Ending => pc[d] \in Ending
             /\ pc'[d] \in Ending => cap'[d] = cap[d]
             /\ capture' = capture
  BY <1>0, <1>7 DEF EndStep, AllocCap, AllocEvents, FillLock, FillDone, FillFull, NextCPU,
                    EndFinish, CapFree, Ending, ambient
<1>8. ASSUME NEW p \in CPU, ProbeCheck(p) \/ ProbeStep(p)
      PROVE  UNCHANGED <<pc, cap, capture>>
  BY <1>8 DEF ProbeStep, ProbeCheck, ProbeLock, ProbeWrite, ProbeCount, ProbeFull,
              callerVars, ambient
<1>9. CASE ModuleStep \/ UNCHANGED vars
  <2>1. UNCHANGED <<pc, cap, capture>>
    BY <1>9 DEF ModuleStep, NetlinkInit, NetlinkExit, UnregisterProbe, SynchronizeProbe,
                Load, callerVars, vars
  <2> QED
    BY <1>2, <2>1
<1>10. ASSUME NEW d \in Callers, pc'[d] \notin Ending PROVE Marked(d)'
  BY <1>10
<1> HIDE DEF Marked
<1> QED
  BY <1>2, <1>3, <1>4, <1>5, <1>6, <1>7, <1>8, <1>9, <1>10 DEF Next

\* The conjunction that is inductive: each part needs those before it.
IInv ==
    /\ TypeInv /\ PhaseInv /\ LockInv /\ BufferInv /\ HeapInv
    /\ MarkInv /\ ProgressInv /\ SnapshotMarks

LEMMA Inductive == Spec => []IInv
<1>1. Init => IInv
  BY TypeInit, PhaseInit, LockInit, BufferInit, HeapInit, MarkInit, ProgressInit,
     SnapshotMarksInit DEF IInv
<1>2. IInv /\ [Next]_vars => IInv'
  BY TypeStep, PhaseStep, LockStep, BufferStep, HeapStep, MarkStep, ProgressStep,
     SnapshotMarksStep DEF IInv
<1> QED
  BY <1>1, <1>2, PTL DEF Spec

\* No event of an earlier capture is ever in the snapshot of a later one.
THEOREM Fresh == Spec => []SnapshotFresh
<1>1. IInv => SnapshotFresh
  BY DEF IInv, SnapshotMarks
<1> QED
  BY <1>1, Inductive, PTL

\* The comment at schedhook.c:170-171 is right, in every interleaving: a probe that
\* comes extremely late writes at index 0 of its CPU.
THEOREM LateFirst == Spec => []LateEventFirst
<1>1. IInv => LateEventFirst
  BY DEF IInv, SnapshotMarks
<1> QED
  BY <1>1, Inductive, PTL
=============================================================================
