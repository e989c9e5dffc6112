--------------------- MODULE SchedhookRefinementProofs ---------------------
(***************************************************************************)
(* schedhook.c implements CaptureSession, for any number of CPUs, callers, *)
(* events and captures: every step of the capture is one of the session's, *)
(* or changes nothing the session sees.                                    *)
(***************************************************************************)
EXTENDS SchedhookProofs, SchedhookRefinement, SequenceTheorems

USE NumCPUsAssumption, MaxPerCPUAssumption, MaxEventsAssumption

----------------------------------------------------------------------------
(* The loops start at CPU 0.                                               *)

Looping == {"reset_lock", "reset_num", "reset_slots", "fill_lock", "fill"}

CursorInv == \A c \in Callers : pc[c] \notin Looping => cur[c] = 0

LEMMA CursorInit == Init => CursorInv
  BY DEF Init, CursorInv

LEMMA CursorStep == TypeInv /\ CursorInv /\ [Next]_vars => CursorInv'
<1> SUFFICES ASSUME TypeInv, CursorInv, [Next]_vars PROVE CursorInv'
  OBVIOUS
<1>0. pc \in [Callers -> PC] /\ cur \in [Callers -> CPU]
  BY DEF TypeInv, TypeOK
<1> USE <1>0 DEF CursorInv, Looping, callerVars
<1>1. ASSUME NEW p \in CPU, ProbeCheck(p) \/ ProbeStep(p) PROVE CursorInv'
  BY <1>1 DEF ProbeStep, ProbeCheck, ProbeLock, ProbeWrite, ProbeCount, ProbeFull
<1>2. ASSUME NEW c \in Callers, StartCas(c) \/ EndCas(c) PROVE CursorInv'
  BY <1>2 DEF StartCas, EndCas
<1>3. ASSUME NEW c \in Callers, StartStep(c) PROVE CursorInv'
  BY <1>3 DEF StartStep, ResetLock, ResetNum, ResetSlots, NextCPU, StartRun
<1>4. ASSUME NEW c \in Callers, AllocCap(c) \/ AllocEvents(c) PROVE CursorInv'
  BY <1>4 DEF AllocCap, AllocEvents
<1>5. ASSUME NEW c \in Callers, FillLock(c) \/ FillCopy(c) \/ FillDone(c) \/ FillFull(c)
      PROVE  CursorInv'
  BY <1>5 DEF FillLock, FillCopy, FillDone, FillFull, NextCPU
<1>6. ASSUME NEW c \in Callers, EndFinish(c) \/ CapFree(c) PROVE CursorInv'
  BY <1>6 DEF EndFinish, CapFree
<1>7. CASE ModuleStep \/ UNCHANGED vars
  BY <1>7 DEF ModuleStep, NetlinkInit, NetlinkExit, UnregisterProbe, SynchronizeProbe,
              Load, vars
<1> QED
  BY <1>1, <1>2, <1>3, <1>4, <1>5, <1>6, <1>7 DEF Next, EndStep

\* A capture is being prepared or ended by somebody.
BusyInv ==
    /\ state = "PREPARING" => \E c \in Callers : pc[c] \in Starting
    /\ state = "DONE" => \E c \in Callers : pc[c] \in Ending

LEMMA BusyInit == Init => BusyInv
  BY DEF Init, BusyInv

LEMMA BusyStep == TypeInv /\ PhaseInv /\ BusyInv /\ [Next]_vars => BusyInv'
<1> SUFFICES ASSUME TypeInv, PhaseInv, BusyInv, [Next]_vars PROVE BusyInv'
  OBVIOUS
<1>0. pc \in [Callers -> PC]
  BY DEF TypeInv, TypeOK
<1> USE <1>0 DEF BusyInv, Starting, Ending, callerVars
<1>1. ASSUME NEW p \in CPU, ProbeCheck(p) \/ ProbeStep(p) PROVE BusyInv'
  BY <1>1 DEF ProbeStep, ProbeCheck, ProbeLock, ProbeWrite, ProbeCount, ProbeFull
<1>2. ASSUME NEW c \in Callers, StartCas(c) \/ EndCas(c) PROVE BusyInv'
  BY <1>2 DEF StartCas, EndCas
<1>3. ASSUME NEW c \in Callers, ResetLock(c) \/ ResetNum(c) \/ ResetSlots(c) PROVE BusyInv'
  BY <1>3 DEF ResetLock, ResetNum, ResetSlots, NextCPU, PhaseInv, ExclusiveCapture
<1>4. ASSUME NEW c \in Callers, StartRun(c) \/ EndFinish(c) PROVE BusyInv'
  BY <1>4 DEF StartRun, EndFinish, CasOrWarn, PhaseInv, ExclusiveCapture
<1>5. ASSUME NEW c \in Callers, AllocCap(c) \/ AllocEvents(c) PROVE BusyInv'
  BY <1>5 DEF AllocCap, AllocEvents, PhaseInv, ExclusiveCapture
<1>6. ASSUME NEW c \in Callers, FillLock(c) \/ FillCopy(c) \/ FillDone(c) \/ FillFull(c)
      PROVE  BusyInv'
  BY <1>6 DEF FillLock, FillCopy, FillDone, FillFull, NextCPU, PhaseInv, ExclusiveCapture
<1>7. ASSUME NEW c \in Callers, CapFree(c) PROVE BusyInv'
  <2>1. /\ pc[c] = "holding" /\ pc' = [pc EXCEPT ![c] = "idle"] /\ state' = state
    BY <1>7 DEF CapFree
  <2> QED BY <2>1
<1>8. CASE ModuleStep \/ UNCHANGED vars
  BY <1>8 DEF ModuleStep, NetlinkInit, NetlinkExit, UnregisterProbe, SynchronizeProbe,
              Load, vars
<1> QED
  BY <1>1, <1>2, <1>3, <1>4, <1>5, <1>6, <1>7, <1>8 DEF Next, StartStep, EndStep

\* What is known of a state and what the mapping of a step rests on.
RInv == IInv /\ SnapshotIntact /\ CursorInv /\ BusyInv

LEMMA RefinementInvariant == Spec => []RInv
<1>1. Init => RInv
  BY TypeInit, PhaseInit, LockInit, BufferInit, HeapInit, MarkInit, ProgressInit,
     SnapshotMarksInit, SnapshotInit, CursorInit, BusyInit DEF IInv, RInv
<1>2. RInv /\ [Next]_vars => RInv'
  BY TypeStep, PhaseStep, LockStep, BufferStep, HeapStep, MarkStep, ProgressStep,
     SnapshotMarksStep, SnapshotStep, CursorStep, BusyStep
     DEF IInv, RInv
<1> QED BY <1>1, <1>2, PTL DEF Spec

----------------------------------------------------------------------------
(* What the session sees of a caller.                                      *)

LEMMA SeenNow ==
    ASSUME PhaseInv, NEW c \in Callers, pc[c] \in Starting \cup Ending
    PROVE  Visited = DealtWith(c) /\ Result = Collected(c)
<1>1. Busy = {c}
  BY DEF PhaseInv, ExclusiveCapture, Busy
<1> QED BY <1>1 DEF Visited, Result

LEMMA SeenNext ==
    ASSUME PhaseInv', NEW c \in Callers, pc'[c] \in Starting \cup Ending
    PROVE  Visited' = DealtWith(c)' /\ Result' = Collected(c)'
<1>1. Busy' = {c}
  BY DEF PhaseInv, ExclusiveCapture, Busy
<1> QED BY <1>1 DEF Visited, Result

LEMMA NobodyNow ==
    ASSUME PhaseInv, state \in {"WAITING", "RUNNING"}
    PROVE  Busy = {} /\ Visited = 0 /\ Result = <<>>
  BY DEF PhaseInv, ExclusiveCapture, Busy, Visited, Result

LEMMA NobodyNext ==
    ASSUME PhaseInv', state' \in {"WAITING", "RUNNING"}
    PROVE  Visited' = 0 /\ Result' = <<>>
  BY DEF PhaseInv, ExclusiveCapture, Busy, Visited, Result

\* A step of a caller that is not inside of a capture, or of nobody, is not seen.
LEMMA UnseenStep ==
    ASSUME \A c \in Callers :
             /\ pc'[c] \in Starting \cup Ending <=> pc[c] \in Starting \cup Ending
             /\ pc[c] \in Starting \cup Ending =>
                  /\ pc'[c] = pc[c] /\ cur'[c] = cur[c]
                  /\ idx'[c] = idx[c] /\ cap'[c] = cap[c]
    PROVE  Visited' = Visited /\ Result' = Result
<1>1. Busy' = Busy
  BY DEF Busy
<1>2. CASE Busy = {}
  BY <1>1, <1>2 DEF Visited, Result
<1>3. CASE Busy # {}
  <2>0. PICK c \in Busy : c = CHOOSE d \in Busy : TRUE
    BY <1>3
  <2>1. c \in Callers /\ pc[c] \in Starting \cup Ending
    BY DEF Busy
  <2>2. /\ Visited = DealtWith(c) /\ Visited' = DealtWith(c)'
        /\ Result = Collected(c) /\ Result' = Collected(c)'
    BY <1>1, <1>3, <2>0 DEF Visited, Result
  <2> QED BY <2>1, <2>2 DEF DealtWith, Collected
<1> QED BY <1>2, <1>3

LEMMA LogKept ==
    ASSUME TypeOK, \A cpu \in CPU :
             /\ num'[cpu] = num[cpu]
             /\ \A i \in 0 .. num[cpu] - 1 : slots'[cpu][i] = slots[cpu][i]
    PROVE  Log' = Log
<1> SUFFICES ASSUME NEW cpu \in CPU PROVE Recorded(cpu)' = Recorded(cpu)
  BY DEF Log
<1>1. num[cpu] \in Nat
  BY DEF TypeOK
<1>2. \A i \in 1 .. num[cpu] : i - 1 \in 0 .. num[cpu] - 1
  BY <1>1
<1> QED BY <1>2 DEF Recorded

LEMMA RecordedSeq ==
    ASSUME TypeOK, BufferInv, NEW cpu \in CPU
    PROVE  /\ Recorded(cpu) \in Seq(Event)
           /\ Len(Recorded(cpu)) = num[cpu]
           /\ \A i \in 1 .. num[cpu] : Recorded(cpu)[i] = slots[cpu][i - 1]
<1>1. num[cpu] \in Nat
  BY DEF TypeOK
<1>2. \A i \in 1 .. num[cpu] : i - 1 \in 0 .. num[cpu] - 1
  BY <1>1
<1>3. \A i \in 1 .. num[cpu] : slots[cpu][i - 1] \in Event
  BY <1>2 DEF BufferInv
<1> QED BY <1>1, <1>3 DEF Recorded

----------------------------------------------------------------------------
(* The steps of the probes.                                                *)

LEMMA ProbeUnseen ==
    ASSUME UNCHANGED callerVars
    PROVE  Visited' = Visited /\ Result' = Result
  BY UnseenStep DEF callerVars

LEMMA CheckBegins ==
    ASSUME RInv, NEW p \in CPU, ProbeCheck(p)
    PROVE  Session!Begin(p)
<1>1. /\ state = "RUNNING" /\ state' = state
      /\ probe[p] = "idle" /\ probe' = [probe EXCEPT ![p] = "checked"]
      /\ UNCHANGED <<num, slots, callerVars>>
  BY DEF ProbeCheck, bufferVars
<1>2. probe \in [CPU -> {"idle", "checked", "locked", "wrote"}]
  BY DEF RInv, IInv, TypeInv, TypeOK
<1>3. p \notin Inflight /\ Inflight' = Inflight \cup {p}
  BY <1>1, <1>2 DEF Inflight
<1>4. Log' = Log
  BY <1>1, LogKept DEF RInv, IInv, TypeInv
<1> QED BY <1>1, <1>3, <1>4, ProbeUnseen DEF Session!Begin

LEMMA WriteUnseen ==
    ASSUME RInv, NEW p \in CPU, ProbeLock(p) \/ ProbeWrite(p)
    PROVE  UNCHANGED Session!sessionVars
<1>1. /\ state' = state /\ UNCHANGED <<num, callerVars>>
      /\ probe[p] # "idle"
      /\ \E at \in {"locked", "wrote"} : probe' = [probe EXCEPT ![p] = at]
  BY DEF ProbeLock, ProbeWrite, bufferVars
<1>2. /\ probe \in [CPU -> {"idle", "checked", "locked", "wrote"}]
      /\ num \in [CPU -> 0 .. MaxPerCPU] /\ slots \in [CPU -> Buffer]
  BY DEF RInv, IInv, TypeInv, TypeOK
<1>3. Inflight' = Inflight
  BY <1>1, <1>2 DEF Inflight
<1>4. ASSUME NEW cpu \in CPU, NEW i \in 0 .. num[cpu] - 1
      PROVE  slots'[cpu][i] = slots[cpu][i]
  <2>1. CASE ProbeLock(p)
    BY <2>1 DEF ProbeLock, bufferVars
  <2>2. CASE ProbeWrite(p)
    <3>1. num[cpu] \in 0 .. MaxPerCPU /\ slots[cpu] \in Buffer
      BY <1>2
    <3>2. i \in Slot /\ i # num[cpu]
      BY <3>1 DEF Slot
    <3> QED BY <1>2, <2>2, <3>1, <3>2 DEF ProbeWrite, Buffer
  <2> QED BY <2>1, <2>2
<1>5. Log' = Log
  BY <1>1, <1>4, LogKept DEF RInv, IInv, TypeInv
<1> QED BY <1>1, <1>3, <1>5, ProbeUnseen DEF Session!sessionVars

LEMMA CountRecords ==
    ASSUME RInv, RInv', NEW p \in CPU, ProbeCount(p)
    PROVE  \E e \in Event : Session!Record(p, e)
<1> DEFINE e == slots[p][num[p]]
<1>1. /\ state' = state /\ UNCHANGED <<slots, callerVars>>
      /\ probe[p] = "wrote" /\ probe' = [probe EXCEPT ![p] = "idle"]
      /\ num' = [num EXCEPT ![p] = @ + 1]
  BY DEF ProbeCount, ProbeLeave
<1>2. /\ probe \in [CPU -> {"idle", "checked", "locked", "wrote"}]
      /\ num \in [CPU -> 0 .. MaxPerCPU] /\ num[p] < MaxPerCPU
      /\ TypeOK /\ TypeOK' /\ BufferInv /\ BufferInv'
  BY <1>1 DEF RInv, IInv, TypeInv, TypeOK, RoomToCount
<1>3. e \in Event /\ e.cpu = p
  BY <1>1 DEF RInv, IInv, BufferInv, MarkInv, HomeInv
<1>4. p \in Inflight /\ Inflight' = Inflight \ {p}
  BY <1>1, <1>2 DEF Inflight
<1>5. /\ Recorded(p) \in Seq(Event) /\ Len(Recorded(p)) = num[p]
      /\ \A i \in 1 .. num[p] : Recorded(p)[i] = slots[p][i - 1]
  BY <1>2, RecordedSeq
<1>6. Recorded(p)' = Append(Recorded(p), e)
  <2>1. num'[p] = num[p] + 1 /\ num[p] \in Nat
    BY <1>1, <1>2
  <2>2. Recorded(p)' = [i \in 1 .. num[p] + 1 |-> slots[p][i - 1]]
    BY <1>1, <2>1 DEF Recorded
  <2> QED BY <1>5, <2>1, <2>2
<1>7. ASSUME NEW cpu \in CPU, cpu # p PROVE Recorded(cpu)' = Recorded(cpu)
  BY <1>1, <1>2, <1>7 DEF Recorded
<1>8. Log' = [Log EXCEPT ![p] = Append(@, e)] /\ Len(Log[p]) < MaxPerCPU
  BY <1>2, <1>5, <1>6, <1>7 DEF Log
<1>9. Session!Record(p, e)
  BY <1>1, <1>3, <1>4, <1>8, ProbeUnseen DEF Session!Record
<1> QED BY <1>3, <1>9

LEMMA FullDiscards ==
    ASSUME RInv, NEW p \in CPU, ProbeFull(p)
    PROVE  Session!Discard(p)
<1>1. /\ state' = state /\ UNCHANGED <<num, slots, callerVars>>
      /\ probe[p] = "locked" /\ probe' = [probe EXCEPT ![p] = "idle"]
      /\ num[p] >= MaxPerCPU
  BY DEF ProbeFull, ProbeLeave, bufferVars
<1>2. /\ probe \in [CPU -> {"idle", "checked", "locked", "wrote"}]
      /\ num[p] \in 0 .. MaxPerCPU /\ TypeOK /\ BufferInv
  BY DEF RInv, IInv, TypeInv, TypeOK
<1>3. p \in Inflight /\ Inflight' = Inflight \ {p}
  BY <1>1, <1>2 DEF Inflight
<1>4. Len(Log[p]) = MaxPerCPU
  BY <1>1, <1>2, RecordedSeq DEF Log
<1>5. Log' = Log
  BY <1>1, <1>2, LogKept
<1> QED BY <1>1, <1>3, <1>4, <1>5, ProbeUnseen DEF Session!Discard

LEMMA ProbeMapped ==
    ASSUME RInv, RInv', NEW p \in CPU, ProbeCheck(p) \/ ProbeStep(p)
    PROVE  [Session!Next]_(Session!sessionVars)
<1>1. CPU = Session!CPU
  BY DEF CPU, Session!CPU
<1> QED
  BY <1>1, CheckBegins, WriteUnseen, CountRecords, FullDiscards DEF ProbeStep, Session!Next

----------------------------------------------------------------------------
(* The steps of cap_start().                                               *)

LEMMA LogUntouched ==
    ASSUME RInv, UNCHANGED <<num, slots, probe>>
    PROVE  Log' = Log /\ Inflight' = Inflight
<1>1. Log' = Log
  BY LogKept DEF RInv, IInv, TypeInv
<1> QED BY <1>1 DEF Inflight

LEMMA StartOpens ==
    ASSUME RInv, RInv', NEW c \in Callers, StartCas(c)
    PROVE  Session!Open
<1>1. /\ state = "WAITING" /\ state' = "PREPARING"
      /\ pc'[c] = "reset_lock" /\ cur'[c] = 0 /\ cap'[c] = cap[c] /\ pc[c] = "idle"
      /\ UNCHANGED <<num, slots, probe>>
  BY DEF StartCas, bufferVars, probeVars, RInv, IInv, TypeInv, TypeOK
<1>2. Visited = 0 /\ Result = <<>>
  BY <1>1, NobodyNow DEF RInv, IInv
<1>3. Visited' = 0 /\ Result' = cap'[c]
  BY <1>1, SeenNext DEF RInv, IInv, Starting, DealtWith, Collected
<1>4. cap[c] = <<>>
  BY <1>1 DEF RInv, IInv, ProgressInv
<1> QED BY <1>1, <1>2, <1>3, <1>4, LogUntouched DEF Session!Open

LEMMA ResetLockUnseen ==
    ASSUME RInv, RInv', NEW c \in Callers, ResetLock(c)
    PROVE  UNCHANGED Session!sessionVars
<1>1. /\ pc[c] = "reset_lock" /\ pc'[c] = "reset_num" /\ state' = state
      /\ UNCHANGED <<cur, cap, num, slots, probe>>
  BY DEF ResetLock, bufferVars, probeVars, RInv, IInv, TypeInv, TypeOK
<1>2. Visited' = Visited /\ Result' = Result
  BY <1>1, SeenNow, SeenNext DEF RInv, IInv, Starting, DealtWith, Collected
<1> QED BY <1>1, <1>2, LogUntouched DEF Session!sessionVars

LEMMA ResetClears ==
    ASSUME RInv, RInv', NEW c \in Callers, ResetNum(c)
    PROVE  Session!Clear
<1>1. /\ pc[c] = "reset_num" /\ pc'[c] = "reset_slots"
      /\ num' = [num EXCEPT ![cur[c]] = 0]
      /\ UNCHANGED <<state, slots, probe, cur, cap>>
  BY DEF ResetNum, probeVars, RInv, IInv, TypeInv, TypeOK
<1>2. /\ cur[c] \in CPU /\ num \in [CPU -> 0 .. MaxPerCPU] /\ state = "PREPARING"
  BY <1>1 DEF RInv, IInv, TypeInv, TypeOK, PhaseInv, ExclusiveCapture, Starting
<1>3. /\ Visited = cur[c] /\ Visited' = cur[c] + 1 /\ Result' = Result
  BY <1>1, SeenNow, SeenNext DEF RInv, IInv, Starting, DealtWith, Collected
<1>4. Recorded(cur[c])' = <<>>
  <2>1. num'[cur[c]] = 0
    BY <1>1, <1>2
  <2> QED BY <1>1, <2>1 DEF Recorded
<1>5. ASSUME NEW cpu \in CPU, cpu # cur[c] PROVE Recorded(cpu)' = Recorded(cpu)
  BY <1>1, <1>2, <1>5 DEF Recorded
<1>6. Log' = [Log EXCEPT ![cur[c]] = <<>>]
  <2>1. cur'[c] = cur[c]
    BY <1>1
  <2> QED BY <1>1, <1>2, <1>4, <1>5, <2>1 DEF Log
<1>7. cur[c] < NumCPUs
  BY <1>2 DEF CPU
<1> QED BY <1>1, <1>2, <1>3, <1>6, <1>7 DEF Session!Clear, Inflight

LEMMA ResetSlotsUnseen ==
    ASSUME RInv, RInv', NEW c \in Callers, ResetSlots(c)
    PROVE  UNCHANGED Session!sessionVars
<1>1. /\ pc[c] = "reset_slots" /\ UNCHANGED <<state, num, probe, cap>>
      /\ slots' = [slots EXCEPT ![cur[c]] = EmptyBuffer]
      /\ \/ cur[c] + 1 < NumCPUs /\ pc'[c] = "reset_lock" /\ cur'[c] = cur[c] + 1
         \/ ~(cur[c] + 1 < NumCPUs) /\ pc'[c] = "run"
  BY DEF ResetSlots, NextCPU, probeVars, RInv, IInv, TypeInv, TypeOK
<1>2. /\ cur[c] \in CPU /\ slots \in [CPU -> Buffer] /\ num[cur[c]] = 0 /\ TypeOK
  BY <1>1 DEF RInv, IInv, TypeInv, TypeOK, BufferInv
<1>3. Visited' = Visited /\ Result' = Result
  <2>1. Visited = cur[c] + 1 /\ Result = cap[c]
    BY <1>1, SeenNow DEF RInv, IInv, Starting, DealtWith, Collected
  <2>2. Visited' = DealtWith(c)' /\ Result' = cap[c]
    BY <1>1, SeenNext DEF RInv, IInv, Starting, Collected
  <2>3. DealtWith(c)' = cur[c] + 1
    BY <1>1, <1>2 DEF DealtWith, CPU
  <2> QED BY <2>1, <2>2, <2>3
<1>4. ASSUME NEW cpu \in CPU, NEW i \in 0 .. num[cpu] - 1
      PROVE  slots'[cpu][i] = slots[cpu][i]
  BY <1>1, <1>2
<1>5. Log' = Log
  BY <1>1, <1>2, <1>4, LogKept
<1> QED BY <1>1, <1>3, <1>5 DEF Session!sessionVars, Inflight

LEMMA StartRuns ==
    ASSUME RInv, RInv', NEW c \in Callers, StartRun(c)
    PROVE  Session!Run
<1>1. pc[c] = "run" /\ UNCHANGED <<num, slots, probe>>
  BY DEF StartRun, bufferVars, probeVars
<1>2. state = "PREPARING" /\ state' = "RUNNING"
  BY <1>1 DEF RInv, IInv, PhaseInv, ExclusiveCapture, Starting, StartRun, CasOrWarn
<1>3. Visited = NumCPUs /\ Result = cap[c]
  BY <1>1, SeenNow DEF RInv, IInv, Starting, DealtWith, Collected
<1>4. Visited' = 0 /\ Result' = <<>>
  BY <1>2, NobodyNext DEF RInv, IInv
<1>5. cap[c] = <<>>
  BY <1>1 DEF RInv, IInv, ProgressInv, Starting
<1> QED BY <1>1, <1>2, <1>3, <1>4, <1>5, LogUntouched DEF Session!Run

LEMMA StartMapped ==
    ASSUME RInv, RInv', NEW c \in Callers, StartCas(c) \/ StartStep(c)
    PROVE  [Session!Next]_(Session!sessionVars)
  BY StartOpens, ResetLockUnseen, ResetClears, ResetSlotsUnseen, StartRuns
     DEF StartStep, Session!Next

----------------------------------------------------------------------------
(* The steps of cap_end().                                                 *)

LEMMA EndCloses ==
    ASSUME RInv, RInv', NEW c \in Callers, EndCas(c)
    PROVE  Session!Close
<1>1. /\ state = "RUNNING" /\ state' = "DONE"
      /\ pc'[c] = "alloc_cap" /\ pc[c] = "idle"
      /\ UNCHANGED <<num, slots, probe, cur, cap>>
  BY DEF EndCas, bufferVars, probeVars, RInv, IInv, TypeInv, TypeOK
<1>2. Visited = 0 /\ Result = <<>>
  BY <1>1, NobodyNow DEF RInv, IInv
<1>3. Visited' = cur[c] /\ Result' = cap[c]
  BY <1>1, SeenNext DEF RInv, IInv, Ending, DealtWith, Collected
<1>4. cap[c] = <<>> /\ cur[c] = 0
  BY <1>1 DEF RInv, IInv, ProgressInv, CursorInv, Looping
<1> QED BY <1>1, <1>2, <1>3, <1>4, LogUntouched DEF Session!Close

LEMMA AllocMapped ==
    ASSUME RInv, RInv', NEW c \in Callers, AllocCap(c) \/ AllocEvents(c)
    PROVE  Session!Abandon \/ UNCHANGED Session!sessionVars
<1>1. /\ pc[c] \in {"alloc_cap", "alloc_events"}
      /\ pc'[c] \in {"alloc_events", "fill_lock", "finish"}
      /\ UNCHANGED <<state, num, slots, probe, cur, cap>>
  BY DEF AllocCap, AllocEvents, bufferVars, probeVars, RInv, IInv, TypeInv, TypeOK
<1>2. state = "DONE" /\ cur[c] = 0
  BY <1>1 DEF RInv, IInv, PhaseInv, ExclusiveCapture, Ending, CursorInv, Looping
<1>3. Visited = 0 /\ Result = cap[c]
  BY <1>1, <1>2, SeenNow DEF RInv, IInv, Ending, DealtWith, Collected
<1>4. Visited' = (IF pc'[c] = "finish" THEN NumCPUs ELSE 0) /\ Result' = cap[c]
  BY <1>1, <1>2, SeenNext DEF RInv, IInv, Ending, DealtWith, Collected
<1> QED
  BY <1>1, <1>2, <1>3, <1>4, LogUntouched DEF Session!Abandon, Session!sessionVars

\* What a caller in the copy loop has copied, by the CPUs it is from.
LEMMA Copied ==
    ASSUME RInv, NEW c \in Callers, pc[c] = "fill"
    PROVE  /\ cur[c] \in CPU /\ state = "DONE" /\ num[cur[c]] \in Nat
           /\ cap[c] \in Seq(Event \cup {Blank}) /\ Len(cap[c]) <= MaxEvents
           /\ idx[c] \in Nat /\ idx[c] <= Len(cap[c]) /\ idx[c] <= num[cur[c]]
           /\ Collected(c) \in Seq(Event \cup {Blank})
           /\ Len(Collected(c)) = Len(cap[c]) - idx[c]
           /\ \A k \in 1 .. Len(cap[c]) - idx[c] : Collected(c)[k] = cap[c][k]
           /\ \A k \in 1 .. idx[c] :
                 cap[c][Len(cap[c]) - idx[c] + k] = Log[cur[c]][k]
           /\ Log[cur[c]] \in Seq(Event \cup {Blank})
           /\ Len(Log[cur[c]]) = num[cur[c]]
<1>1. /\ cur[c] \in CPU /\ state = "DONE" /\ num[cur[c]] \in Nat
      /\ cap[c] \in Seq(Event \cup {Blank}) /\ idx[c] \in Nat
      /\ TypeOK /\ BufferInv /\ Len(cap[c]) <= MaxEvents
  BY DEF RInv, IInv, TypeInv, TypeOK, PhaseInv, ExclusiveCapture, Ending, SnapshotIntact
<1>2. /\ idx[c] <= Len(cap[c]) /\ idx[c] <= num[cur[c]]
      /\ \A k \in 1 .. idx[c] :
            cap[c][Len(cap[c]) - idx[c] + k] = slots[cur[c]][k - 1]
  BY DEF RInv, IInv, ProgressInv
<1> DEFINE n == Len(cap[c]) - idx[c]
<1>3. n \in Nat /\ n <= Len(cap[c]) /\ Len(cap[c]) \in Nat
  BY <1>1, <1>2
<1>4. \A k \in 1 .. n : cap[c][k] \in Event \cup {Blank}
  BY <1>1, <1>3, ElementOfSeq
<1>5. /\ SubSeq(cap[c], 1, n) \in Seq(Event \cup {Blank})
      /\ Len(SubSeq(cap[c], 1, n)) = n
      /\ \A k \in 1 .. n : SubSeq(cap[c], 1, n)[k] = cap[c][k]
  BY <1>1, <1>3, <1>4
<1>6. Log[cur[c]] = Recorded(cur[c])
  BY <1>1 DEF Log
<1>7. /\ Recorded(cur[c]) \in Seq(Event \cup {Blank})
      /\ Len(Recorded(cur[c])) = num[cur[c]]
      /\ \A k \in 1 .. num[cur[c]] : Recorded(cur[c])[k] = slots[cur[c]][k - 1]
  BY <1>1, RecordedSeq
<1>8. \A k \in 1 .. idx[c] : k \in 1 .. num[cur[c]]
  BY <1>1, <1>2
<1> QED BY <1>1, <1>2, <1>5, <1>6, <1>7, <1>8 DEF Collected

\* The events copied from the CPU the caller is at are the first of that CPU's log.
LEMMA CollectedThenLog ==
    ASSUME RInv, NEW c \in Callers, pc[c] = "fill", NEW k \in 1 .. Len(cap[c])
    PROVE  (Collected(c) \o Log[cur[c]])[k] = cap[c][k]
<1> DEFINE n == Len(cap[c]) - idx[c]
<1>1. /\ Len(cap[c]) \in Nat /\ idx[c] \in Nat /\ num[cur[c]] \in Nat /\ k \in Nat /\ k >= 1
      /\ n \in Nat /\ k <= n + idx[c] /\ idx[c] <= num[cur[c]]
  BY Copied
<1>2. (Collected(c) \o Log[cur[c]])[k]
        = IF k <= n THEN Collected(c)[k] ELSE Log[cur[c]][k - n]
  <2>1. k \in 1 .. n + num[cur[c]]
    BY <1>1
  <2>2. /\ Collected(c) \in Seq(Event \cup {Blank}) /\ Len(Collected(c)) = n
        /\ Log[cur[c]] \in Seq(Event \cup {Blank}) /\ Len(Log[cur[c]]) = num[cur[c]]
    BY Copied
  <2> HIDE DEF n
  <2> QED BY <2>1, <2>2, ConcatProperties
<1>3. CASE k <= n
  BY <1>1, <1>2, <1>3, Copied
<1>4. CASE ~(k <= n)
  <2>1. k - n \in 1 .. idx[c] /\ n + (k - n) = k
    <3> HIDE DEF n
    <3>1. k <= n + idx[c] /\ ~(k <= n) /\ n \in Nat /\ idx[c] \in Nat /\ k \in Nat
      BY <1>1, <1>4
    <3> QED BY ONLY <3>1
  <2>2. cap[c][n + (k - n)] = Log[cur[c]][k - n]
    BY <2>1, Copied
  <2> QED BY <1>2, <1>4, <2>1, <2>2
<1> QED BY <1>3, <1>4

LEMMA FillLockUnseen ==
    ASSUME RInv, RInv', NEW c \in Callers, FillLock(c)
    PROVE  UNCHANGED Session!sessionVars
<1>1. /\ pc[c] = "fill_lock" /\ pc'[c] = "fill" /\ idx'[c] = 0
      /\ UNCHANGED <<state, num, slots, probe, cur, cap>>
      /\ cap[c] \in Seq(Event \cup {Blank})
  BY DEF FillLock, bufferVars, probeVars, RInv, IInv, TypeInv, TypeOK
<1>2. /\ Visited = cur[c] /\ Visited' = cur[c]
      /\ Result = cap[c] /\ Result' = SubSeq(cap[c], 1, Len(cap[c]) - 0)
  BY <1>1, SeenNow, SeenNext DEF RInv, IInv, Ending, DealtWith, Collected
<1>3. SubSeq(cap[c], 1, Len(cap[c]) - 0) = cap[c]
  BY <1>1
<1> QED BY <1>1, <1>2, <1>3, LogUntouched DEF Session!sessionVars

LEMMA CopyUnseen ==
    ASSUME RInv, RInv', NEW c \in Callers, FillCopy(c)
    PROVE  UNCHANGED Session!sessionVars
<1>1. /\ pc[c] = "fill" /\ pc'[c] = "fill" /\ idx'[c] = idx[c] + 1
      /\ UNCHANGED <<state, num, slots, probe, cur>>
      /\ \E e : cap' = [cap EXCEPT ![c] = Append(@, e)]
      /\ cap \in [Callers -> Seq(Event \cup {Blank})]
  BY DEF FillCopy, bufferVars, probeVars, RInv, IInv, TypeInv, TypeOK
<1>2. /\ Visited = cur[c] /\ Visited' = cur[c]
      /\ Result = Collected(c) /\ Result' = Collected(c)'
  BY <1>1, SeenNow, SeenNext DEF RInv, IInv, Ending, DealtWith
<1>3. Collected(c)' = Collected(c)
  <2>1. /\ cap[c] \in Seq(Event \cup {Blank}) /\ idx[c] \in Nat /\ idx[c] <= Len(cap[c])
    BY <1>1, Copied
  <2>2. PICK e : cap'[c] = Append(cap[c], e)
    BY <1>1
  <2>3. Len(cap'[c]) = Len(cap[c]) + 1 /\ \A k \in 1 .. Len(cap[c]) : cap'[c][k] = cap[c][k]
    BY <2>1, <2>2
  <2>4. SubSeq(cap'[c], 1, Len(cap[c]) - idx[c]) = SubSeq(cap[c], 1, Len(cap[c]) - idx[c])
    BY <2>1, <2>3
  <2>5. Len(cap'[c]) - idx'[c] = Len(cap[c]) - idx[c]
    BY <1>1, <2>1, <2>3
  <2> QED BY <1>1, <2>4, <2>5 DEF Collected
<1> QED BY <1>1, <1>2, <1>3, LogUntouched DEF Session!sessionVars

LEMMA DoneCollects ==
    ASSUME RInv, RInv', NEW c \in Callers, FillDone(c)
    PROVE  Session!Collect
<1>1. /\ pc[c] = "fill" /\ idx[c] >= num[cur[c]]
      /\ UNCHANGED <<state, num, slots, probe, cap>>
      /\ \/ cur[c] + 1 < NumCPUs /\ pc'[c] = "fill_lock" /\ cur'[c] = cur[c] + 1
         \/ ~(cur[c] + 1 < NumCPUs) /\ pc'[c] = "finish"
  BY DEF FillDone, NextCPU, bufferVars, probeVars, RInv, IInv, TypeInv, TypeOK
<1>2. /\ Visited = cur[c] /\ Result = Collected(c)
  BY <1>1, SeenNow DEF RInv, IInv, Ending, DealtWith
<1>3. /\ Visited' = DealtWith(c)' /\ Result' = cap[c]
  BY <1>1, SeenNext DEF RInv, IInv, Ending, Collected
<1>4. cur[c] \in CPU /\ state = "DONE" /\ Len(cap[c]) <= MaxEvents
  BY <1>1, Copied
<1>5. DealtWith(c)' = cur[c] + 1 /\ cur[c] < NumCPUs
  BY <1>1, <1>4 DEF DealtWith, CPU
<1> DEFINE all == Collected(c) \o Log[cur[c]]
<1>6. all = cap[c]
  <2>1. /\ all \in Seq(Event \cup {Blank}) /\ Len(all) = Len(cap[c])
        /\ cap[c] \in Seq(Event \cup {Blank})
    <3>1. /\ Collected(c) \in Seq(Event \cup {Blank}) /\ Log[cur[c]] \in Seq(Event \cup {Blank})
          /\ cap[c] \in Seq(Event \cup {Blank})
      BY <1>1, Copied
    <3>2. /\ idx[c] \in Nat /\ idx[c] = num[cur[c]] /\ Len(cap[c]) \in Nat
          /\ Len(Collected(c)) = Len(cap[c]) - idx[c] /\ Len(Log[cur[c]]) = num[cur[c]]
      BY <1>1, Copied
    <3>3. Len(Collected(c)) + Len(Log[cur[c]]) = Len(cap[c])
      BY ONLY <3>2
    <3> QED BY <3>1, <3>3, ConcatProperties
  <2>2. ASSUME NEW k \in 1 .. Len(all) PROVE all[k] = cap[c][k]
    BY <1>1, <2>1, CollectedThenLog
  <2> QED BY <2>1, <2>2, SeqEqual
<1> QED
  BY <1>1, <1>2, <1>3, <1>4, <1>5, <1>6, LogUntouched DEF Session!Collect

LEMMA FullCollects ==
    ASSUME RInv, RInv', NEW c \in Callers, FillFull(c)
    PROVE  Session!Collect
<1>1. /\ pc[c] = "fill" /\ idx[c] < num[cur[c]] /\ Len(cap[c]) >= MaxEvents
      /\ UNCHANGED <<state, num, slots, probe, cap>> /\ pc'[c] = "finish"
  BY DEF FillFull, bufferVars, probeVars, RInv, IInv, TypeInv, TypeOK
<1>2. /\ Visited = cur[c] /\ Result = Collected(c)
  BY <1>1, SeenNow DEF RInv, IInv, Ending, DealtWith
<1>3. /\ Visited' = NumCPUs /\ Result' = cap[c]
  BY <1>1, SeenNext DEF RInv, IInv, Ending, Collected, DealtWith
<1>4. cur[c] \in CPU /\ cur[c] < NumCPUs /\ state = "DONE"
  BY <1>1, Copied DEF CPU
<1> DEFINE all == Collected(c) \o Log[cur[c]]
<1>5. Len(all) > MaxEvents
  BY <1>1, Copied
<1>6. SubSeq(all, 1, MaxEvents) = cap[c]
  <2>1. /\ all \in Seq(Event \cup {Blank}) /\ cap[c] \in Seq(Event \cup {Blank})
        /\ Len(cap[c]) = MaxEvents
    BY <1>1, Copied
  <2>2. /\ SubSeq(all, 1, MaxEvents) \in Seq(Event \cup {Blank})
        /\ Len(SubSeq(all, 1, MaxEvents)) = MaxEvents
        /\ \A k \in 1 .. MaxEvents : SubSeq(all, 1, MaxEvents)[k] = all[k]
    BY <1>5, <2>1
  <2>3. \A k \in 1 .. MaxEvents : all[k] = cap[c][k]
    BY <1>1, <2>1, CollectedThenLog
  <2> QED BY <2>1, <2>2, <2>3, SeqEqual
<1> QED
  BY <1>1, <1>2, <1>3, <1>4, <1>5, <1>6, LogUntouched DEF Session!Collect

LEMMA EndFinishes ==
    ASSUME RInv, RInv', NEW c \in Callers, EndFinish(c)
    PROVE  Session!Finish
<1>1. pc[c] = "finish" /\ UNCHANGED <<num, slots, probe>>
  BY DEF EndFinish, bufferVars, probeVars
<1>2. state = "DONE" /\ state' = "WAITING"
  BY <1>1 DEF RInv, IInv, PhaseInv, ExclusiveCapture, Ending, EndFinish, CasOrWarn
<1>3. Visited = NumCPUs
  BY <1>1, SeenNow DEF RInv, IInv, Ending, DealtWith
<1>4. Visited' = 0 /\ Result' = <<>>
  BY <1>2, NobodyNext DEF RInv, IInv
<1> QED BY <1>1, <1>2, <1>3, <1>4, LogUntouched DEF Session!Finish

LEMMA FreeUnseen ==
    ASSUME RInv, NEW c \in Callers, CapFree(c)
    PROVE  UNCHANGED Session!sessionVars
<1>1. /\ pc[c] = "holding" /\ pc' = [pc EXCEPT ![c] = "idle"]
      /\ cap' = [cap EXCEPT ![c] = <<>>]
      /\ UNCHANGED <<state, num, slots, probe, cur, idx>>
  BY DEF CapFree, bufferVars, probeVars
<1>2. pc \in [Callers -> PC] /\ cap \in [Callers -> Seq(Event \cup {Blank})]
  BY DEF RInv, IInv, TypeInv, TypeOK
<1>3. Visited' = Visited /\ Result' = Result
  BY <1>1, <1>2, UnseenStep DEF Starting, Ending
<1> QED BY <1>1, <1>3, LogUntouched DEF Session!sessionVars

LEMMA EndMapped ==
    ASSUME RInv, RInv', NEW c \in Callers, EndCas(c) \/ EndStep(c)
    PROVE  [Session!Next]_(Session!sessionVars)
  BY EndCloses, AllocMapped, FillLockUnseen, CopyUnseen, DoneCollects, FullCollects,
     EndFinishes, FreeUnseen DEF EndStep, Session!Next

----------------------------------------------------------------------------
(* The module around them.                                                 *)

LEMMA LoadReloads ==
    ASSUME RInv, Load
    PROVE  Session!Reload
<1>1. /\ module = "unloaded" /\ state' = "WAITING"
      /\ num' = [cpu \in CPU |-> 0] /\ UNCHANGED <<probe, callerVars>>
  BY DEF Load, probeVars
<1>2. AllIdle /\ \A cpu \in CPU : probe[cpu] = "idle"
  BY <1>1 DEF RInv, IInv, PhaseInv, ModuleInv
<1>3. Inflight = {} /\ Inflight' = {}
  BY <1>1, <1>2 DEF Inflight
<1>4. Log' = [cpu \in Session!CPU |-> <<>>]
  <2>1. \A cpu \in CPU : Recorded(cpu)' = <<>>
    BY <1>1 DEF Recorded
  <2> QED BY <2>1 DEF Log, CPU, Session!CPU
<1>5. state \in {"WAITING", "RUNNING"}
  BY <1>2 DEF RInv, IInv, TypeInv, TypeOK, State, BusyInv, AllIdle, Starting, Ending
<1> QED BY <1>1, <1>3, <1>4, <1>5, ProbeUnseen DEF Session!Reload

LEMMA ModuleMapped ==
    ASSUME RInv, ModuleStep \/ UNCHANGED vars
    PROVE  [Session!Next]_(Session!sessionVars)
<1>1. CASE Load
  BY <1>1, LoadReloads DEF Session!Next
<1>2. CASE ~Load
  <2>1. UNCHANGED <<state, num, slots, probe, callerVars>>
    BY <1>2 DEF ModuleStep, NetlinkInit, NetlinkExit, UnregisterProbe, SynchronizeProbe,
                bufferVars, probeVars, callerVars, vars
  <2> QED BY <2>1, LogUntouched, ProbeUnseen DEF Session!sessionVars
<1> QED BY <1>1, <1>2

----------------------------------------------------------------------------
(* Every behaviour of the capture is one of the session.                   *)

LEMMA InitMapped == Init => Session!Init
<1> SUFFICES ASSUME Init PROVE Session!Init
  OBVIOUS
<1>1. Visited = 0 /\ Result = <<>> /\ Inflight = {} /\ state = "WAITING"
  BY DEF Init, Visited, Result, Inflight, Busy, Starting, Ending
<1>2. \A cpu \in CPU : Recorded(cpu) = <<>>
  BY DEF Init, Recorded
<1> QED BY <1>1, <1>2 DEF Session!Init, Session!CPU, Log, CPU

LEMMA StepMapped ==
    RInv /\ RInv' /\ [Next]_vars => [Session!Next]_(Session!sessionVars)
<1> SUFFICES ASSUME RInv, RInv', [Next]_vars PROVE [Session!Next]_(Session!sessionVars)
  OBVIOUS
<1> QED BY ProbeMapped, StartMapped, EndMapped, ModuleMapped DEF Next

\* Whatever the interleaving of the probes, cap_start(), cap_end() and rmmod, and for any
\* number of CPUs, a snapshot is what each CPU's buffer held at one moment, CPU by CPU,
\* cut at GB_SCHEDHOOK_MAX_EVENTS.
THEOREM Implements == Spec => ImplementsSession
<1> QED
  BY InitMapped, StepMapped, RefinementInvariant, PTL
     DEF Spec, ImplementsSession, Session!Spec
=============================================================================
