----------------------------- MODULE Schedhook -----------------------------
(***************************************************************************)
(* The sched_switch capture of the kernel module (kernel/src/schedhook.c): *)
(* one buffer of events per CPU, each under a spinlock of its own; a probe *)
(* that runs on every context switch; cap_start() and cap_end(), which     *)
(* drive the state WAITING -> PREPARING -> RUNNING -> DONE -> WAITING with *)
(* cmpxchg; and the loading and unloading of the module around them.       *)
(*                                                                         *)
(* An event is abstracted to what the properties tell apart: its CPU, the  *)
(* capture in which its probe passed the unlocked state check, and the     *)
(* capture and the state in which it was written.                          *)
(***************************************************************************)
EXTENDS Integers, Sequences

CONSTANTS
    NumCPUs,      \* possible CPUs; for_each_possible_cpu walks them in order
    Callers,      \* contexts that call cap_start() and cap_end()
    MaxPerCPU,    \* GB_SCHEDHOOK_MAX_EVENTS_PER_CPU
    MaxEvents,    \* GB_SCHEDHOOK_MAX_EVENTS
    MaxCaptures   \* bound of the model: captures ever started

ASSUME NumCPUsAssumption == NumCPUs \in Nat \ {0}
ASSUME MaxPerCPUAssumption == MaxPerCPU \in Nat \ {0}
ASSUME MaxEventsAssumption == MaxEvents \in Nat
ASSUME MaxCapturesAssumption == MaxCaptures \in Nat
ASSUME CallersAssumption == "probe" \notin Callers /\ "free" \notin Callers

VARIABLES
    state,     \* _gb_schedhook_state
    num,       \* num[cpu]: num_events
    slots,     \* slots[cpu][i]: events[i]
    lock,      \* lock[cpu]: "free", "probe" or the caller that holds it
    probe,     \* probe[cpu]: where the probe running on that CPU stands
    saw,       \* saw[cpu]: capture in which that probe passed the state check
    pc,        \* pc[c]: where caller c stands
    cur,       \* cur[c]: the cpu of c's for_each_possible_cpu
    idx,       \* idx[c]: the i of c's copy loop
    cap,       \* cap[c]: events copied to c's gb_schedhook_cap
    heap,      \* heap[c]: allocations c must still free
    module,    \* how far the module is loaded or unloaded
    capture,   \* history: captures started so far
    warned     \* history: a WARN_ON has fired

vars == <<state, num, slots, lock, probe, saw, pc, cur, idx, cap, heap,
          module, capture, warned>>
probeVars == <<probe, saw>>
callerVars == <<pc, cur, idx, cap, heap>>
bufferVars == <<num, slots>>
ambient == <<module, capture, warned>>

CPU == 0 .. NumCPUs - 1
Slot == 0 .. MaxPerCPU - 1
State == {"WAITING", "PREPARING", "RUNNING", "DONE"}
Capture == 0 .. MaxCaptures

\* What _gb_schedhook_data_reset() leaves in a slot.
Blank == [cpu |-> -1, saw |-> 0, at |-> 0, st |-> "WAITING"]
Event == [cpu : CPU, saw : Capture, at : Capture, st : State]
Buffer == [Slot -> Event \cup {Blank}]
EmptyBuffer == [i \in Slot |-> Blank]

Starting == {"reset_lock", "reset_num", "reset_slots", "run"}
Ending == {"alloc_cap", "alloc_events", "fill_lock", "fill", "finish"}
PC == {"idle", "holding"} \cup Starting \cup Ending
Registered == {"loading", "loaded", "netlink_gone"}
Module == Registered \cup {"probe_gone", "unloaded"}

\* gb_schedhook_init() has run: fresh locks, blank buffers, probe registered.
Init ==
    /\ state = "WAITING"
    /\ num = [cpu \in CPU |-> 0]
    /\ slots = [cpu \in CPU |-> EmptyBuffer]
    /\ lock = [cpu \in CPU |-> "free"]
    /\ probe = [cpu \in CPU |-> "idle"]
    /\ saw = [cpu \in CPU |-> 0]
    /\ pc = [c \in Callers |-> "idle"]
    /\ cur = [c \in Callers |-> 0]
    /\ idx = [c \in Callers |-> 0]
    /\ cap = [c \in Callers |-> <<>>]
    /\ heap = [c \in Callers |-> {}]
    /\ module = "loading"
    /\ capture = 0
    /\ warned = FALSE

----------------------------------------------------------------------------
(* The probe. It runs with preemption off, so a CPU runs one at a time. A  *)
(* probe that does not read RUNNING returns and changes nothing.           *)

ProbeCheck(cpu) ==
    /\ module \in Registered
    /\ probe[cpu] = "idle"
    /\ state = "RUNNING"
    /\ probe' = [probe EXCEPT ![cpu] = "checked"]
    /\ saw' = [saw EXCEPT ![cpu] = capture]
    /\ UNCHANGED <<state, bufferVars, lock, callerVars, ambient>>

ProbeLock(cpu) ==
    /\ probe[cpu] = "checked"
    /\ lock[cpu] = "free"
    /\ lock' = [lock EXCEPT ![cpu] = "probe"]
    /\ probe' = [probe EXCEPT ![cpu] = "locked"]
    /\ UNCHANGED <<state, bufferVars, saw, callerVars, ambient>>

\* Mutant of ProbeWrite: the full check is off by one.
ProbeWriteOffByOne(cpu) ==
    /\ probe[cpu] = "locked"
    /\ num[cpu] <= MaxPerCPU
    /\ slots' = [slots EXCEPT ![cpu][num[cpu]] =
                   [cpu |-> cpu, saw |-> saw[cpu], at |-> capture, st |-> state]]
    /\ probe' = [probe EXCEPT ![cpu] = "wrote"]
    /\ UNCHANGED <<state, num, lock, saw, callerVars, ambient>>

ProbeWrite(cpu) ==
    /\ probe[cpu] = "locked"
    /\ num[cpu] < MaxPerCPU
    /\ slots' = [slots EXCEPT ![cpu][num[cpu]] =
                   [cpu |-> cpu, saw |-> saw[cpu], at |-> capture, st |-> state]]
    /\ probe' = [probe EXCEPT ![cpu] = "wrote"]
    /\ UNCHANGED <<state, num, lock, saw, callerVars, ambient>>

\* spin_unlock_irqrestore() and return.
ProbeLeave(cpu) ==
    /\ lock' = [lock EXCEPT ![cpu] = "free"]
    /\ probe' = [probe EXCEPT ![cpu] = "idle"]
    /\ saw' = [saw EXCEPT ![cpu] = 0]

ProbeCount(cpu) ==
    /\ probe[cpu] = "wrote"
    /\ num' = [num EXCEPT ![cpu] = @ + 1]
    /\ ProbeLeave(cpu)
    /\ UNCHANGED <<state, slots, callerVars, ambient>>

ProbeFull(cpu) ==
    /\ probe[cpu] = "locked"
    /\ num[cpu] >= MaxPerCPU
    /\ ProbeLeave(cpu)
    /\ UNCHANGED <<state, bufferVars, callerVars, ambient>>

----------------------------------------------------------------------------
(* gb_schedhook_cap_start(). The -EBUSY return changes nothing.            *)

\* Mutant of StartCas: the old state is not compared.
StartWithoutCompare(c) ==
    /\ module = "loaded"
    /\ pc[c] = "idle"
    /\ capture < MaxCaptures
    /\ state' = "PREPARING"
    /\ capture' = capture + 1
    /\ pc' = [pc EXCEPT ![c] = "reset_lock"]
    /\ cur' = [cur EXCEPT ![c] = 0]
    /\ UNCHANGED <<bufferVars, lock, probeVars, idx, cap, heap, module, warned>>

StartCas(c) ==
    /\ module = "loaded"
    /\ pc[c] = "idle"
    /\ state = "WAITING"
    /\ capture < MaxCaptures
    /\ state' = "PREPARING"
    /\ capture' = capture + 1
    /\ pc' = [pc EXCEPT ![c] = "reset_lock"]
    /\ cur' = [cur EXCEPT ![c] = 0]
    /\ UNCHANGED <<bufferVars, lock, probeVars, idx, cap, heap, module, warned>>

\* Mutant of ResetLock: the buffer is reset without its lock.
ResetWithoutLock(c) ==
    /\ pc[c] = "reset_lock"
    /\ pc' = [pc EXCEPT ![c] = "reset_num"]
    /\ UNCHANGED <<state, bufferVars, lock, probeVars, cur, idx, cap, heap, ambient>>

ResetLock(c) ==
    /\ pc[c] = "reset_lock"
    /\ lock[cur[c]] = "free"
    /\ lock' = [lock EXCEPT ![cur[c]] = c]
    /\ pc' = [pc EXCEPT ![c] = "reset_num"]
    /\ UNCHANGED <<state, bufferVars, probeVars, cur, idx, cap, heap, ambient>>

\* Mutant of ResetNum: num_events keeps its value.
ResetKeepsNum(c) ==
    /\ pc[c] = "reset_num"
    /\ pc' = [pc EXCEPT ![c] = "reset_slots"]
    /\ UNCHANGED <<state, num, slots, lock, probeVars, cur, idx, cap, heap, ambient>>

ResetNum(c) ==
    /\ pc[c] = "reset_num"
    /\ num' = [num EXCEPT ![cur[c]] = 0]
    /\ pc' = [pc EXCEPT ![c] = "reset_slots"]
    /\ UNCHANGED <<state, slots, lock, probeVars, cur, idx, cap, heap, ambient>>

\* The next turn of for_each_possible_cpu, or what follows the loop.
NextCPU(c, again, after) ==
    IF cur[c] + 1 < NumCPUs
    THEN /\ cur' = [cur EXCEPT ![c] = @ + 1]
         /\ pc' = [pc EXCEPT ![c] = again]
    ELSE /\ cur' = [cur EXCEPT ![c] = 0]
         /\ pc' = [pc EXCEPT ![c] = after]

\* Mutant of ResetSlots: only the first CPU is reset.
ResetFirstCPUOnly(c) ==
    /\ pc[c] = "reset_slots"
    /\ slots' = [slots EXCEPT ![cur[c]] = EmptyBuffer]
    /\ lock' = [lock EXCEPT ![cur[c]] = "free"]
    /\ pc' = [pc EXCEPT ![c] = "run"]
    /\ UNCHANGED <<state, num, probeVars, cur, idx, cap, heap, ambient>>

ResetSlots(c) ==
    /\ pc[c] = "reset_slots"
    /\ slots' = [slots EXCEPT ![cur[c]] = EmptyBuffer]
    /\ lock' = [lock EXCEPT ![cur[c]] = "free"]
    /\ NextCPU(c, "reset_lock", "run")
    /\ UNCHANGED <<state, num, probeVars, idx, cap, heap, ambient>>

\* cmpxchg(from, to) under a WARN_ON: a mismatch leaves the state alone.
CasOrWarn(from, to) ==
    /\ state' = IF state = from THEN to ELSE state
    /\ warned' = (warned \/ state # from)

StartRun(c) ==
    /\ pc[c] = "run"
    /\ CasOrWarn("PREPARING", "RUNNING")
    /\ pc' = [pc EXCEPT ![c] = "idle"]
    /\ UNCHANGED <<bufferVars, lock, probeVars, cur, idx, cap, heap, module, capture>>

----------------------------------------------------------------------------
(* gb_schedhook_cap_end(). The -EPERM return changes nothing.              *)

EndCas(c) ==
    /\ module = "loaded"
    /\ pc[c] = "idle"
    /\ state = "RUNNING"
    /\ state' = "DONE"
    /\ pc' = [pc EXCEPT ![c] = "alloc_cap"]
    /\ UNCHANGED <<bufferVars, lock, probeVars, cur, idx, cap, heap, ambient>>

\* Mutant of AllocCap: the failure returns without leaving DONE.
AllocCapReturns(c) ==
    /\ pc[c] = "alloc_cap"
    /\ \/ /\ heap' = [heap EXCEPT ![c] = {"cap"}]
          /\ pc' = [pc EXCEPT ![c] = "alloc_events"]
       \/ /\ heap' = heap
          /\ pc' = [pc EXCEPT ![c] = "idle"]
    /\ UNCHANGED <<state, bufferVars, lock, probeVars, cur, idx, cap, ambient>>

AllocCap(c) ==
    /\ pc[c] = "alloc_cap"
    /\ \/ /\ heap' = [heap EXCEPT ![c] = {"cap"}]
          /\ pc' = [pc EXCEPT ![c] = "alloc_events"]
       \/ /\ heap' = heap
          /\ pc' = [pc EXCEPT ![c] = "finish"]
    /\ UNCHANGED <<state, bufferVars, lock, probeVars, cur, idx, cap, ambient>>

\* Mutant of AllocEvents: the failure forgets kfree(result).
AllocEventsLeaks(c) ==
    /\ pc[c] = "alloc_events"
    /\ \/ /\ heap' = [heap EXCEPT ![c] = {"cap", "events"}]
          /\ pc' = [pc EXCEPT ![c] = "fill_lock"]
       \/ /\ heap' = heap
          /\ pc' = [pc EXCEPT ![c] = "finish"]
    /\ UNCHANGED <<state, bufferVars, lock, probeVars, cur, idx, cap, ambient>>

AllocEvents(c) ==
    /\ pc[c] = "alloc_events"
    /\ \/ /\ heap' = [heap EXCEPT ![c] = {"cap", "events"}]
          /\ pc' = [pc EXCEPT ![c] = "fill_lock"]
       \/ /\ heap' = [heap EXCEPT ![c] = {}]
          /\ pc' = [pc EXCEPT ![c] = "finish"]
    /\ UNCHANGED <<state, bufferVars, lock, probeVars, cur, idx, cap, ambient>>

\* Mutant of FillLock: the buffer is copied without its lock.
FillWithoutLock(c) ==
    /\ pc[c] = "fill_lock"
    /\ idx' = [idx EXCEPT ![c] = 0]
    /\ pc' = [pc EXCEPT ![c] = "fill"]
    /\ UNCHANGED <<state, bufferVars, lock, probeVars, cur, cap, heap, ambient>>

FillLock(c) ==
    /\ pc[c] = "fill_lock"
    /\ lock[cur[c]] = "free"
    /\ lock' = [lock EXCEPT ![cur[c]] = c]
    /\ idx' = [idx EXCEPT ![c] = 0]
    /\ pc' = [pc EXCEPT ![c] = "fill"]
    /\ UNCHANGED <<state, bufferVars, probeVars, cur, cap, heap, ambient>>

FillCopy(c) ==
    /\ pc[c] = "fill"
    /\ idx[c] < num[cur[c]]
    /\ Len(cap[c]) < MaxEvents
    /\ cap' = [cap EXCEPT ![c] = Append(@, slots[cur[c]][idx[c]])]
    /\ idx' = [idx EXCEPT ![c] = @ + 1]
    /\ UNCHANGED <<state, bufferVars, lock, probeVars, pc, cur, heap, ambient>>

\* The loop over this CPU's events is over: unlock, on to the next CPU.
FillDone(c) ==
    /\ pc[c] = "fill"
    /\ idx[c] >= num[cur[c]]
    /\ lock' = [lock EXCEPT ![cur[c]] = "free"]
    /\ NextCPU(c, "fill_lock", "finish")
    /\ UNCHANGED <<state, bufferVars, probeVars, idx, cap, heap, ambient>>

\* The snapshot is full: unlock and leave both loops.
FillFull(c) ==
    /\ pc[c] = "fill"
    /\ idx[c] < num[cur[c]]
    /\ Len(cap[c]) >= MaxEvents
    /\ lock' = [lock EXCEPT ![cur[c]] = "free"]
    /\ cur' = [cur EXCEPT ![c] = 0]
    /\ pc' = [pc EXCEPT ![c] = "finish"]
    /\ UNCHANGED <<state, bufferVars, probeVars, idx, cap, heap, ambient>>

\* With a snapshot the caller gets the pointer, without one ERR_PTR(-ENOMEM).
EndFinish(c) ==
    /\ pc[c] = "finish"
    /\ CasOrWarn("DONE", "WAITING")
    /\ pc' = [pc EXCEPT ![c] = IF "events" \in heap[c] THEN "holding" ELSE "idle"]
    /\ UNCHANGED <<bufferVars, lock, probeVars, cur, idx, cap, heap, module, capture>>

\* gb_schedhook_cap_free()
CapFree(c) ==
    /\ pc[c] = "holding"
    /\ heap' = [heap EXCEPT ![c] = {}]
    /\ cap' = [cap EXCEPT ![c] = <<>>]
    /\ pc' = [pc EXCEPT ![c] = "idle"]
    /\ UNCHANGED <<state, bufferVars, lock, probeVars, cur, idx, ambient>>

----------------------------------------------------------------------------
(* The module around them: gb_init(), gb_exit(), gb_schedhook_exit().      *)

AllIdle == \A c \in Callers : pc[c] = "idle"

NetlinkInit ==
    /\ module = "loading"
    /\ module' = "loaded"
    /\ UNCHANGED <<state, bufferVars, lock, probeVars, callerVars, capture, warned>>

\* genl_unregister_family() returns once no request is being served.
NetlinkExit ==
    /\ module = "loaded"
    /\ AllIdle
    /\ module' = "netlink_gone"
    /\ UNCHANGED <<state, bufferVars, lock, probeVars, callerVars, capture, warned>>

\* Reached from gb_exit(), and from gb_init() when gb_netlink_init() fails.
UnregisterProbe ==
    /\ module \in {"loading", "netlink_gone"}
    /\ module' = "probe_gone"
    /\ UNCHANGED <<state, bufferVars, lock, probeVars, callerVars, capture, warned>>

\* Mutant of SynchronizeProbe: nothing is waited for.
UnloadAtOnce ==
    /\ module = "probe_gone"
    /\ module' = "unloaded"
    /\ UNCHANGED <<state, bufferVars, lock, probeVars, callerVars, capture, warned>>

\* tracepoint_synchronize_unregister() waits for the probes under way.
SynchronizeProbe ==
    /\ module = "probe_gone"
    /\ \A cpu \in CPU : probe[cpu] = "idle"
    /\ module' = "unloaded"
    /\ UNCHANGED <<state, bufferVars, lock, probeVars, callerVars, capture, warned>>

\* The module is inserted again: fresh static data, then gb_schedhook_init().
Load ==
    /\ module = "unloaded"
    /\ state' = "WAITING"
    /\ num' = [cpu \in CPU |-> 0]
    /\ slots' = [cpu \in CPU |-> EmptyBuffer]
    /\ lock' = [cpu \in CPU |-> "free"]
    /\ module' = "loading"
    /\ UNCHANGED <<probeVars, callerVars, capture, warned>>

----------------------------------------------------------------------------
ProbeStep(cpu) ==
    ProbeLock(cpu) \/ ProbeWrite(cpu) \/ ProbeCount(cpu) \/ ProbeFull(cpu)

StartStep(c) == ResetLock(c) \/ ResetNum(c) \/ ResetSlots(c) \/ StartRun(c)

EndStep(c) ==
    \/ AllocCap(c) \/ AllocEvents(c)
    \/ FillLock(c) \/ FillCopy(c) \/ FillDone(c) \/ FillFull(c)
    \/ EndFinish(c) \/ CapFree(c)

ModuleStep ==
    NetlinkInit \/ NetlinkExit \/ UnregisterProbe \/ SynchronizeProbe \/ Load

Next ==
    \/ \E cpu \in CPU : ProbeCheck(cpu) \/ ProbeStep(cpu)
    \/ \E c \in Callers : StartCas(c) \/ StartStep(c) \/ EndCas(c) \/ EndStep(c)
    \/ ModuleStep

Spec == Init /\ [][Next]_vars

\* A context switch, a cap_start(), a cap_end() and an rmmod may never come;
\* what has begun is carried on by the CPU that runs it.
Fairness ==
    /\ \A cpu \in CPU : WF_vars(ProbeStep(cpu))
    /\ \A c \in Callers : WF_vars(StartStep(c) \/ EndStep(c))
    /\ WF_vars(SynchronizeProbe)

FairSpec == Spec /\ Fairness

----------------------------------------------------------------------------
(* Properties.                                                             *)

\* Every variable keeps the shape its declaration in schedhook.c gives it.
TypeOK ==
    /\ state \in State
    /\ num \in [CPU -> 0 .. MaxPerCPU]
    /\ slots \in [CPU -> Buffer]
    /\ lock \in [CPU -> {"free", "probe"} \cup Callers]
    /\ probe \in [CPU -> {"idle", "checked", "locked", "wrote"}]
    /\ saw \in [CPU -> Capture]
    /\ pc \in [Callers -> PC]
    /\ cur \in [Callers -> CPU]
    /\ idx \in [Callers -> 0 .. MaxPerCPU]
    /\ cap \in [Callers -> Seq(Event \cup {Blank})]
    /\ heap \in [Callers -> SUBSET {"cap", "events"}]
    /\ module \in Module
    /\ capture \in Capture
    /\ warned \in BOOLEAN

\* However many cap_start() and cap_end() calls race, one of them at a time is
\* past its first cmpxchg, the state says which of the two it is, and so neither
\* WARN_ON of schedhook.c ever fires.
ExclusiveCapture ==
    /\ ~warned
    /\ \A c \in Callers :
         /\ pc[c] \in Starting => state = "PREPARING"
         /\ pc[c] \in Ending => state = "DONE"
    /\ \A c, d \in Callers :
         pc[c] \in Starting \cup Ending /\ pc[d] \in Starting \cup Ending => c = d

\* What a call allocated is freed when it is over, and a caller that was given a
\* snapshot holds both of its parts: no path of _gb_schedhook_get_result() leaks
\* or hands out a half-built gb_schedhook_cap.
NoLeak ==
    \A c \in Callers :
        /\ pc[c] = "idle" => heap[c] = {}
        /\ pc[c] \in {"fill_lock", "fill", "holding"} => heap[c] = {"cap", "events"}

\* A snapshot holds only events a probe wrote and counted, never a slot that is
\* blank or half-way through a reset, and no more of them than kcalloc() made
\* room for.
SnapshotIntact ==
    \A c \in Callers :
        /\ Len(cap[c]) <= MaxEvents
        /\ \A k \in 1 .. Len(cap[c]) : cap[c][k] \in Event

\* While cap_end() fills a snapshot, nothing in it was written before the
\* cap_start() that opened this capture: no earlier capture shows through.
SnapshotFresh ==
    \A c \in Callers :
        pc[c] \in Ending =>
            \A k \in 1 .. Len(cap[c]) : cap[c][k].at = capture

\* A probe that passed its state check in an earlier capture and took the lock
\* only in this one (schedhook.c:170-171) is at index 0 of its CPU's events, so
\* each CPU adds at most one such event to a snapshot.
LateEventFirst ==
    \A c \in Callers :
        pc[c] \in Ending =>
            \A k \in 1 .. Len(cap[c]) :
                cap[c][k].saw # capture =>
                    \A j \in 1 .. k - 1 : cap[c][j].cpu # cap[c][k].cpu

\* Once tracepoint_synchronize_unregister() has returned and the module's text
\* is freed, no probe and no request still runs in it.
UnloadSafe ==
    module = "unloaded" => AllIdle /\ \A cpu \in CPU : probe[cpu] = "idle"

\* What the comment at schedhook.c:167-168 says of a probe that takes the lock
\* after the state went back to WAITING and before it is RUNNING again: what it
\* writes is erased by cap_start(), so that it is in no snapshot.
LateWritesErased ==
    \A c \in Callers :
        \A k \in 1 .. Len(cap[c]) : cap[c][k].st \notin {"WAITING", "PREPARING"}

\* What has begun is carried to its end. A cap_start() that won its cmpxchg gets the
\* capture running, whatever the probes still in flight do with the locks it needs; a
\* cap_end() makes the machine usable again, also when an allocation fails or the snapshot
\* runs full; unloading never waits for ever for a probe.
Settles ==
    /\ state = "PREPARING" ~> state = "RUNNING"
    /\ state = "DONE" ~> state = "WAITING"
    /\ module = "probe_gone" ~> module = "unloaded"
=============================================================================
