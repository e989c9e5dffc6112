--------------------------- MODULE SchedTimeline ---------------------------
(***************************************************************************)
(* The timeline of a capture: the intervals between the context switches   *)
(* of each CPU (webapp/src/adapters/schedhook.ts), the items and groups    *)
(* that the timeline is drawn from (components/schedhook/EventTimeline.tsx)*)
(* and, as a reference, which task runs on a CPU at an instant.            *)
(*                                                                         *)
(* An event is a Switch: from its timestamp on, the task next runs on the  *)
(* CPU; kthread tells whether it is a kernel thread.                       *)
(***************************************************************************)
EXTENDS Integers, Sequences

Idle == 0   \* the pid of the idle task of each CPU

Switch == [cpu : Nat, timestamp : Nat, next : Nat, kthread : BOOLEAN]

\* byCPU: an event is known by its index in the capture.
byCPU(events, cpu) == {i \in DOMAIN events : events[i].cpu = cpu}

\* Mutant of Precedes: the events are taken in the order of the capture.
PrecedesUnsorted(events, i, j) == i < j

\* events.sort() is stable: equal timestamps keep their order.
Precedes(events, i, j) ==
    \/ events[i].timestamp < events[j].timestamp
    \/ events[i].timestamp = events[j].timestamp /\ i < j

\* What is behind events[i] in the sorted list of its CPU.
Later(events, i) == {j \in byCPU(events, events[i].cpu) : Precedes(events, i, j)}

\* The next one in that list.
Successor(events, i) ==
    CHOOSE j \in Later(events, i) :
        \A k \in Later(events, i) : k = j \/ Precedes(events, j, k)

\* toSchedTask()
toSchedTask(cur, next) ==
    [task |-> cur.next, cpu |-> cur.cpu, start |-> cur.timestamp, end |-> next.timestamp,
     kthread |-> cur.kthread]

\* toSchedTaskPerCPU() for each CPU: an interval for each event but the last one of its CPU, by
\* the index of that event. The order of the list of them is left out: nothing but the
\* ids of the items depends on it.
Intervals(events) ==
    [i \in {i \in DOMAIN events : Later(events, i) # {}} |->
        toSchedTask(events[i], events[Successor(events, i)])]

Earliest(intervals) ==
    CHOOSE t \in {intervals[i].start : i \in DOMAIN intervals} :
        \A i \in DOMAIN intervals : t <= intervals[i].start

\* result[0].start is read of events of which no two are on one CPU: result is empty.
Throws(events) == events # <<>> /\ DOMAIN Intervals(events) = {}

\* toSchedEvents() when it does not throw.
toSchedEvents(events) ==
    LET intervals == Intervals(events)
        zero == Earliest(intervals)
    IN  [i \in DOMAIN intervals |->
            [task |-> intervals[i].task, cpu |-> intervals[i].cpu,
             kthread |-> intervals[i].kthread,
             startNorm |-> intervals[i].start - zero, endNorm |-> intervals[i].end - zero]]

\* toClassName()
toClassName(ev) ==
    IF ev.task = Idle THEN "yellow" ELSE IF ev.kthread THEN "red" ELSE "blue"

\* toDataItems(). Number() is exact for the bigints of a capture of less than 2^53 ns.
toDataItems(events) ==
    [i \in DOMAIN events |->
        [group |-> events[i].cpu, content |-> events[i].task, start |-> events[i].startNorm,
         end |-> events[i].endNorm, className |-> toClassName(events[i])]]

\* toGroupItems(): the rows of the timeline.
toGroupItems(events) == {events[i].cpu : i \in DOMAIN events}

----------------------------------------------------------------------------
(* Reference.                                                              *)

On(capture, cpu) == {i \in DOMAIN capture : capture[i].cpu = cpu}

\* cpu switches at least twice, so that it is known what ran in between.
Covered(capture) ==
    {cpu \in {capture[i].cpu : i \in DOMAIN capture} :
        \E i, j \in On(capture, cpu) : i # j}

HasInterval(capture) == Covered(capture) # {}

FirstSwitch(capture, cpu) ==
    CHOOSE t \in {capture[i].timestamp : i \in On(capture, cpu)} :
        \A i \in On(capture, cpu) : t <= capture[i].timestamp

LastSwitch(capture, cpu) ==
    CHOOSE t \in {capture[i].timestamp : i \in On(capture, cpu)} :
        \A i \in On(capture, cpu) : t >= capture[i].timestamp

\* The latest switch of cpu that is not after t.
Running(capture, cpu, t) ==
    CHOOSE i \in On(capture, cpu) :
        /\ capture[i].timestamp <= t
        /\ \A j \in On(capture, cpu) :
              capture[j].timestamp <= t =>
                  \/ capture[j].timestamp < capture[i].timestamp
                  \/ capture[j].timestamp = capture[i].timestamp /\ j <= i

\* At each instant between the first and the last switch of a CPU exactly one item is
\* drawn in its row, for the task that runs then, in that task's color; the earliest item
\* of all begins at 0, none ends before it begins, and a CPU of which nothing is known
\* has no row.
ShowsCapture(events, capture) ==
    LET items == toDataItems(events)
        at(cpu, t) == {i \in DOMAIN items :
                          items[i].group = cpu /\ items[i].start <= t /\ t < items[i].end}
        zero == CHOOSE t \in {FirstSwitch(capture, c) : c \in Covered(capture)} :
                    \A c \in Covered(capture) : t <= FirstSwitch(capture, c)
    IN  /\ toGroupItems(events) = Covered(capture)
        /\ \A cpu \in Covered(capture) :
              \A t \in FirstSwitch(capture, cpu) .. LastSwitch(capture, cpu) - 1 :
                  LET run == capture[Running(capture, cpu, t)]
                  IN  \E i \in DOMAIN items :
                        /\ at(cpu, t - zero) = {i}
                        /\ items[i].content = run.next
                        /\ items[i].className =
                              IF run.next = Idle THEN "yellow"
                              ELSE IF run.kthread THEN "red" ELSE "blue"
        /\ \A i \in DOMAIN items :
              /\ items[i].start \in 0 .. items[i].end
              /\ items[i].end <= LastSwitch(capture, items[i].group) - zero
=============================================================================
