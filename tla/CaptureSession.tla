--------------------------- MODULE CaptureSession ---------------------------
(***************************************************************************)
(* What the capture of kernel/src/schedhook.c promises, without its locks, *)
(* slots, counters and callers: a session is opened, every CPU's log is    *)
(* emptied, events are recorded, the session is closed, and every CPU's    *)
(* log is collected in one piece, in the order of the CPUs, into a result  *)
(* of at most Limit events. A recording that began while the session ran   *)
(* may end after it: at most one for each CPU.                             *)
(***************************************************************************)
EXTENDS Integers, Sequences

CONSTANTS
    NumCPUs,   \* possible CPUs
    Room,      \* events a CPU's log can hold
    Limit,     \* events a result can hold
    Event      \* the events

VARIABLES
    phase,     \* the state of the session
    log,       \* log[cpu]: the events recorded since it was last emptied
    inflight,  \* the CPUs on which a recording has begun
    visited,   \* CPUs emptied or collected so far in this phase
    result     \* what has been collected so far

sessionVars == <<phase, log, inflight, visited, result>>

CPU == 0 .. NumCPUs - 1

Init ==
    /\ phase = "WAITING"
    /\ log = [cpu \in CPU |-> <<>>]
    /\ inflight = {}
    /\ visited = 0
    /\ result = <<>>

Begin(cpu) ==
    /\ phase = "RUNNING"
    /\ cpu \notin inflight
    /\ inflight' = inflight \cup {cpu}
    /\ UNCHANGED <<phase, log, visited, result>>

Record(cpu, e) ==
    /\ cpu \in inflight
    /\ e.cpu = cpu
    /\ Len(log[cpu]) < Room
    /\ log' = [log EXCEPT ![cpu] = Append(@, e)]
    /\ inflight' = inflight \ {cpu}
    /\ UNCHANGED <<phase, visited, result>>

Discard(cpu) ==
    /\ cpu \in inflight
    /\ Len(log[cpu]) = Room
    /\ inflight' = inflight \ {cpu}
    /\ UNCHANGED <<phase, log, visited, result>>

Open ==
    /\ phase = "WAITING"
    /\ phase' = "PREPARING"
    /\ UNCHANGED <<log, inflight, visited, result>>

Clear ==
    /\ phase = "PREPARING"
    /\ visited < NumCPUs
    /\ log' = [log EXCEPT ![visited] = <<>>]
    /\ visited' = visited + 1
    /\ UNCHANGED <<phase, inflight, result>>

Run ==
    /\ phase = "PREPARING"
    /\ visited = NumCPUs
    /\ phase' = "RUNNING"
    /\ visited' = 0
    /\ UNCHANGED <<log, inflight, result>>

Close ==
    /\ phase = "RUNNING"
    /\ phase' = "DONE"
    /\ UNCHANGED <<log, inflight, visited, result>>

\* The log of the next CPU as it stands; the first one that does not fit whole
\* fills the result up and is the last.
Collect ==
    /\ phase = "DONE"
    /\ visited < NumCPUs
    /\ LET all == result \o log[visited]
       IN  IF Len(all) <= Limit
           THEN result' = all /\ visited' = visited + 1
           ELSE result' = SubSeq(all, 1, Limit) /\ visited' = NumCPUs
    /\ UNCHANGED <<phase, log, inflight>>

\* There is no memory for a result: nothing is collected.
Abandon ==
    /\ phase = "DONE"
    /\ visited = 0
    /\ visited' = NumCPUs
    /\ UNCHANGED <<phase, log, inflight, result>>

\* The result is handed to the caller, or an error instead of it.
Finish ==
    /\ phase = "DONE"
    /\ visited = NumCPUs
    /\ phase' = "WAITING"
    /\ visited' = 0
    /\ result' = <<>>
    /\ UNCHANGED <<log, inflight>>

\* The module is removed, no recording being under way, and inserted again.
Reload ==
    /\ phase \in {"WAITING", "RUNNING"}
    /\ inflight = {}
    /\ phase' = "WAITING"
    /\ log' = [cpu \in CPU |-> <<>>]
    /\ UNCHANGED <<inflight, visited, result>>

Next ==
    \/ \E cpu \in CPU : Begin(cpu) \/ Discard(cpu) \/ \E e \in Event : Record(cpu, e)
    \/ Open \/ Clear \/ Run \/ Close \/ Collect \/ Abandon \/ Finish \/ Reload

Spec == Init /\ [][Next]_sessionVars
=============================================================================
