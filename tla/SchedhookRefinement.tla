------------------------- MODULE SchedhookRefinement -------------------------
(***************************************************************************)
(* schedhook.c implements CaptureSession: what the spinlocks, the cmpxchg  *)
(* calls and the copy loops do step by step is, seen from outside, one     *)
(* atomic step for each CPU.                                               *)
(***************************************************************************)
EXTENDS Schedhook

\* The events a CPU's buffer counts. A slot that is written but not counted yet
\* is not among them.
Recorded(cpu) == [i \in 1 .. num[cpu] |-> slots[cpu][i - 1]]

Busy == {c \in Callers : pc[c] \in Starting \cup Ending}

\* How many CPUs the busy caller c has dealt with. A reset counts from the moment
\* num_events is 0, a copy from the unlock.
DealtWith(c) ==
    IF pc[c] = "reset_slots" THEN cur[c] + 1
    ELSE IF pc[c] \in {"run", "finish"} THEN NumCPUs
    ELSE cur[c]

\* What c has copied, without the events of the CPU it is at.
Collected(c) ==
    IF pc[c] = "fill" THEN SubSeq(cap[c], 1, Len(cap[c]) - idx[c]) ELSE cap[c]

Log == [cpu \in CPU |-> Recorded(cpu)]
Inflight == {cpu \in CPU : probe[cpu] # "idle"}
Visited == IF Busy = {} THEN 0 ELSE DealtWith(CHOOSE c \in Busy : TRUE)
Result == IF Busy = {} THEN <<>> ELSE Collected(CHOOSE c \in Busy : TRUE)

Session == INSTANCE CaptureSession WITH
    Room <- MaxPerCPU,
    Limit <- MaxEvents,
    phase <- state,
    log <- Log,
    inflight <- Inflight,
    visited <- Visited,
    result <- Result

\* Every behaviour of the capture is one of CaptureSession: whatever the
\* interleaving of probes, cap_start() and cap_end(), a snapshot is the
\* concatenation, CPU by CPU, of what each buffer held at one moment, cut at
\* GB_SCHEDHOOK_MAX_EVENTS, and after the end of a capture each CPU adds at most
\* one event.
ImplementsSession == Session!Spec
=============================================================================
