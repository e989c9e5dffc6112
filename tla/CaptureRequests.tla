-------------------------- MODULE CaptureRequests --------------------------
(***************************************************************************)
(* Captures as the clients of the bridge ask for them: the handlers of the *)
(* bridge (app/handler.go, app/schedhook.go, nlclient/nlschedhook.go), the *)
(* netlink socket they share, the commands and the dump of the kernel      *)
(* module (nl_schedhook.c), and under them the capture as CaptureSession   *)
(* has it, which Schedhook is shown to implement. Of a probe it adds the   *)
(* lock of its CPU's log and the timestamp that it takes under the lock.   *)
(*                                                                         *)
(* The capture belongs to nobody: any client may end it, also when the one *)
(* that has started it is gone or was told that it failed. The socket is   *)
(* the library's; Execute() lets one request through after the other.      *)
(***************************************************************************)
EXTENDS Integers, Sequences, FiniteSets, Functions

CONSTANTS
    Clients,     \* connections of the bridge
    NumCPUs,     \* possible CPUs
    Room,        \* GB_SCHEDHOOK_MAX_EVENTS_PER_CPU
    Limit,       \* GB_SCHEDHOOK_MAX_EVENTS
    PerMessage,  \* events that fit into a netlink message
    MaxTime      \* bound of the model: the last timestamp

ASSUME ClientsAssumption == "nobody" \notin Clients
ASSUME NumCPUsAssumption == NumCPUs \in Nat \ {0}
ASSUME RoomAssumption == Room \in Nat \ {0}
ASSUME LimitAssumption == Limit \in Nat \ {0}
ASSUME PerMessageAssumption == PerMessage \in Nat \ {0}
ASSUME MaxTimeAssumption == MaxTime \in Nat

VARIABLES
    phase, log, inflight, visited, result,   \* as in CaptureSession
    clock,     \* ktime_get_ns(): the last timestamp taken
    stamp,     \* stamp[cpu]: the timestamp of the probe that holds the lock, or 0
    conn,      \* who is inside of conn.Execute(), or "nobody"
    pc,        \* pc[c]: where the handler of c stands
    cap,       \* ctx->cap of the dump: what it has still to be sent from
    index,     \* ctx->index of the dump
    events,    \* events[c]: what CapEnd() has put together for c
    since,     \* history: since[c]: the time at which c last opened a capture
    atClose    \* history: atClose[c]: what was in the logs when c asked for the end

CPU == 0 .. NumCPUs - 1
Event == [cpu : CPU, timestamp : 1 .. MaxTime]

Session == INSTANCE CaptureSession

sessionVars == <<phase, log, inflight, visited, result>>
probeVars == <<clock, stamp>>
dumpVars == <<cap, index, events>>
historyVars == <<since, atClose>>
vars == <<sessionVars, probeVars, conn, pc, dumpVars, historyVars>>

RangeOf(s) == {s[i] : i \in DOMAIN s}

GoTo(c, place) == pc' = [pc EXCEPT ![c] = place]

Init ==
    /\ Session!Init
    /\ clock = 0
    /\ stamp = [cpu \in CPU |-> 0]
    /\ conn = "nobody"
    /\ pc = [c \in Clients |-> "idle"]
    /\ cap = <<>>
    /\ index = 0
    /\ events = [c \in Clients |-> <<>>]
    /\ since = [c \in Clients |-> 0]
    /\ atClose = [c \in Clients |-> {}]

----------------------------------------------------------------------------
(* The probe on a CPU.                                                     *)

Begin(cpu) ==
    /\ Session!Begin(cpu)
    /\ UNCHANGED <<probeVars, conn, pc, dumpVars, historyVars>>

\* The lock is taken and the time is read. Two CPUs may read the same time.
Stamp(cpu) ==
    /\ cpu \in inflight
    /\ stamp[cpu] = 0
    /\ Len(log[cpu]) < Room
    /\ clock' \in {clock, clock + 1} \cap 1 .. MaxTime
    /\ \A i \in DOMAIN log[cpu] : log[cpu][i].timestamp < clock'
    /\ stamp' = [stamp EXCEPT ![cpu] = clock']
    /\ UNCHANGED <<sessionVars, conn, pc, dumpVars, historyVars>>

Record(cpu) ==
    /\ stamp[cpu] # 0
    /\ Session!Record(cpu, [cpu |-> cpu, timestamp |-> stamp[cpu]])
    /\ stamp' = [stamp EXCEPT ![cpu] = 0]
    /\ UNCHANGED <<clock, conn, pc, dumpVars, historyVars>>

Discard(cpu) ==
    /\ Session!Discard(cpu)
    /\ UNCHANGED <<probeVars, conn, pc, dumpVars, historyVars>>

----------------------------------------------------------------------------
(* The clients of the bridge.                                              *)

\* A message of the client: OnClientMessage().
Ask(c) ==
    /\ pc[c] = "idle"
    /\ \E request \in {"start", "end"} : GoTo(c, request)
    /\ UNCHANGED <<sessionVars, probeVars, conn, dumpVars, historyVars>>

\* Its connection ends, whatever capture it has started.
Leave(c) ==
    /\ pc[c] = "idle"
    /\ GoTo(c, "gone")
    /\ UNCHANGED <<sessionVars, probeVars, conn, dumpVars, historyVars>>

\* Another client connects.
Arrive(c) ==
    /\ pc[c] = "gone"
    /\ GoTo(c, "idle")
    /\ since' = [since EXCEPT ![c] = 0]
    /\ UNCHANGED <<sessionVars, probeVars, conn, dumpVars, atClose>>

----------------------------------------------------------------------------
(* handleCapStart(), CapStart() and gb_nl_schedhook_cap_start()            *)

\* -EBUSY: "Capture Start Failed".
StartRefused(c) ==
    /\ pc[c] = "start" /\ conn = "nobody"
    /\ phase # "WAITING"
    /\ GoTo(c, "idle")
    /\ UNCHANGED <<sessionVars, probeVars, conn, dumpVars, historyVars>>

StartOpens(c) ==
    /\ pc[c] = "start" /\ conn = "nobody"
    /\ Session!Open
    /\ conn' = c
    /\ GoTo(c, "clear")
    /\ since' = [since EXCEPT ![c] = clock]
    /\ UNCHANGED <<probeVars, dumpVars, atClose>>

\* Mutant of Clear: the lock is not taken.
ClearWithoutLock(c) ==
    /\ pc[c] = "clear"
    /\ Session!Clear
    /\ UNCHANGED <<probeVars, conn, pc, dumpVars, historyVars>>

Clear(c) ==
    /\ pc[c] = "clear"
    /\ Session!Clear
    /\ stamp[visited] = 0
    /\ UNCHANGED <<probeVars, conn, pc, dumpVars, historyVars>>

StartRuns(c) ==
    /\ pc[c] = "clear"
    /\ Session!Run
    /\ GoTo(c, "reply")
    /\ UNCHANGED <<probeVars, conn, dumpVars, historyVars>>

\* _gb_nl_schedhook_reply(): the client hears nothing, or of an error when there is no
\* memory for the reply. The capture runs all the same.
Reply(c) ==
    /\ pc[c] = "reply"
    /\ conn' = "nobody"
    /\ GoTo(c, "idle")
    /\ UNCHANGED <<sessionVars, probeVars, dumpVars, historyVars>>

----------------------------------------------------------------------------
(* handleCapEnd(), CapEnd() and the dump with which the kernel answers     *)

\* -EPERM: "Capture End Failed".
EndRefused(c) ==
    /\ pc[c] = "end" /\ conn = "nobody"
    /\ phase # "RUNNING"
    /\ GoTo(c, "idle")
    /\ UNCHANGED <<sessionVars, probeVars, conn, dumpVars, historyVars>>

EndCloses(c) ==
    /\ pc[c] = "end" /\ conn = "nobody"
    /\ Session!Close
    /\ conn' = c
    /\ GoTo(c, "collect")
    /\ atClose' = [atClose EXCEPT ![c] = UNION {RangeOf(log[cpu]) : cpu \in CPU}]
    /\ UNCHANGED <<probeVars, dumpVars, since>>

\* No memory for the result.
Abandon(c) ==
    /\ pc[c] = "collect"
    /\ result = <<>>
    /\ Session!Abandon
    /\ GoTo(c, "abandoned")
    /\ UNCHANGED <<probeVars, conn, dumpVars, historyVars>>

Collect(c) ==
    /\ pc[c] = "collect"
    /\ Session!Collect
    /\ stamp[visited] = 0
    /\ UNCHANGED <<probeVars, conn, pc, dumpVars, historyVars>>

\* gb_nl_schedhook_dump_start() has its capture.
EndFinishes(c) ==
    /\ pc[c] = "collect"
    /\ Session!Finish
    /\ cap' = result
    /\ index' = 0
    /\ GoTo(c, "dump")
    /\ UNCHANGED <<probeVars, conn, events, historyVars>>

\* Mutant of EndFails: -ENOMEM is returned before the state is put back.
EndFailsEarly(c) ==
    /\ pc[c] = "abandoned"
    /\ conn' = "nobody"
    /\ GoTo(c, "idle")
    /\ UNCHANGED <<sessionVars, probeVars, dumpVars, historyVars>>

\* -ENOMEM: "Capture End Failed", and the capture is lost.
EndFails(c) ==
    /\ pc[c] = "abandoned"
    /\ Session!Finish
    /\ conn' = "nobody"
    /\ GoTo(c, "idle")
    /\ atClose' = [atClose EXCEPT ![c] = {}]
    /\ UNCHANGED <<probeVars, dumpVars, since>>

Upto == IF index + PerMessage <= Len(cap) THEN index + PerMessage ELSE Len(cap)

\* Mutant of Dump: the event that did not fit is counted.
DumpSkipsUnfit(c) ==
    /\ pc[c] = "dump"
    /\ index < Len(cap)
    /\ events' = [events EXCEPT ![c] = @ \o SubSeq(cap, index + 1, Upto)]
    /\ index' = IF Upto < Len(cap) THEN Upto + 1 ELSE Upto
    /\ UNCHANGED <<sessionVars, probeVars, conn, pc, cap, historyVars>>

\* gb_nl_schedhook_dump(): events until one does not fit into the message.
Dump(c) ==
    /\ pc[c] = "dump"
    /\ index < Len(cap)
    /\ events' = [events EXCEPT ![c] = @ \o SubSeq(cap, index + 1, Upto)]
    /\ index' = Upto
    /\ UNCHANGED <<sessionVars, probeVars, conn, pc, cap, historyVars>>

\* The results of sort.Slice() by timestamp, which is not stable.
Sorted(s) ==
    {[i \in DOMAIN s |-> s[order[i]]] :
        order \in {f \in Bijection(DOMAIN s, DOMAIN s) :
                     \A i, j \in DOMAIN s : i < j => s[f[i]].timestamp <= s[f[j]].timestamp}}

\* An empty message: gb_nl_schedhook_dump_done() frees the capture, Execute() returns.
DumpDone(c) ==
    /\ pc[c] = "dump"
    /\ index = Len(cap)
    /\ cap' = <<>>
    /\ index' = 0
    /\ conn' = "nobody"
    /\ \E sorted \in Sorted(events[c]) : events' = [events EXCEPT ![c] = sorted]
    /\ GoTo(c, "answer")
    /\ UNCHANGED <<sessionVars, probeVars, historyVars>>

\* sendMessage()
Answer(c) ==
    /\ pc[c] = "answer"
    /\ events' = [events EXCEPT ![c] = <<>>]
    /\ atClose' = [atClose EXCEPT ![c] = {}]
    /\ GoTo(c, "idle")
    /\ UNCHANGED <<sessionVars, probeVars, conn, cap, index, since>>

----------------------------------------------------------------------------
Execute(c) ==
    \/ StartRefused(c) \/ StartOpens(c) \/ EndRefused(c) \/ EndCloses(c)

Serve(c) ==
    \/ Clear(c) \/ StartRuns(c) \/ Reply(c)
    \/ Collect(c) \/ EndFinishes(c) \/ EndFails(c)
    \/ Dump(c) \/ DumpDone(c) \/ Answer(c)

Next ==
    \/ \E cpu \in CPU : Begin(cpu) \/ Stamp(cpu) \/ Record(cpu) \/ Discard(cpu)
    \/ \E c \in Clients :
         Ask(c) \/ Leave(c) \/ Arrive(c) \/ Execute(c) \/ Serve(c) \/ Abandon(c)

\* The mutex of Execute() hands itself over; a request that is being served and a
\* probe that holds its lock are code that a CPU runs.
Fairness ==
    /\ \A c \in Clients : SF_vars(Execute(c)) /\ WF_vars(Serve(c))
    /\ \A cpu \in CPU : WF_vars(Record(cpu))

Spec == Init /\ [][Next]_vars /\ Fairness

----------------------------------------------------------------------------
(* Properties.                                                             *)

\* Whoever ends whose captures meanwhile: a client that has opened a capture is never
\* given an event of before, not even a late one of the capture before.
SinceOwnStart ==
    \A c \in Clients :
        pc[c] = "answer" => \A e \in RangeOf(events[c]) : e.timestamp >= since[c]

\* What a client is given is the capture: in the order of time, no event twice, no more
\* than the limit, and if it is not full all that was recorded when the end was asked for, from each CPU
\* at most one event more.
AnswerIsCapture ==
    \A c \in Clients :
        pc[c] = "answer" =>
            LET given == RangeOf(events[c])
            IN  /\ Len(events[c]) <= Limit
                /\ \A i, j \in DOMAIN events[c] :
                     i < j => /\ events[c][i].timestamp <= events[c][j].timestamp
                              /\ events[c][i] # events[c][j]
                /\ Len(events[c]) < Limit => atClose[c] \subseteq given
                /\ \A cpu \in CPU : Cardinality({e \in given \ atClose[c] : e.cpu = cpu}) <= 1

\* A capture that runs is over once any client asks for its end: also when its owner is
\* gone or was told that the start had failed, and when there is no memory for the result.
EndByAnyone ==
    \A c \in Clients : pc[c] = "end" /\ phase = "RUNNING" ~> phase = "WAITING"
=============================================================================
