----------------------- MODULE CaptureRequestsProofs -----------------------
(***************************************************************************)
(* What a client is given for a capture, for any number of clients, CPUs,  *)
(* events and timestamps: events of the capture that it has ended, none    *)
(* from before the capture that it has started itself.                     *)
(***************************************************************************)
EXTENDS CaptureRequests, FiniteSetTheorems, TLAPS

USE ClientsAssumption, NumCPUsAssumption, RoomAssumption, LimitAssumption,
    PerMessageAssumption, MaxTimeAssumption

PC == {"idle", "gone", "start", "end", "clear", "reply", "collect", "abandoned", "dump",
       "answer"}

\* Inside of conn.Execute().
Inside == {"clear", "reply", "collect", "abandoned", "dump"}

----------------------------------------------------------------------------
(* The inductive invariant.                                                *)

TypeInv ==
    /\ phase \in {"WAITING", "PREPARING", "RUNNING", "DONE"}
    /\ log \in [CPU -> Seq(Event)]
    /\ inflight \subseteq CPU
    /\ visited \in 0 .. NumCPUs
    /\ result \in Seq(Event)
    /\ clock \in 0 .. MaxTime
    /\ stamp \in [CPU -> 0 .. MaxTime]
    /\ conn \in Clients \cup {"nobody"}
    /\ pc \in [Clients -> PC]
    /\ cap \in Seq(Event) /\ index \in 0 .. Len(cap)
    /\ events \in [Clients -> Seq(Event)]
    /\ since \in [Clients -> 0 .. MaxTime]
    /\ atClose \in [Clients -> SUBSET Event]

\* The socket lets one request through after the other, and the module's state is that
\* of the request.
ConnInv ==
    /\ \A c \in Clients : pc[c] \in Inside <=> conn = c
    /\ phase = "PREPARING" <=> \E c \in Clients : pc[c] = "clear"
    /\ phase = "DONE" <=> \E c \in Clients : pc[c] \in {"collect", "abandoned"}
    /\ phase \in {"WAITING", "RUNNING"} => visited = 0
    /\ \A c \in Clients : pc[c] \notin {"dump", "answer"} => events[c] = <<>>
    /\ phase # "DONE" => result = <<>>

\* The log of a CPU is in the order of time, and the probe that holds its lock will
\* continue it.
Log(cpu) ==
    /\ \A i \in DOMAIN log[cpu] :
         log[cpu][i].cpu = cpu /\ log[cpu][i].timestamp <= clock
    /\ \A i, j \in DOMAIN log[cpu] :
         i < j => log[cpu][i].timestamp < log[cpu][j].timestamp
    /\ stamp[cpu] # 0 =>
         /\ cpu \in inflight /\ stamp[cpu] <= clock /\ Len(log[cpu]) < Room
         /\ \A i \in DOMAIN log[cpu] : log[cpu][i].timestamp < stamp[cpu]

LogInv == \A cpu \in CPU : Log(cpu)

\* The log of the CPU has been emptied in the capture that is open.
Cleared(cpu) ==
    phase \in {"RUNNING", "DONE"} \/ (phase = "PREPARING" /\ cpu < visited)

\* What the log of a CPU holds, or will hold, is not older than a time.
Younger(cpu, time) ==
    /\ \A e \in RangeOf(log[cpu]) : e.timestamp >= time
    /\ stamp[cpu] # 0 => stamp[cpu] >= time

\* What a cleared log holds, or will hold, is younger than the start of every client.
FreshInv ==
    \A c \in Clients :
        /\ since[c] <= clock
        /\ \A cpu \in CPU : Cleared(cpu) => Younger(cpu, since[c])

Distinct(s) == \A i, j \in DOMAIN s : s[i] = s[j] => i = j

\* While the capture is collected each CPU adds at most one event to what was there.
Late(c) ==
    /\ \A e \in atClose[c] : e \in RangeOf(log[e.cpu])
    /\ \A cpu \in CPU :
         /\ \A e, f \in RangeOf(log[cpu]) \ atClose[c] : e = f
         /\ cpu \in inflight => RangeOf(log[cpu]) \subseteq atClose[c]

LateInv == \A c \in Clients : pc[c] = "collect" => Late(c)

\* What has been collected are the logs up to here, or as much of them as a result holds.
CollectInv ==
    /\ Len(result) <= Limit /\ Distinct(result)
    /\ \A e \in RangeOf(result) : e.cpu < visited /\ e \in RangeOf(log[e.cpu])
    /\ \A c \in Clients : pc[c] = "collect" /\ Len(result) < Limit =>
         \A e \in atClose[c] : e.cpu < visited => e \in RangeOf(result)

\* A sequence of events that is a capture which c has ended.
Capture(c, s) ==
    /\ Len(s) <= Limit /\ Distinct(s)
    /\ \A e \in RangeOf(s) : e.timestamp >= since[c]
    /\ Len(s) < Limit => atClose[c] \subseteq RangeOf(s)
    /\ \A e, f \in RangeOf(s) \ atClose[c] : e.cpu = f.cpu => e = f

Ordered(s) == \A i, j \in DOMAIN s : i < j => s[i].timestamp <= s[j].timestamp

\* Nothing is said of a client that is neither being sent its capture nor has it.
Given(c) ==
    /\ pc[c] = "dump" =>
         /\ Capture(c, cap)
         /\ Len(events[c]) = index
         /\ \A i \in 1 .. index : events[c][i] = cap[i]
    /\ pc[c] = "answer" => Capture(c, events[c]) /\ Ordered(events[c])

AnswerInv == \A c \in Clients : Given(c)

RequestsInv ==
    TypeInv /\ ConnInv /\ LogInv /\ FreshInv /\ LateInv /\ CollectInv /\ AnswerInv

----------------------------------------------------------------------------
(* Sequences of events.                                                    *)

LEMMA RangeEmpty == RangeOf(<<>>) = {} /\ \A S : <<>> \in Seq(S) /\ Len(<<>>) = 0
  BY DEF RangeOf

LEMMA RangeAppend ==
    ASSUME NEW S, NEW s \in Seq(S), NEW e \in S
    PROVE  /\ Append(s, e) \in Seq(S) /\ Len(Append(s, e)) = Len(s) + 1
           /\ \A i \in DOMAIN s : Append(s, e)[i] = s[i]
           /\ Append(s, e)[Len(s) + 1] = e
           /\ \A i \in DOMAIN Append(s, e) : i \in DOMAIN s \/ i = Len(s) + 1
           /\ RangeOf(Append(s, e)) = RangeOf(s) \cup {e}
<1> DEFINE t == Append(s, e)
<1>1. /\ t \in Seq(S) /\ Len(t) = Len(s) + 1 /\ t[Len(s) + 1] = e
      /\ \A i \in 1 .. Len(s) : t[i] = s[i]
  OBVIOUS
<1>2. /\ DOMAIN s = 1 .. Len(s) /\ DOMAIN t = 1 .. Len(s) + 1 /\ Len(s) \in Nat
  BY <1>1
<1>3. \A i \in DOMAIN t : i \in DOMAIN s \/ i = Len(s) + 1
  BY <1>2
<1>4. Len(s) + 1 \in DOMAIN t /\ DOMAIN s \subseteq DOMAIN t
  BY <1>2
<1> HIDE DEF t
<1>5. RangeOf(t) = RangeOf(s) \cup {e}
  BY <1>1, <1>2, <1>3, <1>4 DEF RangeOf
<1> QED
  BY <1>1, <1>2, <1>3, <1>5 DEF t

LEMMA RangeConcat ==
    ASSUME NEW S, NEW a \in Seq(S), NEW b \in Seq(S)
    PROVE  /\ a \o b \in Seq(S) /\ Len(a \o b) = Len(a) + Len(b)
           /\ \A i \in 1 .. Len(a) : (a \o b)[i] = a[i]
           /\ \A i \in Len(a) + 1 .. Len(a) + Len(b) : (a \o b)[i] = b[i - Len(a)]
           /\ RangeOf(a \o b) = RangeOf(a) \cup RangeOf(b)
<1> DEFINE t == a \o b
<1>1. /\ t \in Seq(S) /\ Len(t) = Len(a) + Len(b)
      /\ \A i \in 1 .. Len(a) : t[i] = a[i]
      /\ \A i \in Len(a) + 1 .. Len(a) + Len(b) : t[i] = b[i - Len(a)]
  OBVIOUS
<1>2. /\ DOMAIN a = 1 .. Len(a) /\ DOMAIN b = 1 .. Len(b) /\ DOMAIN t = 1 .. Len(a) + Len(b)
      /\ Len(a) \in Nat /\ Len(b) \in Nat
  BY <1>1
<1> HIDE DEF t
<1>3. ASSUME NEW i \in DOMAIN t PROVE t[i] \in RangeOf(a) \cup RangeOf(b)
  <2>1. CASE i \in 1 .. Len(a)
    BY <1>1, <1>2, <2>1 DEF RangeOf
  <2>2. CASE i \notin 1 .. Len(a)
    <3>1. i \in Len(a) + 1 .. Len(a) + Len(b) /\ i - Len(a) \in DOMAIN b
      BY <1>2, <2>2
    <3> QED
      BY <1>1, <3>1 DEF RangeOf
  <2> QED
    BY <2>1, <2>2
<1>4. ASSUME NEW i \in DOMAIN a PROVE a[i] \in RangeOf(t)
  BY <1>1, <1>2 DEF RangeOf
<1>5. ASSUME NEW i \in DOMAIN b PROVE b[i] \in RangeOf(t)
  <2>1. /\ i + Len(a) \in Len(a) + 1 .. Len(a) + Len(b) /\ i + Len(a) \in DOMAIN t
        /\ i + Len(a) - Len(a) = i
    BY <1>2
  <2> QED
    BY <1>1, <2>1 DEF RangeOf
<1>6. RangeOf(t) = RangeOf(a) \cup RangeOf(b)
  BY <1>3, <1>4, <1>5 DEF RangeOf
<1> QED
  BY <1>1, <1>6 DEF t

LEMMA RangeFirst ==
    ASSUME NEW S, NEW s \in Seq(S), NEW n \in 0 .. Len(s)
    PROVE  /\ SubSeq(s, 1, n) \in Seq(S) /\ Len(SubSeq(s, 1, n)) = n
           /\ \A i \in 1 .. n : SubSeq(s, 1, n)[i] = s[i] /\ i \in DOMAIN s
           /\ RangeOf(SubSeq(s, 1, n)) \subseteq RangeOf(s)
<1> DEFINE t == SubSeq(s, 1, n)
<1>1. /\ t \in Seq(S) /\ Len(t) = n /\ DOMAIN t = 1 .. n
      /\ \A i \in 1 .. n : t[i] = s[i] /\ i \in DOMAIN s
  OBVIOUS
<1> HIDE DEF t
<1>2. RangeOf(t) \subseteq RangeOf(s)
  BY <1>1 DEF RangeOf
<1> QED
  BY <1>1, <1>2 DEF t

LEMMA SameSequence ==
    ASSUME NEW S, NEW a \in Seq(S), NEW b \in Seq(S), Len(a) = Len(b),
           \A i \in 1 .. Len(b) : a[i] = b[i]
    PROVE  a = b
  OBVIOUS

\* Sorting keeps the events.
LEMMA Shuffled ==
    ASSUME NEW s \in Seq(Event), NEW t \in Sorted(s)
    PROVE  /\ t \in Seq(Event) /\ Len(t) = Len(s) /\ RangeOf(t) = RangeOf(s)
           /\ Distinct(s) => Distinct(t)
           /\ Ordered(t)
<1> PICK order \in Bijection(DOMAIN s, DOMAIN s) :
      /\ t = [i \in DOMAIN s |-> s[order[i]]]
      /\ \A i, j \in DOMAIN s : i < j => s[order[i]].timestamp <= s[order[j]].timestamp
  BY DEF Sorted
<1>1. /\ order \in [DOMAIN s -> DOMAIN s]
      /\ \A i, j \in DOMAIN s : order[i] = order[j] => i = j
      /\ \A i \in DOMAIN s : \E j \in DOMAIN s : order[j] = i
  BY DEF Bijection, Injection, Surjection, IsInjective
<1>2. DOMAIN s = 1 .. Len(s) /\ Len(s) \in Nat /\ \A i \in DOMAIN s : s[i] \in Event
  OBVIOUS
<1>3. t \in [1 .. Len(s) -> Event]
  BY <1>1, <1>2
<1>4. t \in Seq(Event) /\ Len(t) = Len(s)
  BY <1>2, <1>3
<1>5. RangeOf(t) = RangeOf(s)
  BY <1>1 DEF RangeOf
<1>6. Distinct(s) => Distinct(t)
  BY <1>1 DEF Distinct
<1>7. Ordered(t)
  BY <1>1 DEF Ordered
<1> QED
  BY <1>4, <1>5, <1>6, <1>7

----------------------------------------------------------------------------
(* What a step does to the capture.                                        *)

LEMMA Values ==
    /\ Session!CPU = CPU /\ NumCPUs \in Nat /\ NumCPUs >= 1 /\ CPU \subseteq Nat
    /\ \A n \in 0 .. NumCPUs : n < NumCPUs => n \in CPU /\ n + 1 \in 0 .. NumCPUs
    /\ \A cpu \in CPU : cpu < NumCPUs /\ cpu >= 0
  BY DEF Session!CPU, CPU

captureVars == <<sessionVars, probeVars>>
requestVars == <<conn, pc, dumpVars, historyVars>>

Probe(cpu) == Begin(cpu) \/ Stamp(cpu) \/ Record(cpu) \/ Discard(cpu)

\* A probe keeps to its CPU, and what it records is older than nothing in the log.
LEMMA ProbeEffect ==
    ASSUME TypeInv, NEW cpu \in CPU, Probe(cpu)
    PROVE  /\ UNCHANGED <<phase, visited, result, requestVars>>
           /\ \/ /\ phase = "RUNNING" /\ cpu \notin inflight /\ inflight' = inflight \cup {cpu}
                 /\ UNCHANGED <<log, clock, stamp>>
              \/ /\ cpu \in inflight /\ stamp[cpu] = 0 /\ Len(log[cpu]) < Room
                 /\ clock' \in {clock, clock + 1} /\ clock' \in 1 .. MaxTime
                 /\ \A i \in DOMAIN log[cpu] : log[cpu][i].timestamp < clock'
                 /\ stamp' = [stamp EXCEPT ![cpu] = clock']
                 /\ UNCHANGED <<log, inflight>>
              \/ /\ stamp[cpu] # 0 /\ cpu \in inflight
                 /\ [cpu |-> cpu, timestamp |-> stamp[cpu]] \in Event
                 /\ log' = [log EXCEPT ![cpu] =
                              Append(@, [cpu |-> cpu, timestamp |-> stamp[cpu]])]
                 /\ Len(log[cpu]) < Room
                 /\ inflight' = inflight \ {cpu} /\ stamp' = [stamp EXCEPT ![cpu] = 0]
                 /\ UNCHANGED clock
              \/ /\ cpu \in inflight /\ Len(log[cpu]) = Room /\ inflight' = inflight \ {cpu}
                 /\ UNCHANGED <<log, clock, stamp>>
<1>1. CASE Begin(cpu)
  BY <1>1 DEF Begin, Session!Begin, probeVars, requestVars
<1>2. CASE Stamp(cpu)
  BY <1>2 DEF Stamp, sessionVars, requestVars
<1>3. CASE Record(cpu)
  <2>1. stamp[cpu] \in 1 .. MaxTime
    BY <1>3 DEF Record, TypeInv
  <2>2. [cpu |-> cpu, timestamp |-> stamp[cpu]] \in Event
    BY <2>1 DEF Event
  <2> QED
    BY <1>3, <2>2 DEF Record, Session!Record, requestVars
<1>4. CASE Discard(cpu)
  BY <1>4 DEF Discard, Session!Discard, probeVars, requestVars
<1> QED
  BY <1>1, <1>2, <1>3, <1>4 DEF Probe

\* The steps of a request that leave the capture alone.
Quiet(c) ==
    \/ Ask(c) \/ Leave(c) \/ Arrive(c) \/ StartRefused(c) \/ EndRefused(c)
    \/ Reply(c) \/ Dump(c) \/ DumpDone(c) \/ Answer(c)

LEMMA QuietEffect ==
    ASSUME NEW c \in Clients, Quiet(c)
    PROVE  UNCHANGED captureVars
  BY DEF Quiet, captureVars, Ask, Leave, Arrive, StartRefused, EndRefused, Reply, Dump,
         DumpDone, Answer

\* The steps of a request that change it.
Loud(c) ==
    \/ StartOpens(c) \/ Clear(c) \/ StartRuns(c) \/ EndCloses(c) \/ Abandon(c)
    \/ Collect(c) \/ EndFinishes(c) \/ EndFails(c)

LEMMA LoudEffect ==
    ASSUME NEW c \in Clients, Loud(c)
    PROVE  UNCHANGED <<inflight, probeVars>>
  BY DEF Loud, StartOpens, Clear, StartRuns, EndCloses, Abandon, Collect, EndFinishes, EndFails,
         Session!Open, Session!Clear, Session!Run, Session!Close, Session!Abandon,
         Session!Collect, Session!Finish

LEMMA NextCases ==
    ASSUME [Next]_vars
    PROVE  \/ \E cpu \in CPU : Probe(cpu)
           \/ \E c \in Clients : Quiet(c) \/ Loud(c)
           \/ UNCHANGED <<captureVars, requestVars>>
  BY DEF Next, Probe, Execute, Serve, Quiet, Loud, vars, captureVars, requestVars

----------------------------------------------------------------------------
(* Types.                                                                  *)

LEMMA TypeInit == Init => TypeInv
<1> SUFFICES ASSUME Init PROVE TypeInv
  OBVIOUS
<1>1. <<>> \in Seq(Event) /\ Len(<<>>) = 0
  BY RangeEmpty
<1>2. 0 \in 0 .. NumCPUs /\ 0 \in 0 .. MaxTime /\ "idle" \in PC
  BY DEF PC
<1> QED
  BY <1>1, <1>2, Values DEF Init, Session!Init, TypeInv

LEMMA ProbeTypes == ASSUME TypeInv, NEW cpu \in CPU, Probe(cpu) PROVE TypeInv'
<1>1. UNCHANGED <<phase, visited, result, requestVars>>
  BY ProbeEffect
<1>2. inflight' \subseteq CPU
  BY ProbeEffect DEF TypeInv
<1>3. clock' \in 0 .. MaxTime /\ stamp' \in [CPU -> 0 .. MaxTime]
  <2>1. \/ UNCHANGED <<clock, stamp>>
        \/ clock' \in 1 .. MaxTime /\ stamp' = [stamp EXCEPT ![cpu] = clock']
        \/ stamp' = [stamp EXCEPT ![cpu] = 0] /\ UNCHANGED clock
    BY ProbeEffect
  <2> QED
    BY <2>1 DEF TypeInv
<1>4. log' \in [CPU -> Seq(Event)]
  <2>1. \/ UNCHANGED log
        \/ \E e \in Event : log' = [log EXCEPT ![cpu] = Append(@, e)]
    BY ProbeEffect
  <2>2. ASSUME NEW e \in Event, log' = [log EXCEPT ![cpu] = Append(@, e)]
        PROVE  log' \in [CPU -> Seq(Event)]
    <3>1. log[cpu] \in Seq(Event) /\ log \in [CPU -> Seq(Event)]
      BY DEF TypeInv
    <3>2. Append(log[cpu], e) \in Seq(Event)
      BY <3>1, RangeAppend
    <3> QED
      BY <2>2, <3>1, <3>2
  <2> QED
    BY <2>1, <2>2 DEF TypeInv
<1> QED
  BY <1>1, <1>2, <1>3, <1>4 DEF TypeInv, requestVars, dumpVars, historyVars

LEMMA QuietTypes == ASSUME TypeInv, NEW c \in Clients, Quiet(c) PROVE TypeInv'
<1>1. UNCHANGED captureVars
  BY QuietEffect
<1>2. CASE Ask(c) \/ Leave(c) \/ Arrive(c) \/ StartRefused(c) \/ EndRefused(c) \/ Reply(c)
  <2>1. /\ UNCHANGED <<dumpVars, atClose>> /\ conn' \in {conn, "nobody"}
        /\ \E place \in PC : pc' = [pc EXCEPT ![c] = place]
        /\ since' = since \/ since' = [since EXCEPT ![c] = 0]
    BY <1>2 DEF Ask, Leave, Arrive, StartRefused, EndRefused, Reply, GoTo, PC, historyVars
  <2>2. pc' \in [Clients -> PC] /\ conn' \in Clients \cup {"nobody"}
    BY <2>1 DEF TypeInv
  <2>3. since' \in [Clients -> 0 .. MaxTime]
    BY <2>1 DEF TypeInv
  <2> QED
    BY <1>1, <2>1, <2>2, <2>3 DEF TypeInv, captureVars, sessionVars, probeVars, dumpVars
<1>3. CASE Dump(c)
  <2>1. /\ UNCHANGED <<conn, pc, cap, historyVars>> /\ index < Len(cap)
        /\ events' = [events EXCEPT ![c] = @ \o SubSeq(cap, index + 1, Upto)]
        /\ index' = Upto
    BY <1>3 DEF Dump
  <2>2. Upto \in index + 1 .. Len(cap)
    BY <2>1 DEF Upto, TypeInv
  <2>3. SubSeq(cap, index + 1, Upto) \in Seq(Event)
    BY <2>2 DEF TypeInv
  <2>4. events[c] \o SubSeq(cap, index + 1, Upto) \in Seq(Event)
    BY <2>3, RangeConcat DEF TypeInv
  <2>5. index' \in 0 .. Len(cap)
    BY <2>1, <2>2 DEF TypeInv
  <2> QED
    BY <1>1, <2>1, <2>4, <2>5 DEF TypeInv, captureVars, sessionVars, probeVars, historyVars
<1>4. CASE DumpDone(c)
  <2>1. \A t \in Sorted(events[c]) : t \in Seq(Event)
    BY Shuffled DEF TypeInv
  <2>2. /\ UNCHANGED historyVars /\ conn' = "nobody" /\ cap' = <<>> /\ index' = 0
        /\ \E t \in Sorted(events[c]) : events' = [events EXCEPT ![c] = t]
        /\ pc' = [pc EXCEPT ![c] = "answer"]
    BY <1>4 DEF DumpDone, GoTo
  <2>3. events' \in [Clients -> Seq(Event)]
    BY <2>1, <2>2 DEF TypeInv
  <2>4. cap' \in Seq(Event) /\ index' \in 0 .. Len(cap')
    BY <2>2, RangeEmpty
  <2>5. pc' \in [Clients -> PC]
    BY <2>2 DEF TypeInv, PC
  <2> QED
    BY <1>1, <2>2, <2>3, <2>4, <2>5 DEF TypeInv, captureVars, sessionVars, probeVars, historyVars
<1>5. CASE Answer(c)
  <2>1. events' \in [Clients -> Seq(Event)] /\ atClose' \in [Clients -> SUBSET Event]
        /\ pc' \in [Clients -> PC]
    BY <1>5, RangeEmpty DEF Answer, GoTo, TypeInv, PC
  <2>2. UNCHANGED <<conn, cap, index, since>>
    BY <1>5 DEF Answer
  <2> QED
    BY <1>1, <2>1, <2>2 DEF TypeInv, captureVars, sessionVars, probeVars
<1> QED
  BY <1>2, <1>3, <1>4, <1>5 DEF Quiet

LEMMA LoudTypes == ASSUME TypeInv, NEW c \in Clients, Loud(c) PROVE TypeInv'
<1>1. UNCHANGED <<inflight, probeVars, events>>
  BY LoudEffect DEF Loud, StartOpens, Clear, StartRuns, EndCloses, Abandon, Collect, EndFinishes,
                    EndFails, dumpVars
<1>2. <<>> \in Seq(Event) /\ Len(<<>>) = 0
  BY RangeEmpty
<1>3. phase' \in {"WAITING", "PREPARING", "RUNNING", "DONE"}
  BY DEF TypeInv, Loud, StartOpens, Clear, StartRuns, EndCloses, Abandon, Collect, EndFinishes,
         EndFails, Session!Open, Session!Clear, Session!Run, Session!Close, Session!Abandon,
         Session!Collect, Session!Finish
<1>4. /\ conn' \in Clients \cup {"nobody"} /\ since' \in [Clients -> 0 .. MaxTime]
      /\ pc' = pc \/ \E place \in PC : pc' = [pc EXCEPT ![c] = place]
  BY DEF TypeInv, Loud, StartOpens, Clear, StartRuns, EndCloses, Abandon, Collect, EndFinishes,
         EndFails, GoTo, PC, historyVars
<1>5. pc' \in [Clients -> PC]
  BY <1>4 DEF TypeInv
<1>6. cap' \in Seq(Event) /\ index' \in 0 .. Len(cap')
  <2>1. (cap' = cap /\ index' = index) \/ (cap' = result /\ index' = 0)
    BY DEF Loud, StartOpens, Clear, StartRuns, EndCloses, Abandon, Collect, EndFinishes,
           EndFails, dumpVars
  <2> QED
    BY <2>1 DEF TypeInv
<1>7. atClose' \in [Clients -> SUBSET Event]
  <2>1. \A cpu \in CPU : RangeOf(log[cpu]) \subseteq Event
    BY DEF TypeInv, RangeOf
  <2>2. \/ UNCHANGED atClose \/ atClose' = [atClose EXCEPT ![c] = {}]
        \/ atClose' = [atClose EXCEPT ![c] = UNION {RangeOf(log[cpu]) : cpu \in CPU}]
    BY DEF Loud, StartOpens, Clear, StartRuns, EndCloses, Abandon, Collect, EndFinishes,
           EndFails, historyVars
  <2> DEFINE all == UNION {RangeOf(log[cpu]) : cpu \in CPU}
  <2>3. all \in SUBSET Event /\ {} \in SUBSET Event
    BY <2>1
  <2>4. \/ UNCHANGED atClose \/ \E set \in SUBSET Event : atClose' = [atClose EXCEPT ![c] = set]
    BY <2>2, <2>3
  <2> QED
    BY <2>4 DEF TypeInv
<1>8. visited' \in 0 .. NumCPUs
  <2>1. visited' \in {visited, 0, NumCPUs} \/ (visited < NumCPUs /\ visited' = visited + 1)
    BY DEF Loud, StartOpens, Clear, StartRuns, EndCloses, Abandon, Collect, EndFinishes,
           EndFails, Session!Open, Session!Clear, Session!Run, Session!Close, Session!Abandon,
           Session!Collect, Session!Finish
  <2> QED
    BY <2>1, Values DEF TypeInv
<1>9. log' \in [CPU -> Seq(Event)]
  <2>1. UNCHANGED log \/ log' = [log EXCEPT ![visited] = <<>>]
    BY DEF Loud, StartOpens, Clear, StartRuns, EndCloses, Abandon, Collect, EndFinishes,
           EndFails, Session!Open, Session!Clear, Session!Run, Session!Close, Session!Abandon,
           Session!Collect, Session!Finish
  <2> QED
    BY <1>2, <2>1 DEF TypeInv
<1>10. result' \in Seq(Event)
  <2>1. CASE Collect(c)
    <3>1. visited \in CPU /\ log[visited] \in Seq(Event) /\ result \in Seq(Event)
      BY <2>1, Values DEF Collect, Session!Collect, TypeInv
    <3>2. result \o log[visited] \in Seq(Event)
      BY <3>1, RangeConcat
    <3>3. Len(result \o log[visited]) > Limit =>
            SubSeq(result \o log[visited], 1, Limit) \in Seq(Event)
      BY <3>2, RangeFirst
    <3>4. Len(result \o log[visited]) \in Nat
      BY <3>2
    <3>5. \/ result' = result \o log[visited]
          \/ /\ Len(result \o log[visited]) > Limit
             /\ result' = SubSeq(result \o log[visited], 1, Limit)
      BY <2>1, <3>4 DEF Collect, Session!Collect
    <3> QED
      BY <3>2, <3>3, <3>5
  <2>2. CASE ~Collect(c)
    <3>1. result' = result \/ result' = <<>>
      BY <2>2 DEF Loud, StartOpens, Clear, StartRuns, EndCloses, Abandon, EndFinishes,
           EndFails, Session!Open, Session!Clear, Session!Run, Session!Close, Session!Abandon,
           Session!Finish
    <3> QED
      BY <1>2, <3>1 DEF TypeInv
  <2> QED
    BY <2>1, <2>2
<1> QED
  BY <1>1, <1>3, <1>4, <1>5, <1>6, <1>7, <1>8, <1>9, <1>10 DEF TypeInv, probeVars

LEMMA TypeStep == TypeInv /\ [Next]_vars => TypeInv'
<1>1. TypeInv /\ UNCHANGED <<captureVars, requestVars>> => TypeInv'
  BY DEF TypeInv, captureVars, sessionVars, probeVars, requestVars, dumpVars, historyVars
<1> QED
  BY <1>1, NextCases, ProbeTypes, QuietTypes, LoudTypes

----------------------------------------------------------------------------
(* The socket.                                                             *)

\* A request changes nothing that is another client's, and while it is the other's turn
\* neither the capture nor the dump.
LEMMA Others ==
    ASSUME TypeInv, ConnInv, NEW c \in Clients, Quiet(c) \/ Loud(c), NEW d \in Clients, d # c
    PROVE  /\ pc'[d] = pc[d] /\ events'[d] = events[d]
           /\ since'[d] = since[d] /\ atClose'[d] = atClose[d]
           /\ pc[d] \in Inside => UNCHANGED <<captureVars, conn, cap, index>>
<1>1. pc \in [Clients -> PC] /\ events \in [Clients -> Seq(Event)]
      /\ since \in [Clients -> 0 .. MaxTime] /\ atClose \in [Clients -> SUBSET Event]
  BY DEF TypeInv
<1>2. pc'[d] = pc[d]
  BY <1>1 DEF Quiet, Loud, Ask, Leave, Arrive, StartRefused, EndRefused, Reply, Dump, DumpDone,
     Answer, StartOpens, Clear, StartRuns, EndCloses, Abandon, Collect, EndFinishes, EndFails, GoTo
<1>3. events'[d] = events[d]
  BY <1>1 DEF Quiet, Loud, Ask, Leave, Arrive, StartRefused, EndRefused, Reply, Dump, DumpDone,
     Answer, StartOpens, Clear, StartRuns, EndCloses, Abandon, Collect, EndFinishes, EndFails,
     dumpVars
<1>4. since'[d] = since[d]
  BY <1>1 DEF Quiet, Loud, Ask, Leave, Arrive, StartRefused, EndRefused, Reply, Dump, DumpDone,
     Answer, StartOpens, Clear, StartRuns, EndCloses, Abandon, Collect, EndFinishes, EndFails,
     historyVars
<1>5. atClose'[d] = atClose[d]
  BY <1>1 DEF Quiet, Loud, Ask, Leave, Arrive, StartRefused, EndRefused, Reply, Dump, DumpDone,
     Answer, StartOpens, Clear, StartRuns, EndCloses, Abandon, Collect, EndFinishes, EndFails,
     historyVars
<1>6. ASSUME pc[d] \in Inside PROVE UNCHANGED <<captureVars, conn, cap, index>>
  <2>1. conn = d /\ conn # "nobody" /\ pc[c] \notin Inside
    BY <1>6, ClientsAssumption DEF ConnInv
  <2>2. Ask(c) \/ Leave(c) \/ Arrive(c) \/ Answer(c)
    BY <2>1 DEF Inside, Quiet, Loud, StartRefused, EndRefused, Reply, Dump, DumpDone,
       StartOpens, Clear, StartRuns, EndCloses, Abandon, Collect, EndFinishes, EndFails
  <2> QED
    BY <2>2 DEF Ask, Leave, Arrive, Answer, captureVars, dumpVars
<1> QED
  BY <1>2, <1>3, <1>4, <1>5, <1>6

LEMMA ConnInit == Init => ConnInv
  BY ClientsAssumption DEF Init, Session!Init, ConnInv, Inside

\* A step of a request keeps to its turn, and the phase goes with it.
LEMMA ConnQuiet == ASSUME TypeInv, ConnInv, NEW c \in Clients, Quiet(c) PROVE ConnInv'
<1>1. \A d \in Clients : d # c => pc'[d] = pc[d] /\ events'[d] = events[d]
  BY Others
<1>2. UNCHANGED <<phase, visited, result>>
  BY QuietEffect DEF captureVars, sessionVars
<1>3. pc \in [Clients -> PC] /\ events \in [Clients -> Seq(Event)]
  BY DEF TypeInv
<1>4. CASE Dump(c)
  <2>1. pc[c] = "dump" /\ UNCHANGED <<pc, conn>>
    BY <1>4 DEF Dump
  <2> QED
    BY <1>1, <1>2, <2>1 DEF ConnInv
<1>5. CASE DumpDone(c) \/ Reply(c)
  <2>1. /\ pc[c] \in {"dump", "reply"} /\ conn' = "nobody"
        /\ \/ pc'[c] = "answer"
           \/ pc[c] = "reply" /\ pc'[c] = "idle" /\ events' = events
    BY <1>3, <1>5 DEF DumpDone, Reply, GoTo, dumpVars
  <2> QED
    BY <1>1, <1>2, <2>1 DEF ConnInv, Inside
<1>6. CASE Ask(c) \/ Leave(c) \/ Arrive(c) \/ StartRefused(c) \/ EndRefused(c)
  <2>1. /\ pc[c] \in {"idle", "gone", "start", "end"} /\ pc'[c] \in {"idle", "gone", "start", "end"}
        /\ UNCHANGED <<conn, events>>
    BY <1>3, <1>6 DEF Ask, Leave, Arrive, StartRefused, EndRefused, GoTo, dumpVars
  <2> QED
    BY <1>1, <1>2, <2>1 DEF ConnInv, Inside
<1>7. CASE Answer(c)
  <2>1. pc[c] = "answer" /\ pc'[c] = "idle" /\ events'[c] = <<>> /\ UNCHANGED conn
    BY <1>3, <1>7 DEF Answer, GoTo
  <2> QED
    BY <1>1, <1>2, <2>1 DEF ConnInv, Inside
<1> QED
  BY <1>4, <1>5, <1>6, <1>7 DEF Quiet

LEMMA ConnLoud == ASSUME TypeInv, ConnInv, NEW c \in Clients, Loud(c) PROVE ConnInv'
<1>1. /\ \A d \in Clients : d # c => pc'[d] = pc[d]
      /\ UNCHANGED events
  BY Others DEF Loud, StartOpens, Clear, StartRuns, EndCloses, Abandon, Collect, EndFinishes,
                EndFails, dumpVars
<1>2. pc \in [Clients -> PC]
  BY DEF TypeInv
<1>3. CASE StartOpens(c)
  <2>1. /\ pc[c] = "start" /\ pc'[c] = "clear" /\ conn = "nobody" /\ conn' = c
        /\ phase = "WAITING" /\ phase' = "PREPARING" /\ UNCHANGED <<visited, result>>
    BY <1>2, <1>3 DEF StartOpens, Session!Open, GoTo
  <2> QED
    BY <1>1, <2>1 DEF ConnInv, Inside
<1>4. CASE Clear(c)
  <2>1. phase = "PREPARING" /\ UNCHANGED <<phase, pc, conn, result>>
    BY <1>4 DEF Clear, Session!Clear
  <2> QED
    BY <1>1, <2>1 DEF ConnInv
<1>5. CASE StartRuns(c)
  <2>1. /\ pc[c] = "clear" /\ pc'[c] = "reply" /\ UNCHANGED <<conn, result>>
        /\ phase = "PREPARING" /\ phase' = "RUNNING" /\ visited' = 0
    BY <1>2, <1>5 DEF StartRuns, Session!Run, GoTo
  <2> QED
    BY <1>1, <2>1 DEF ConnInv, Inside
<1>6. CASE EndCloses(c)
  <2>1. /\ pc[c] = "end" /\ pc'[c] = "collect" /\ conn = "nobody" /\ conn' = c
        /\ phase = "RUNNING" /\ phase' = "DONE" /\ UNCHANGED <<visited, result>>
    BY <1>2, <1>6 DEF EndCloses, Session!Close, GoTo
  <2> QED
    BY <1>1, <2>1 DEF ConnInv, Inside
<1>7. CASE Abandon(c)
  <2>1. /\ pc[c] = "collect" /\ pc'[c] = "abandoned" /\ UNCHANGED conn
        /\ phase = "DONE" /\ UNCHANGED phase
    BY <1>2, <1>7 DEF Abandon, Session!Abandon, GoTo
  <2> QED
    BY <1>1, <2>1 DEF ConnInv, Inside
<1>8. CASE Collect(c)
  <2>1. phase = "DONE" /\ UNCHANGED <<phase, pc, conn>>
    BY <1>8 DEF Collect, Session!Collect
  <2> QED
    BY <1>1, <2>1 DEF ConnInv
<1>9. CASE EndFinishes(c) \/ EndFails(c)
  <2>1. /\ pc[c] \in {"collect", "abandoned"}
        /\ \/ pc'[c] = "dump" /\ UNCHANGED conn
           \/ pc'[c] = "idle" /\ conn' = "nobody"
        /\ phase = "DONE" /\ phase' = "WAITING" /\ visited' = 0 /\ result' = <<>>
    BY <1>2, <1>9 DEF EndFinishes, EndFails, Session!Finish, GoTo
  <2> QED
    BY <1>1, <2>1, ClientsAssumption DEF ConnInv, Inside
<1> QED
  BY <1>3, <1>4, <1>5, <1>6, <1>7, <1>8, <1>9 DEF Loud

LEMMA ConnStep == TypeInv /\ ConnInv /\ [Next]_vars => ConnInv'
<1>1. \A cpu \in CPU : TypeInv /\ ConnInv /\ Probe(cpu) => ConnInv'
  <2> SUFFICES ASSUME TypeInv, ConnInv, NEW cpu \in CPU, Probe(cpu) PROVE ConnInv'
    OBVIOUS
  <2>1. UNCHANGED <<phase, visited, result, requestVars>>
    BY ProbeEffect
  <2> QED
    BY <2>1 DEF ConnInv, requestVars, dumpVars
<1>2. ConnInv /\ UNCHANGED <<captureVars, requestVars>> => ConnInv'
  BY DEF ConnInv, captureVars, sessionVars, requestVars, dumpVars
<1> QED
  BY <1>1, <1>2, NextCases, ConnQuiet, ConnLoud

----------------------------------------------------------------------------
(* The logs.                                                               *)

\* What Clear() does, the only step of a request that changes a log.
LEMMA LogEffect ==
    ASSUME TypeInv, NEW c \in Clients, Loud(c)
    PROVE  \/ UNCHANGED log
           \/ /\ Clear(c) /\ phase = "PREPARING" /\ UNCHANGED phase /\ visited' = visited + 1
              /\ visited \in CPU /\ stamp[visited] = 0 /\ log' = [log EXCEPT ![visited] = <<>>]
<1>1. CASE Clear(c)
  BY <1>1, Values DEF Clear, Session!Clear, TypeInv
<1>2. CASE ~Clear(c)
  BY <1>2 DEF Loud, StartOpens, StartRuns, EndCloses, Abandon, Collect, EndFinishes, EndFails,
         Session!Open, Session!Run, Session!Close, Session!Abandon, Session!Collect, Session!Finish
<1> QED
  BY <1>1, <1>2

LEMMA EventTimes ==
    ASSUME TypeInv, NEW cpu \in CPU, NEW i \in DOMAIN log[cpu]
    PROVE  log[cpu][i] \in Event /\ log[cpu][i].timestamp \in Nat /\ i \in Nat
<1>1. log[cpu] \in Seq(Event)
  BY DEF TypeInv
<1>2. log[cpu][i] \in Event /\ i \in Nat
  BY <1>1
<1> QED
  BY <1>2 DEF Event

LEMMA LogProbe == ASSUME TypeInv, LogInv, NEW cpu \in CPU, Probe(cpu) PROVE LogInv'
<1> SUFFICES ASSUME NEW k \in CPU PROVE Log(k)'
  BY DEF LogInv
<1>1. Log(k)
  BY DEF LogInv
<1>2. /\ log \in [CPU -> Seq(Event)] /\ stamp \in [CPU -> 0 .. MaxTime]
      /\ clock \in Nat /\ MaxTime \in Nat
      /\ \A i \in DOMAIN log[k] : log[k][i].timestamp \in Nat
  BY EventTimes DEF TypeInv
<1>3. /\ k # cpu => log'[k] = log[k] /\ stamp'[k] = stamp[k] /\ (k \in inflight <=> k \in inflight')
      /\ clock' \in {clock, clock + 1}
  <2>1. /\ log' = log \/ \E e : log' = [log EXCEPT ![cpu] = e]
        /\ stamp' = stamp \/ \E e : stamp' = [stamp EXCEPT ![cpu] = e]
        /\ inflight' \in {inflight, inflight \cup {cpu}, inflight \ {cpu}}
        /\ clock' \in {clock, clock + 1}
    BY ProbeEffect
  <2> QED
    BY <1>2, <2>1
<1>4. CASE k # cpu
  BY <1>1, <1>2, <1>3, <1>4 DEF Log
<1>5. CASE k = cpu
  <2>1. CASE UNCHANGED <<log, clock, stamp>> /\ (stamp[k] = 0 \/ inflight' = inflight \cup {k})
    BY <1>1, <2>1 DEF Log
  <2>2. CASE /\ UNCHANGED <<log, clock, stamp>> /\ Len(log[k]) = Room
    BY <1>1, <1>2, <2>2 DEF Log
  <2>3. CASE /\ cpu \in inflight /\ Len(log[cpu]) < Room
             /\ clock' \in {clock, clock + 1} /\ clock' \in 1 .. MaxTime
             /\ \A i \in DOMAIN log[cpu] : log[cpu][i].timestamp < clock'
             /\ stamp' = [stamp EXCEPT ![cpu] = clock']
             /\ UNCHANGED <<log, inflight>>
    <3>1. stamp'[k] = clock' /\ log'[k] = log[k] /\ inflight' = inflight /\ clock' \in Nat
      BY <1>2, <1>5, <2>3
    <3> QED
      BY <1>1, <1>2, <1>5, <2>3, <3>1 DEF Log
  <2>4. CASE /\ stamp[cpu] # 0
             /\ [cpu |-> cpu, timestamp |-> stamp[cpu]] \in Event
             /\ log' = [log EXCEPT ![cpu] = Append(@, [cpu |-> cpu, timestamp |-> stamp[cpu]])]
             /\ stamp' = [stamp EXCEPT ![cpu] = 0]
             /\ UNCHANGED clock
    <3> DEFINE e == [cpu |-> k, timestamp |-> stamp[k]]
    <3>1. /\ stamp'[k] = 0 /\ log'[k] = Append(log[k], e) /\ clock' = clock
          /\ stamp[k] # 0 /\ e \in Event /\ log[k] \in Seq(Event)
          /\ e.cpu = k /\ e.timestamp = stamp[k]
      BY <1>2, <1>5, <2>4
    <3> HIDE DEF e
    <3>2. /\ \A i \in DOMAIN log[k] : log'[k][i] = log[k][i]
          /\ log'[k][Len(log[k]) + 1] = e
          /\ \A i \in DOMAIN log'[k] : i \in DOMAIN log[k] \/ i = Len(log[k]) + 1
      BY <3>1, RangeAppend
    <3>3. DOMAIN log[k] = 1 .. Len(log[k]) /\ Len(log[k]) \in Nat
      BY <3>1
    <3>4. ASSUME NEW i \in DOMAIN log'[k]
          PROVE  log'[k][i].cpu = k /\ log'[k][i].timestamp <= clock'
      BY <1>1, <3>1, <3>2 DEF Log
    <3>5. ASSUME NEW i \in DOMAIN log'[k], NEW j \in DOMAIN log'[k], i < j
          PROVE  log'[k][i].timestamp < log'[k][j].timestamp
      <4>1. i \in DOMAIN log[k]
        BY <3>2, <3>3, <3>5
      <4>2. CASE j \in DOMAIN log[k]
        BY <1>1, <3>2, <3>5, <4>1, <4>2 DEF Log
      <4>3. CASE j = Len(log[k]) + 1
        BY <1>1, <3>1, <3>2, <4>1, <4>3 DEF Log
      <4> QED
        BY <3>2, <4>2, <4>3
    <3> QED
      BY <3>1, <3>4, <3>5 DEF Log
  <2> QED
    BY <1>1, <1>2, <1>5, <2>1, <2>2, <2>3, <2>4, ProbeEffect DEF Log
<1> QED
  BY <1>4, <1>5

LEMMA LogStep == TypeInv /\ LogInv /\ [Next]_vars => LogInv'
<1> SUFFICES ASSUME TypeInv, LogInv, [Next]_vars PROVE LogInv'
  OBVIOUS
<1>1. ASSUME NEW c \in Clients, Loud(c) PROVE LogInv'
  <2>1. UNCHANGED <<inflight, clock, stamp>>
    BY <1>1, LoudEffect DEF probeVars
  <2>2. CASE UNCHANGED log
    BY <2>1, <2>2 DEF LogInv, Log
  <2>3. CASE /\ visited \in CPU /\ stamp[visited] = 0
             /\ log' = [log EXCEPT ![visited] = <<>>]
    <3>1. log'[visited] = <<>> /\ \A k \in CPU : k # visited => log'[k] = log[k]
      BY <2>3 DEF TypeInv
    <3>2. DOMAIN log'[visited] = {}
      BY <3>1
    <3>3. ASSUME NEW k \in CPU PROVE Log(k)'
      BY <2>1, <2>3, <3>1, <3>2 DEF Log, LogInv
    <3> QED
      BY <3>3 DEF LogInv
  <2> QED
    BY <1>1, <2>2, <2>3, LogEffect
<1>2. UNCHANGED captureVars => LogInv'
  BY DEF LogInv, Log, captureVars, sessionVars, probeVars
<1> QED
  BY <1>1, <1>2, NextCases, LogProbe, QuietEffect

\* An event is in the log of its own CPU, and only once.
LEMMA LogFacts ==
    ASSUME TypeInv, LogInv, NEW cpu \in CPU
    PROVE  /\ \A e \in RangeOf(log[cpu]) : e.cpu = cpu /\ e \in Event
           /\ Distinct(log[cpu])
<1>1. \A i \in DOMAIN log[cpu] : log[cpu][i] \in Event /\ log[cpu][i].timestamp \in Nat /\ i \in Nat
  BY EventTimes
<1>2. Distinct(log[cpu])
  <2> SUFFICES ASSUME NEW i \in DOMAIN log[cpu], NEW j \in DOMAIN log[cpu],
                      log[cpu][i] = log[cpu][j], i # j
               PROVE  FALSE
    BY DEF Distinct
  <2>1. i < j \/ j < i
    BY <1>1
  <2> QED
    BY <1>1, <2>1 DEF LogInv, Log
<1> QED
  BY <1>1, <1>2 DEF LogInv, Log, RangeOf

----------------------------------------------------------------------------
(* What is in a log that has been emptied.                                 *)

LEMMA FreshProbe == ASSUME TypeInv, FreshInv, NEW cpu \in CPU, Probe(cpu) PROVE FreshInv'
<1>1. UNCHANGED <<phase, visited, since>>
  BY ProbeEffect DEF requestVars, historyVars
<1>2. /\ log \in [CPU -> Seq(Event)] /\ stamp \in [CPU -> 0 .. MaxTime]
      /\ clock \in Nat /\ MaxTime \in Nat /\ since \in [Clients -> 0 .. MaxTime]
  BY DEF TypeInv
<1>3. clock' \in {clock, clock + 1}
  BY ProbeEffect
<1>4. ASSUME NEW c \in Clients PROVE since'[c] <= clock'
  <2>1. since[c] <= clock /\ since[c] \in Nat
    BY <1>2 DEF FreshInv
  <2> QED
    BY <1>1, <1>2, <1>3, <2>1
<1>5. ASSUME NEW c \in Clients, NEW k \in CPU, Cleared(k)'
      PROVE  Younger(k, since[c])'
  <2>1. Younger(k, since[c]) /\ since[c] <= clock /\ since[c] \in Nat
    BY <1>1, <1>2, <1>5 DEF FreshInv, Younger, Cleared
  <2>2. \/ UNCHANGED <<log, stamp>>
        \/ /\ UNCHANGED log /\ stamp' = [stamp EXCEPT ![cpu] = clock']
        \/ /\ stamp[cpu] # 0 /\ stamp' = [stamp EXCEPT ![cpu] = 0]
           /\ [cpu |-> cpu, timestamp |-> stamp[cpu]] \in Event
           /\ log' = [log EXCEPT ![cpu] = Append(@, [cpu |-> cpu, timestamp |-> stamp[cpu]])]
    BY ProbeEffect
  <2>3. CASE UNCHANGED <<log, stamp>>
    BY <1>1, <2>1, <2>3 DEF Younger
  <2>4. CASE /\ UNCHANGED log /\ stamp' = [stamp EXCEPT ![cpu] = clock']
    <3>1. stamp'[k] \in {stamp[k], clock'} /\ clock' >= since[c]
      BY <1>2, <1>3, <2>1, <2>4
    <3> QED
      BY <1>1, <2>1, <2>4, <3>1 DEF Younger
  <2>5. CASE /\ stamp[cpu] # 0 /\ stamp' = [stamp EXCEPT ![cpu] = 0]
             /\ [cpu |-> cpu, timestamp |-> stamp[cpu]] \in Event
             /\ log' = [log EXCEPT ![cpu] = Append(@, [cpu |-> cpu, timestamp |-> stamp[cpu]])]
    <3>1. CASE k # cpu
      <4>1. log'[k] = log[k] /\ stamp'[k] = stamp[k]
        BY <1>2, <2>5, <3>1
      <4> QED
        BY <1>1, <2>1, <4>1 DEF Younger
    <3>2. CASE k = cpu
      <4> DEFINE e == [cpu |-> k, timestamp |-> stamp[k]]
      <4>1. /\ log'[k] = Append(log[k], e) /\ stamp'[k] = 0 /\ log[k] \in Seq(Event)
            /\ e \in Event /\ e.timestamp = stamp[k] /\ stamp[k] # 0
        BY <1>2, <2>5, <3>2
      <4> HIDE DEF e
      <4>2. RangeOf(log[k])' = RangeOf(log[k]) \cup {e}
        <5>1. RangeOf(Append(log[k], e)) = RangeOf(log[k]) \cup {e}
          BY <4>1, RangeAppend
        <5> QED
          BY <4>1, <5>1 DEF RangeOf
      <4> QED
        BY <1>1, <2>1, <4>1, <4>2 DEF Younger
    <3> QED
      BY <3>1, <3>2
  <2> QED
    BY <2>2, <2>3, <2>4, <2>5
<1> QED
  BY <1>4, <1>5 DEF FreshInv, Younger

LEMMA FreshQuiet ==
    ASSUME TypeInv, ConnInv, FreshInv, NEW c \in Clients, Quiet(c) PROVE FreshInv'
<1>1. UNCHANGED captureVars
  BY QuietEffect
<1>2. since' = since \/ since' = [since EXCEPT ![c] = 0]
  BY DEF Quiet, Ask, Leave, Arrive, StartRefused, EndRefused, Reply, Dump, DumpDone, Answer,
         historyVars
<1>3. /\ log \in [CPU -> Seq(Event)] /\ stamp \in [CPU -> 0 .. MaxTime]
      /\ clock \in Nat /\ MaxTime \in Nat /\ since \in [Clients -> 0 .. MaxTime]
  BY DEF TypeInv
<1>4. ASSUME NEW d \in Clients PROVE since'[d] = since[d] \/ since'[d] = 0
  BY <1>2, <1>3
<1>5. ASSUME NEW k \in CPU PROVE Younger(k, 0) /\ clock >= 0
  <2>1. \A i \in DOMAIN log[k] : log[k][i].timestamp >= 0
    BY EventTimes
  <2>2. stamp[k] >= 0
    BY <1>3
  <2> QED
    BY <1>3, <2>1, <2>2 DEF Younger, RangeOf
<1>6. ASSUME NEW d \in Clients PROVE since'[d] <= clock'
  BY <1>1, <1>3, <1>4 DEF FreshInv, captureVars, probeVars
<1>7. ASSUME NEW d \in Clients, NEW k \in CPU, Cleared(k)' PROVE Younger(k, since[d])'
  <2>1. Cleared(k)
    BY <1>1, <1>7 DEF Cleared, captureVars, sessionVars
  <2>2. Younger(k, since'[d])
    BY <1>4, <1>5, <2>1 DEF FreshInv, Younger
  <2> QED
    BY <1>1, <2>2 DEF Younger, captureVars, sessionVars, probeVars
<1> QED
  BY <1>6, <1>7 DEF FreshInv, Younger

LEMMA FreshLoud ==
    ASSUME TypeInv, ConnInv, FreshInv, NEW c \in Clients, Loud(c) PROVE FreshInv'
<1>1. UNCHANGED <<clock, stamp>>
  BY LoudEffect DEF probeVars
<1>2. CASE StartOpens(c)
  <2>1. /\ since' = [since EXCEPT ![c] = clock] /\ phase' = "PREPARING" /\ visited' = 0
    BY <1>2 DEF StartOpens, Session!Open, ConnInv
  <2>2. \A k \in CPU : ~Cleared(k)'
    BY <2>1, Values DEF Cleared
  <2>3. ASSUME NEW d \in Clients PROVE since'[d] <= clock'
    <3>1. clock \in Nat /\ since'[d] \in {since[d], clock}
      BY <2>1 DEF TypeInv
    <3> QED
      BY <1>1, <3>1 DEF FreshInv
  <2> QED
    BY <2>2, <2>3 DEF FreshInv
<1>3. CASE ~StartOpens(c)
  <2>1. since' = since
    BY <1>3 DEF Loud, Clear, StartRuns, EndCloses, Abandon, Collect, EndFinishes, EndFails,
                historyVars
  <2>2. ASSUME NEW k \in CPU, Cleared(k)', ~(log'[k] = log[k] /\ Cleared(k))
        PROVE  log'[k] = <<>> /\ stamp[k] = 0
    <3>1. CASE Clear(c)
      <4>1. /\ phase = "PREPARING" /\ UNCHANGED phase /\ visited' = visited + 1
            /\ visited \in CPU /\ stamp[visited] = 0 /\ log' = [log EXCEPT ![visited] = <<>>]
        BY <3>1, Values DEF Clear, Session!Clear, TypeInv
      <4>2. log'[visited] = <<>> /\ (k # visited => log'[k] = log[k])
        BY <4>1 DEF TypeInv
      <4>3. k # visited => Cleared(k)
        BY <2>2, <4>1, Values DEF Cleared
      <4> QED
        BY <2>2, <4>1, <4>2, <4>3
    <3>2. CASE StartRuns(c)
      <4>1. phase = "PREPARING" /\ visited = NumCPUs /\ UNCHANGED log
        BY <3>2 DEF StartRuns, Session!Run
      <4> QED
        BY <2>2, <4>1, Values DEF Cleared
    <3>3. CASE EndCloses(c) \/ Abandon(c) \/ Collect(c) \/ EndFinishes(c) \/ EndFails(c)
      <4>1. phase \in {"RUNNING", "DONE"} /\ UNCHANGED log
        BY <3>3 DEF EndCloses, Abandon, Collect, EndFinishes, EndFails, Session!Close,
                    Session!Abandon, Session!Collect, Session!Finish
      <4> QED
        BY <2>2, <4>1 DEF Cleared
    <3> QED
      BY <1>3, <3>1, <3>2, <3>3 DEF Loud
  <2>3. ASSUME NEW d \in Clients, NEW k \in CPU, Cleared(k)' PROVE Younger(k, since[d])'
    <3>1. CASE log'[k] = log[k] /\ Cleared(k)
      BY <1>1, <2>1, <3>1 DEF FreshInv, Younger
    <3>2. CASE ~(log'[k] = log[k] /\ Cleared(k))
      <4>1. log'[k] = <<>> /\ stamp'[k] = 0
        BY <1>1, <2>2, <2>3, <3>2
      <4> QED
        BY <4>1, RangeEmpty DEF Younger, RangeOf
    <3> QED
      BY <3>1, <3>2
  <2> QED
    BY <1>1, <2>1, <2>3 DEF FreshInv, Younger
<1> QED
  BY <1>2, <1>3

LEMMA FreshStep == TypeInv /\ ConnInv /\ FreshInv /\ [Next]_vars => FreshInv'
<1>1. FreshInv /\ UNCHANGED <<captureVars, requestVars>> => FreshInv'
  BY DEF FreshInv, Cleared, Younger, captureVars, sessionVars, probeVars, requestVars, historyVars
<1> QED
  BY <1>1, NextCases, FreshProbe, FreshQuiet, FreshLoud

----------------------------------------------------------------------------
(* What comes late.                                                        *)

\* What a probe does to the logs.
LEMMA ProbeRanges ==
    ASSUME TypeInv, NEW cpu \in CPU, Probe(cpu)
    PROVE  \/ UNCHANGED log /\ inflight' \subseteq inflight \cup {cpu}
              /\ (inflight' \subseteq inflight \/ phase = "RUNNING")
           \/ /\ cpu \in inflight /\ inflight' = inflight \ {cpu}
              /\ \E e \in Event : /\ e.cpu = cpu
                                  /\ RangeOf(log[cpu])' = RangeOf(log[cpu]) \cup {e}
                                  /\ \A k \in CPU : k # cpu => log'[k] = log[k]
<1>1. CASE UNCHANGED log
  <2>1. \/ phase = "RUNNING" /\ inflight' = inflight \cup {cpu}
        \/ inflight' = inflight \/ inflight' = inflight \ {cpu}
    BY ProbeEffect
  <2> QED
    BY <1>1, <2>1
<1>2. CASE log' # log
  <2>1. /\ cpu \in inflight /\ inflight' = inflight \ {cpu}
        /\ [cpu |-> cpu, timestamp |-> stamp[cpu]] \in Event
        /\ log' = [log EXCEPT ![cpu] = Append(@, [cpu |-> cpu, timestamp |-> stamp[cpu]])]
    BY <1>2, ProbeEffect
  <2> DEFINE e == [cpu |-> cpu, timestamp |-> stamp[cpu]]
  <2>2. /\ e \in Event /\ e.cpu = cpu /\ log[cpu] \in Seq(Event)
        /\ log'[cpu] = Append(log[cpu], e) /\ \A k \in CPU : k # cpu => log'[k] = log[k]
    BY <2>1 DEF TypeInv
  <2> HIDE DEF e
  <2>3. RangeOf(Append(log[cpu], e)) = RangeOf(log[cpu]) \cup {e}
    BY <2>2, RangeAppend
  <2>4. RangeOf(log[cpu])' = RangeOf(log[cpu]) \cup {e}
    BY <2>2, <2>3 DEF RangeOf
  <2> QED
    BY <2>1, <2>2, <2>4
<1> QED
  BY <1>1, <1>2

LEMMA EventCPU ==
    ASSUME TypeInv, NEW c \in Clients, NEW e \in atClose[c]
    PROVE  e \in Event /\ e.cpu \in CPU
<1>1. e \in Event
  BY DEF TypeInv
<1> QED
  BY <1>1 DEF Event

LEMMA LateProbe ==
    ASSUME TypeInv, ConnInv, LogInv, LateInv, NEW cpu \in CPU, Probe(cpu) PROVE LateInv'
<1> SUFFICES ASSUME NEW c \in Clients, pc'[c] = "collect" PROVE Late(c)'
  BY DEF LateInv
<1>1. UNCHANGED <<pc, atClose>>
  BY ProbeEffect DEF requestVars, historyVars
<1>2. Late(c) /\ phase = "DONE"
  BY <1>1 DEF LateInv, Late, ConnInv
<1>3. CASE UNCHANGED log /\ inflight' \subseteq inflight
  BY <1>1, <1>2, <1>3 DEF Late
<1>4. CASE /\ cpu \in inflight /\ inflight' = inflight \ {cpu}
           /\ \E e \in Event : /\ e.cpu = cpu
                               /\ RangeOf(log[cpu])' = RangeOf(log[cpu]) \cup {e}
                               /\ \A k \in CPU : k # cpu => log'[k] = log[k]
  <2>1. PICK late \in Event : /\ RangeOf(log[cpu])' = RangeOf(log[cpu]) \cup {late}
                             /\ \A k \in CPU : k # cpu => log'[k] = log[k]
    BY <1>4
  <2>2. \A k \in CPU : k # cpu => RangeOf(log[k])' = RangeOf(log[k])
    BY <2>1 DEF RangeOf
  <2>3. RangeOf(log[cpu]) \subseteq atClose[c]
    BY <1>2, <1>4 DEF Late
  <2>4. ASSUME NEW e \in atClose[c] PROVE e \in RangeOf(log'[e.cpu])
    <3>1. e.cpu \in CPU /\ e \in RangeOf(log[e.cpu])
      BY <1>2, EventCPU DEF Late
    <3> QED
      BY <2>1, <2>2, <3>1 DEF RangeOf
  <2>5. ASSUME NEW k \in CPU, NEW e \in RangeOf(log[k])' \ atClose[c],
               NEW f \in RangeOf(log[k])' \ atClose[c]
        PROVE  e = f
    BY <1>2, <2>1, <2>2, <2>3 DEF Late
  <2>6. ASSUME NEW k \in CPU, k \in inflight' PROVE RangeOf(log[k])' \subseteq atClose[c]
    BY <1>2, <1>4, <2>2, <2>6 DEF Late
  <2> QED
    BY <1>1, <2>4, <2>5, <2>6 DEF Late, RangeOf
<1> QED
  BY <1>2, <1>3, <1>4, ProbeRanges

LEMMA LateRequest ==
    ASSUME TypeInv, ConnInv, LogInv, LateInv, NEW c \in Clients, Quiet(c) \/ Loud(c)
    PROVE  LateInv'
<1> SUFFICES ASSUME NEW d \in Clients, pc'[d] = "collect" PROVE Late(d)'
  BY DEF LateInv
<1>1. UNCHANGED inflight
  BY QuietEffect, LoudEffect DEF captureVars, sessionVars
<1>2. pc \in [Clients -> PC] /\ atClose \in [Clients -> SUBSET Event]
  BY DEF TypeInv
<1>3. CASE EndCloses(c) /\ d = c
  <2>1. /\ UNCHANGED log
        /\ atClose' = [atClose EXCEPT ![c] = UNION {RangeOf(log[cpu]) : cpu \in CPU}]
    BY <1>3 DEF EndCloses, Session!Close
  <2>2. atClose'[d] = UNION {RangeOf(log[cpu]) : cpu \in CPU}
    BY <1>2, <1>3, <2>1
  <2>3. ASSUME NEW e \in atClose'[d] PROVE e \in RangeOf(log[e.cpu])
    <3>1. PICK cpu \in CPU : e \in RangeOf(log[cpu])
      BY <2>2
    <3>2. e.cpu = cpu
      BY <3>1, LogFacts
    <3> QED
      BY <3>1, <3>2
  <2>4. \A cpu \in CPU : RangeOf(log[cpu]) \subseteq atClose'[d]
    BY <2>2
  <2> QED
    BY <1>1, <2>1, <2>3, <2>4 DEF Late
<1>4. CASE ~(EndCloses(c) /\ d = c)
  <2>1. pc[d] = "collect" /\ atClose'[d] = atClose[d]
    <3>1. CASE d # c
      BY <3>1, Others
    <3>2. CASE d = c
      <4>1. \/ UNCHANGED pc /\ UNCHANGED atClose
            \/ \E place \in PC \ {"collect"} : pc' = [pc EXCEPT ![c] = place]
        BY <1>4, <3>2 DEF Quiet, Loud, Ask, Leave, Arrive, StartRefused, EndRefused, Reply, Dump,
           DumpDone, Answer, StartOpens, Clear, StartRuns, Abandon, Collect, EndFinishes, EndFails,
           GoTo, PC, historyVars
      <4> QED
        BY <1>2, <3>2, <4>1
    <3> QED
      BY <3>1, <3>2
  <2>2. UNCHANGED log
    <3>1. phase = "DONE"
      BY <2>1 DEF ConnInv
    <3> QED
      BY <3>1, QuietEffect, LogEffect DEF captureVars, sessionVars
  <2> QED
    BY <1>1, <2>1, <2>2 DEF LateInv, Late
<1> QED
  BY <1>3, <1>4

LEMMA LateStep == TypeInv /\ ConnInv /\ LogInv /\ LateInv /\ [Next]_vars => LateInv'
<1>1. LateInv /\ UNCHANGED <<captureVars, requestVars>> => LateInv'
  BY DEF LateInv, Late, captureVars, sessionVars, requestVars, historyVars
<1> QED
  BY <1>1, NextCases, LateProbe, LateRequest

----------------------------------------------------------------------------
(* What is collected.                                                      *)

LEMMA LogGrows ==
    ASSUME TypeInv, NEW cpu \in CPU, Probe(cpu), NEW k \in CPU
    PROVE  RangeOf(log[k]) \subseteq RangeOf(log[k])'
<1>1. \/ UNCHANGED log
      \/ \E e \in Event : /\ RangeOf(log[cpu])' = RangeOf(log[cpu]) \cup {e}
                          /\ \A i \in CPU : i # cpu => log'[i] = log[i]
  BY ProbeRanges
<1> QED
  BY <1>1 DEF RangeOf

\* Two sequences of different events without a common one.
LEMMA DistinctConcat ==
    ASSUME NEW S, NEW a \in Seq(S), NEW b \in Seq(S), Distinct(a), Distinct(b),
           \A e \in RangeOf(a) : e \notin RangeOf(b)
    PROVE  Distinct(a \o b)
<1> DEFINE t == a \o b
<1>1. /\ \A i \in 1 .. Len(a) : t[i] = a[i]
      /\ \A i \in Len(a) + 1 .. Len(a) + Len(b) : t[i] = b[i - Len(a)]
  BY RangeConcat
<1>2. /\ DOMAIN a = 1 .. Len(a) /\ DOMAIN b = 1 .. Len(b) /\ DOMAIN t = 1 .. Len(a) + Len(b)
      /\ Len(a) \in Nat /\ Len(b) \in Nat
  OBVIOUS
<1> HIDE DEF t
<1>3. \A i \in DOMAIN t : \/ i \in DOMAIN a /\ t[i] = a[i]
                          \/ i - Len(a) \in DOMAIN b /\ t[i] = b[i - Len(a)]
  BY <1>1, <1>2
<1>4. ASSUME NEW i \in DOMAIN t, NEW j \in DOMAIN t, t[i] = t[j] PROVE i = j
  <2>1. CASE i \in DOMAIN a /\ t[i] = a[i] /\ j \in DOMAIN a /\ t[j] = a[j]
    BY <1>4, <2>1 DEF Distinct
  <2>2. CASE /\ i - Len(a) \in DOMAIN b /\ t[i] = b[i - Len(a)]
             /\ j - Len(a) \in DOMAIN b /\ t[j] = b[j - Len(a)]
    <3>1. i - Len(a) = j - Len(a)
      BY <1>4, <2>2 DEF Distinct
    <3> QED
      BY <1>2, <3>1
  <2>3. CASE i \in DOMAIN a /\ t[i] = a[i] /\ j - Len(a) \in DOMAIN b /\ t[j] = b[j - Len(a)]
    BY <1>4, <2>3 DEF RangeOf
  <2>4. CASE j \in DOMAIN a /\ t[j] = a[j] /\ i - Len(a) \in DOMAIN b /\ t[i] = b[i - Len(a)]
    BY <1>4, <2>4 DEF RangeOf
  <2> QED
    BY <1>3, <2>1, <2>2, <2>3, <2>4
<1> QED
  BY <1>4 DEF Distinct, t

LEMMA DistinctFirst ==
    ASSUME NEW S, NEW s \in Seq(S), NEW n \in 0 .. Len(s), Distinct(s)
    PROVE  Distinct(SubSeq(s, 1, n))
<1> DEFINE t == SubSeq(s, 1, n)
<1>1. /\ DOMAIN t = 1 .. n
      /\ \A i \in 1 .. n : t[i] = s[i] /\ i \in DOMAIN s
  OBVIOUS
<1> HIDE DEF t
<1>2. Distinct(t)
  BY <1>1 DEF Distinct
<1> QED
  BY <1>2 DEF t

LEMMA CollectOne ==
    ASSUME TypeInv, ConnInv, LogInv, LateInv, CollectInv, NEW c \in Clients, Collect(c)
    PROVE  CollectInv'
<1> DEFINE all == result \o log[visited]
<1>1. /\ visited \in CPU /\ log[visited] \in Seq(Event) /\ result \in Seq(Event)
      /\ UNCHANGED <<log, pc, historyVars>>
  BY Values DEF Collect, Session!Collect, TypeInv
<1>2. \/ Len(all) <= Limit /\ result' = all /\ visited' = visited + 1
      \/ Len(all) > Limit /\ result' = SubSeq(all, 1, Limit) /\ visited' = NumCPUs
  BY <1>1 DEF Collect, Session!Collect
<1>3. /\ all \in Seq(Event) /\ Len(all) = Len(result) + Len(log[visited])
      /\ RangeOf(all) = RangeOf(result) \cup RangeOf(log[visited])
  BY <1>1, RangeConcat
<1>4. \A e \in RangeOf(log[visited]) : e.cpu = visited
  BY <1>1, LogFacts
<1>5. Distinct(all)
  <2>1. \A e \in RangeOf(result) : e \notin RangeOf(log[visited])
    BY <1>1, <1>4, Values DEF CollectInv
  <2>2. Distinct(result) /\ Distinct(log[visited])
    BY <1>1, LogFacts DEF CollectInv
  <2> QED
    BY <1>1, <2>1, <2>2, DistinctConcat
<1>6. \A e \in RangeOf(all) : e.cpu < visited + 1 /\ e.cpu < NumCPUs /\ e \in RangeOf(log[e.cpu])
  <2>1. \A e \in RangeOf(result) : e.cpu \in Int
    <3>1. \A e \in RangeOf(result) : e \in Event
      BY <1>1 DEF RangeOf
    <3>2. ASSUME NEW e \in RangeOf(result) PROVE e.cpu \in Int
      <4>1. e.cpu \in CPU
        BY <3>1 DEF Event
      <4> QED
        BY <4>1 DEF CPU
    <3> QED
      BY <3>2
  <2>2. visited \in Nat /\ visited < NumCPUs /\ NumCPUs \in Nat
    BY <1>1, Values
  <2>3. \A e \in RangeOf(result) : e.cpu < visited /\ e \in RangeOf(log[e.cpu])
    BY DEF CollectInv
  <2> QED
    BY <1>3, <1>4, <2>1, <2>2, <2>3
<1>7. Len(all) \in Nat /\ Len(result) \in Nat /\ Len(result) <= Len(all)
  BY <1>1, <1>3
<1> HIDE DEF all
<1>8. CASE Len(all) <= Limit /\ result' = all /\ visited' = visited + 1
  <2>1. ASSUME NEW d \in Clients, pc[d] = "collect", Len(all) < Limit,
               NEW e \in atClose[d], e.cpu < visited + 1
        PROVE  e \in RangeOf(all)
    <3>1. Late(d) /\ e.cpu \in CPU
      BY <2>1, EventCPU DEF LateInv
    <3>2. CASE e.cpu < visited
      <4>1. Len(result) < Limit
        BY <1>7, <2>1
      <4> QED
        BY <1>3, <2>1, <3>2, <4>1 DEF CollectInv
    <3>3. CASE e.cpu = visited
      BY <1>3, <3>1, <3>3 DEF Late
    <3> QED
      BY <1>1, <2>1, <3>1, <3>2, <3>3, Values
  <2> QED
    BY <1>1, <1>5, <1>6, <1>8, <2>1 DEF CollectInv, historyVars
<1>9. CASE Len(all) > Limit /\ result' = SubSeq(all, 1, Limit) /\ visited' = NumCPUs
  <2>1. Limit \in 0 .. Len(all)
    BY <1>7, <1>9
  <2>2. Len(result') = Limit /\ RangeOf(result') \subseteq RangeOf(all)
    BY <1>3, <1>9, <2>1, RangeFirst
  <2>3. Distinct(result')
    BY <1>3, <1>5, <1>9, <2>1, DistinctFirst
  <2> QED
    BY <1>1, <1>6, <1>9, <2>2, <2>3 DEF CollectInv
<1> QED
  BY <1>2, <1>8, <1>9

\* The other steps keep what has been collected, or throw it away.
LEMMA CollectRest ==
    ASSUME TypeInv, ConnInv, CollectInv, NEW c \in Clients, Quiet(c) \/ Loud(c), ~Collect(c)
    PROVE  CollectInv'
<1>1. \/ result' = <<>>
      \/ UNCHANGED <<log, visited, result>>
  <2>1. CASE Quiet(c) \/ StartOpens(c) \/ EndCloses(c)
    BY <2>1, QuietEffect DEF captureVars, sessionVars, StartOpens, EndCloses, Session!Open,
                             Session!Close
  <2>2. CASE Clear(c) \/ StartRuns(c)
    BY <2>2 DEF Clear, StartRuns, Session!Clear, Session!Run, ConnInv
  <2>3. CASE Abandon(c) \/ EndFinishes(c) \/ EndFails(c)
    BY <2>3 DEF Abandon, EndFinishes, EndFails, Session!Abandon, Session!Finish
  <2> QED
    BY <2>1, <2>2, <2>3 DEF Loud
<1>2. /\ Len(result') <= Limit /\ Distinct(result')
      /\ \A e \in RangeOf(result') : e.cpu < visited' /\ e \in RangeOf(log'[e.cpu])
  <2>1. CASE result' = <<>>
    BY <2>1, RangeEmpty DEF Distinct
  <2>2. CASE UNCHANGED <<log, visited, result>>
    BY <2>2 DEF CollectInv
  <2> QED
    BY <1>1, <2>1, <2>2
<1>3. ASSUME NEW d \in Clients, pc'[d] = "collect", Len(result') < Limit,
             NEW e \in atClose'[d], e.cpu < visited'
      PROVE  e \in RangeOf(result')
  <2>1. CASE d # c
    <3>1. pc[d] = "collect" /\ atClose'[d] = atClose[d] /\ UNCHANGED <<visited, result>>
      BY <1>3, <2>1, Others DEF Inside, captureVars, sessionVars
    <3> QED
      BY <1>3, <3>1 DEF CollectInv
  <2>2. CASE d = c
    <3>1. \/ EndCloses(c)
          \/ UNCHANGED pc /\ pc[c] # "collect"
          \/ \E place \in PC \ {"collect"} : pc' = [pc EXCEPT ![c] = place]
      BY DEF Quiet, Loud, Ask, Leave, Arrive, StartRefused, EndRefused, Reply, Dump,
         DumpDone, Answer, StartOpens, Clear, StartRuns, Abandon, EndFinishes, EndFails, GoTo, PC
    <3>2. EndCloses(c)
      BY <1>3, <2>2, <3>1 DEF TypeInv
    <3>3. visited' = 0
      BY <3>2 DEF EndCloses, Session!Close, ConnInv
    <3>4. atClose' = [atClose EXCEPT ![c] = UNION {RangeOf(log[cpu]) : cpu \in CPU}]
      BY <3>2 DEF EndCloses
    <3>5. PICK cpu \in CPU : e \in RangeOf(log[cpu])
      BY <1>3, <2>2, <3>4 DEF TypeInv
    <3>6. e.cpu \in CPU
      <4>1. e \in Event
        BY <3>5 DEF TypeInv, RangeOf
      <4> QED
        BY <4>1 DEF Event
    <3> QED
      BY <1>3, <3>3, <3>6, Values
  <2> QED
    BY <2>1, <2>2
<1> QED
  BY <1>2, <1>3 DEF CollectInv

LEMMA CollectStep ==
    TypeInv /\ ConnInv /\ LogInv /\ LateInv /\ CollectInv /\ [Next]_vars => CollectInv'
<1> SUFFICES ASSUME TypeInv, ConnInv, LogInv, LateInv, CollectInv, [Next]_vars PROVE CollectInv'
  OBVIOUS
<1>1. ASSUME NEW cpu \in CPU, Probe(cpu) PROVE CollectInv'
  <2>1. UNCHANGED <<visited, result, pc, atClose>>
    BY <1>1, ProbeEffect DEF requestVars, historyVars
  <2>2. ASSUME NEW e \in RangeOf(result) PROVE e.cpu < visited /\ e \in RangeOf(log[e.cpu])'
    <3>1. e \in Event
      BY DEF TypeInv, RangeOf
    <3>2. e.cpu \in CPU
      BY <3>1 DEF Event
    <3> DEFINE k == e.cpu
    <3>3. e \in RangeOf(log[k]) /\ e.cpu < visited
      BY DEF CollectInv
    <3>4. RangeOf(log[k]) \subseteq RangeOf(log[k])'
      BY <1>1, <3>2, LogGrows
    <3> QED
      BY <3>3, <3>4
  <2> QED
    BY <2>1, <2>2 DEF CollectInv, RangeOf
<1>2. CollectInv /\ UNCHANGED <<captureVars, requestVars>> => CollectInv'
  BY DEF CollectInv, captureVars, sessionVars, requestVars, historyVars
<1> QED
  BY <1>1, <1>2, NextCases, CollectOne, CollectRest

----------------------------------------------------------------------------
(* What is answered.                                                       *)

\* The dump copies the capture, message by message.
LEMMA Copied ==
    ASSUME NEW S, NEW whole \in Seq(S), NEW part \in Seq(S), Len(part) < Len(whole),
           NEW n \in Len(part) + 1 .. Len(whole),
           \A i \in 1 .. Len(part) : part[i] = whole[i]
    PROVE  LET t == part \o SubSeq(whole, Len(part) + 1, n)
           IN  Len(t) = n /\ \A i \in 1 .. n : t[i] = whole[i]
<1> DEFINE more == SubSeq(whole, Len(part) + 1, n)
           t == part \o more
<1>1. /\ more \in Seq(S) /\ Len(more) = n - Len(part)
      /\ \A i \in 1 .. n - Len(part) : more[i] = whole[Len(part) + i]
      /\ Len(part) \in Nat /\ n \in Nat
  OBVIOUS
<1> HIDE DEF more
<1>2. /\ Len(t) = Len(part) + Len(more)
      /\ \A i \in 1 .. Len(part) : t[i] = part[i]
      /\ \A i \in Len(part) + 1 .. Len(part) + Len(more) : t[i] = more[i - Len(part)]
  BY <1>1, RangeConcat
<1> HIDE DEF t
<1>3. ASSUME NEW i \in 1 .. n PROVE t[i] = whole[i]
  <2>1. CASE i \in 1 .. Len(part)
    BY <1>2, <2>1
  <2>2. CASE i \notin 1 .. Len(part)
    <3>1. /\ i \in Len(part) + 1 .. Len(part) + Len(more)
          /\ i - Len(part) \in 1 .. n - Len(part) /\ Len(part) + (i - Len(part)) = i
      BY <1>1, <2>2
    <3> QED
      BY <1>1, <1>2, <3>1
  <2> QED
    BY <2>1, <2>2
<1>4. Len(t) = n
  BY <1>1, <1>2
<1> QED
  BY <1>3, <1>4 DEF t, more

\* When all CPUs have been visited the result is the capture.
LEMMA Collected ==
    ASSUME TypeInv, ConnInv, LogInv, FreshInv, LateInv, CollectInv, NEW c \in Clients,
           pc[c] = "collect", visited = NumCPUs
    PROVE  Capture(c, result)
<1>1. phase = "DONE" /\ Late(c)
  BY DEF ConnInv, LateInv
<1>2. ASSUME NEW e \in RangeOf(result) PROVE e.cpu \in CPU /\ e \in RangeOf(log[e.cpu])
  <2>1. e \in Event
    BY DEF TypeInv, RangeOf
  <2> QED
    BY <2>1 DEF Event, CollectInv
<1>3. ASSUME NEW e \in RangeOf(result) PROVE e.timestamp >= since[c]
  <2>1. Younger(e.cpu, since[c])
    BY <1>1, <1>2 DEF FreshInv, Cleared
  <2> QED
    BY <1>2, <2>1 DEF Younger
<1>4. ASSUME Len(result) < Limit, NEW e \in atClose[c] PROVE e \in RangeOf(result)
  <2>1. e.cpu < visited
    BY EventCPU, Values
  <2> QED
    BY <1>4, <2>1 DEF CollectInv
<1>5. ASSUME NEW e \in RangeOf(result) \ atClose[c], NEW f \in RangeOf(result) \ atClose[c],
             e.cpu = f.cpu
      PROVE  e = f
  <2>1. e.cpu \in CPU /\ e \in RangeOf(log[e.cpu]) /\ f \in RangeOf(log[e.cpu])
    BY <1>2, <1>5
  <2> QED
    BY <1>1, <2>1 DEF Late
<1> QED
  BY <1>3, <1>4, <1>5 DEF CollectInv, Capture

LEMMA GivenOther ==
    ASSUME TypeInv, ConnInv, AnswerInv, NEW c \in Clients, Quiet(c) \/ Loud(c),
           NEW d \in Clients, d # c
    PROVE  Given(d)'
<1>1. /\ pc'[d] = pc[d] /\ events'[d] = events[d] /\ since'[d] = since[d]
      /\ atClose'[d] = atClose[d]
      /\ pc[d] = "dump" => UNCHANGED <<cap, index>>
  BY Others DEF Inside
<1>2. Given(d)
  BY DEF AnswerInv
<1> QED
  BY <1>1, <1>2 DEF Given, Capture

LEMMA GivenQuiet ==
    ASSUME TypeInv, ConnInv, AnswerInv, NEW c \in Clients, Quiet(c)
    PROVE  Given(c)'
<1>1. Given(c) /\ events[c] \in Seq(Event) /\ cap \in Seq(Event) /\ index \in 0 .. Len(cap)
  BY DEF AnswerInv, TypeInv
<1>2. CASE Dump(c)
  <2>1. /\ pc[c] = "dump" /\ UNCHANGED <<pc, cap, historyVars>> /\ index < Len(cap)
        /\ events' = [events EXCEPT ![c] = @ \o SubSeq(cap, index + 1, Upto)]
        /\ index' = Upto
    BY <1>2 DEF Dump
  <2>2. Upto \in index + 1 .. Len(cap)
    BY <1>1, <2>1 DEF Upto
  <2>3. Len(events[c]) = index /\ \A i \in 1 .. index : events[c][i] = cap[i]
    BY <1>1, <2>1 DEF Given
  <2>4. events'[c] = events[c] \o SubSeq(cap, index + 1, Upto)
    BY <2>1 DEF TypeInv
  <2>5. Len(events'[c]) = Upto /\ \A i \in 1 .. Upto : events'[c][i] = cap[i]
    <3> DEFINE part == events[c]
    <3>1. /\ Len(part) < Len(cap) /\ Upto \in Len(part) + 1 .. Len(cap)
          /\ \A i \in 1 .. Len(part) : part[i] = cap[i]
          /\ events'[c] = part \o SubSeq(cap, Len(part) + 1, Upto)
          /\ part \in Seq(Event) /\ cap \in Seq(Event)
      BY <1>1, <2>1, <2>2, <2>3, <2>4
    <3> HIDE DEF part
    <3> QED
      BY <3>1, Copied
  <2> QED
    BY <1>1, <2>1, <2>5 DEF Given, Capture, historyVars
<1>3. CASE DumpDone(c)
  <2>1. /\ pc[c] = "dump" /\ index = Len(cap) /\ UNCHANGED historyVars /\ pc'[c] = "answer"
        /\ \E sorted \in Sorted(events[c]) : events' = [events EXCEPT ![c] = sorted]
    BY <1>3 DEF DumpDone, GoTo, TypeInv
  <2>2. PICK t \in Sorted(events[c]) : events'[c] = t
    BY <2>1 DEF TypeInv
  <2>3. events[c] = cap
    BY <1>1, <2>1, SameSequence DEF Given
  <2>4. Capture(c, cap)
    BY <1>1, <2>1 DEF Given
  <2>5. Len(t) = Len(cap) /\ RangeOf(t) = RangeOf(cap) /\ Distinct(t) /\ Ordered(t)
    BY <1>1, <2>3, <2>4, Shuffled DEF Capture
  <2>6. Capture(c, t)
    BY <2>4, <2>5 DEF Capture
  <2> QED
    BY <2>1, <2>2, <2>5, <2>6 DEF Given, Capture, historyVars
<1>4. CASE ~Dump(c) /\ ~DumpDone(c)
  <2>1. \E place \in PC \ {"dump", "answer"} : pc' = [pc EXCEPT ![c] = place]
    BY <1>4 DEF Quiet, Ask, Leave, Arrive, StartRefused, EndRefused, Reply, Answer, GoTo, PC
  <2> QED
    BY <2>1 DEF Given, TypeInv
<1> QED
  BY <1>2, <1>3, <1>4

LEMMA GivenLoud ==
    ASSUME TypeInv, ConnInv, LogInv, FreshInv, LateInv, CollectInv, AnswerInv,
           NEW c \in Clients, Loud(c)
    PROVE  Given(c)'
<1>1. CASE EndFinishes(c)
  <2>1. /\ pc[c] = "collect" /\ pc'[c] = "dump" /\ visited = NumCPUs
        /\ cap' = result /\ index' = 0 /\ UNCHANGED <<events, historyVars>>
    BY <1>1 DEF EndFinishes, Session!Finish, GoTo, TypeInv
  <2>2. events[c] = <<>>
    BY <2>1 DEF ConnInv
  <2>3. Capture(c, result)
    BY <2>1, Collected
  <2>4. Capture(c, cap)'
    BY <2>1, <2>3 DEF Capture, historyVars
  <2> QED
    BY <2>1, <2>2, <2>4 DEF Given
<1>2. CASE ~EndFinishes(c)
  <2>1. \/ UNCHANGED pc /\ pc[c] \in {"clear", "collect"}
        \/ \E place \in PC \ {"dump", "answer"} : pc' = [pc EXCEPT ![c] = place]
    BY <1>2 DEF Loud, StartOpens, Clear, StartRuns, EndCloses, Abandon, Collect, EndFails, GoTo, PC
  <2> QED
    BY <2>1 DEF Given, TypeInv
<1> QED
  BY <1>1, <1>2

LEMMA AnswerStep ==
    ASSUME TypeInv, ConnInv, LogInv, FreshInv, LateInv, CollectInv, AnswerInv, [Next]_vars
    PROVE  AnswerInv'
<1>1. UNCHANGED requestVars => AnswerInv'
  BY DEF AnswerInv, Given, Capture, requestVars, dumpVars, historyVars
<1>2. ASSUME NEW cpu \in CPU, Probe(cpu) PROVE AnswerInv'
  BY <1>1, <1>2, ProbeEffect
<1>3. ASSUME NEW c \in Clients, Quiet(c) \/ Loud(c) PROVE AnswerInv'
  <2>1. Given(c)'
    BY <1>3, GivenQuiet, GivenLoud
  <2>2. \A d \in Clients \ {c} : Given(d)'
    BY <1>3, GivenOther
  <2> QED
    BY <2>1, <2>2 DEF AnswerInv
<1> QED
  BY <1>1, <1>2, <1>3, NextCases

----------------------------------------------------------------------------
(* The theorems.                                                           *)

LEMMA RequestsInit == Init => RequestsInv
<1> SUFFICES ASSUME Init PROVE RequestsInv
  OBVIOUS
<1>1. TypeInv /\ ConnInv
  BY TypeInit, ConnInit
<1>2. /\ \A cpu \in CPU : log[cpu] = <<>> /\ stamp[cpu] = 0
      /\ \A c \in Clients : pc[c] = "idle" /\ since[c] = 0
      /\ result = <<>> /\ clock = 0
  BY DEF Init, Session!Init, Session!CPU, CPU
<1>3. RangeOf(<<>>) = {} /\ DOMAIN <<>> = {} /\ Len(<<>>) = 0
  BY RangeEmpty
<1>4. LogInv
  BY <1>2, <1>3 DEF LogInv, Log
<1>5. FreshInv
  BY <1>2, <1>3 DEF FreshInv, Younger
<1>6. LateInv /\ CollectInv /\ AnswerInv
  BY <1>2, <1>3 DEF LateInv, CollectInv, AnswerInv, Given, Distinct
<1> QED
  BY <1>1, <1>4, <1>5, <1>6 DEF RequestsInv

LEMMA RequestsStep == RequestsInv /\ [Next]_vars => RequestsInv'
  BY TypeStep, ConnStep, LogStep, FreshStep, LateStep, CollectStep, AnswerStep DEF RequestsInv

\* Of the requests this holds at all times.
THEOREM RequestsCorrect == Spec => []RequestsInv
  BY RequestsInit, RequestsStep, PTL DEF Spec

\* A client that has opened a capture is never given an event of before, whoever ends
\* whose captures meanwhile: prepare_capture() has emptied each log under its lock, and a
\* probe takes its timestamp under the same lock.
THEOREM OwnEventsOnly == Spec => []SinceOwnStart
<1>1. RequestsInv => SinceOwnStart
  BY DEF RequestsInv, AnswerInv, Given, Capture, SinceOwnStart
<1> QED
  BY <1>1, RequestsCorrect, PTL

\* A client that ends a capture is given that capture: sorted, each event once, up to the
\* limit, and beyond the events recorded by then at most one event of each CPU.
THEOREM AnswersAreCaptures == Spec => []AnswerIsCapture
<1>1. RequestsInv => AnswerIsCapture
  <2> SUFFICES ASSUME RequestsInv, NEW c \in Clients, pc[c] = "answer"
               PROVE  LET given == RangeOf(events[c])
                      IN  /\ Len(events[c]) <= Limit
                          /\ \A i, j \in DOMAIN events[c] :
                               i < j => /\ events[c][i].timestamp <= events[c][j].timestamp
                                        /\ events[c][i] # events[c][j]
                          /\ Len(events[c]) < Limit => atClose[c] \subseteq given
                          /\ \A cpu \in CPU :
                               Cardinality({e \in given \ atClose[c] : e.cpu = cpu}) <= 1
    BY DEF AnswerIsCapture
  <2>1. Capture(c, events[c]) /\ Ordered(events[c])
    BY DEF RequestsInv, AnswerInv, Given
  <2>2. DOMAIN events[c] = 1 .. Len(events[c])
    BY DEF RequestsInv, TypeInv
  <2>3. ASSUME NEW i \in DOMAIN events[c], NEW j \in DOMAIN events[c], i < j
        PROVE  /\ events[c][i].timestamp <= events[c][j].timestamp
               /\ events[c][i] # events[c][j]
    BY <2>1, <2>2, <2>3 DEF Capture, Distinct, Ordered
  <2>4. ASSUME NEW cpu \in CPU
        PROVE  Cardinality({e \in RangeOf(events[c]) \ atClose[c] : e.cpu = cpu}) <= 1
    <3> DEFINE late == {e \in RangeOf(events[c]) \ atClose[c] : e.cpu = cpu}
    <3>1. \A e, f \in late : e = f
      BY <2>1 DEF Capture
    <3> HIDE DEF late
    <3>2. late = {} \/ \E e : late = {e}
      BY <3>1
    <3>3. Cardinality(late) <= 1
      BY <3>2, FS_EmptySet, FS_Singleton
    <3> QED
      BY <3>3 DEF late
  <2> QED
    BY <2>1, <2>3, <2>4 DEF Capture
<1> QED
  BY <1>1, RequestsCorrect, PTL
=============================================================================
