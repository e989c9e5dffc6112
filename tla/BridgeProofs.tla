---------------------------- MODULE BridgeProofs ----------------------------
(***************************************************************************)
(* Proofs about the bridge, for every set of connections and every size of *)
(* the write channels.                                                     *)
(***************************************************************************)
EXTENDS Bridge, TLAPS

----------------------------------------------------------------------------
(* The type invariant.                                                     *)

LEMMA SendTyped ==
    ASSUME TypeOK, NEW c \in Conns, NEW who \in {"reader", "dump"}, SendMessage(c, who)
    PROVE  /\ queued' \in [Conns -> 0 .. BufferSize]
           /\ panicked' \in {"no", "reader", "dump", "close"}
  BY BufferAssumption DEF TypeOK, SendMessage

LEMMA CloseTyped ==
    ASSUME TypeOK, NEW c \in Conns, CloseChannel(c)
    PROVE  /\ closed' \in [Conns -> BOOLEAN]
           /\ panicked' \in {"no", "reader", "dump", "close"}
  BY DEF TypeOK, CloseChannel

LEMMA TypeInit == Init => TypeOK
  BY BufferAssumption DEF Init, TypeOK

LEMMA ReaderTyped ==
    ASSUME TypeOK, NEW c \in Conns, Upgrade(c) \/ Read(c) \/ Lock(c) \/ Go(c)
    PROVE  TypeOK'
<1> USE DEF channelVars, appVars, pmVars, dumpVars, mainVars, GoTo
<1>1. CASE Upgrade(c)          BY <1>1 DEF TypeOK, Upgrade
<1>2. CASE Read(c)             BY <1>2 DEF TypeOK, Read
<1>3. CASE AddClient(c)        BY <1>3 DEF TypeOK, AddClient
<1>4. CASE Register(c)         BY <1>4 DEF TypeOK, Register
<1>5. CASE RemoveUnknown(c)    BY <1>5 DEF TypeOK, RemoveUnknown
<1>6. CASE RemoveLock(c)       BY <1>6 DEF TypeOK, RemoveLock
<1>7. CASE RemoveUnregister(c) BY <1>7 DEF TypeOK, RemoveUnregister
<1>8. CASE StartWriter(c)      BY <1>8 DEF TypeOK, StartWriter
<1>9. CASE Answer(c)           BY <1>9 DEF TypeOK, Answer
<1>10. CASE Reply(c)           BY <1>10, SendTyped DEF TypeOK, Reply
<1>11. CASE RemoveClose(c)     BY <1>11, CloseTyped DEF TypeOK, RemoveClose
<1>12. CASE RemoveDelete(c)    BY <1>12 DEF TypeOK, RemoveDelete
<1> QED
  BY <1>1, <1>2, <1>3, <1>4, <1>5, <1>6, <1>7, <1>8, <1>9, <1>10, <1>11, <1>12
     DEF Lock, Go

LEMMA WriterTyped ==
    ASSUME TypeOK, NEW c \in Conns, Write(c)
    PROVE  TypeOK'
<1> USE DEF channelVars, appVars, pmVars, dumpVars, mainVars
<1>1. CASE Receive(c)
  <2>1. queued' \in [Conns -> 0 .. BufferSize]
    BY <1>1, BufferAssumption DEF TypeOK, Receive
  <2> QED BY <1>1, <2>1 DEF TypeOK, Receive
<1>2. CASE Drained(c) BY <1>2 DEF TypeOK, Drained
<1>3. CASE Written(c) BY <1>3 DEF TypeOK, Written
<1> QED BY <1>1, <1>2, <1>3 DEF Write

LEMMA DumperTyped ==
    ASSUME TypeOK, DumpLoop \/ NotifyLock
    PROVE  TypeOK'
<1> USE DEF channelVars, appVars, pmVars, mainVars
<1>1. CASE CheckRunning BY <1>1 DEF TypeOK, CheckRunning
<1>2. CASE Dump         BY <1>2 DEF TypeOK, Dump
<1>3. CASE NotifyDone   BY <1>3 DEF TypeOK, NotifyDone
<1>4. CASE WakeUp       BY <1>4 DEF TypeOK, WakeUp
<1>5. CASE NotifyLock   BY <1>5 DEF TypeOK, NotifyLock
<1>6. ASSUME NEW c \in Conns, NotifyOne(c) PROVE TypeOK'
  BY <1>6, SendTyped DEF TypeOK, NotifyOne
<1> QED BY <1>1, <1>2, <1>3, <1>4, <1>5, <1>6 DEF DumpLoop

LEMMA ShutdownTyped ==
    ASSUME TypeOK, Shutdown
    PROVE  TypeOK'
<1> USE DEF channelVars, appVars, pmVars, dumpVars
<1>1. CASE Interrupt         BY <1>1 DEF TypeOK, Interrupt
<1>2. CASE DestroyLock       BY <1>2 DEF TypeOK, DestroyLock
<1>3. CASE DestroyUnregister BY <1>3 DEF TypeOK, DestroyUnregister
<1>4. CASE StopDumps         BY <1>4 DEF TypeOK, StopDumps
<1>5. CASE DestroyClear      BY <1>5 DEF TypeOK, DestroyClear
<1>6. CASE DumpsStopped      BY <1>6 DEF TypeOK, DumpsStopped
<1>7. CASE Exit              BY <1>7 DEF TypeOK, Exit
<1>8. ASSUME NEW c \in Conns, DestroyClose(c) PROVE TypeOK'
  BY <1>8, CloseTyped DEF TypeOK, DestroyClose
<1> QED
  BY <1>1, <1>2, <1>3, <1>4, <1>5, <1>6, <1>7, <1>8 DEF Shutdown, Destroy, DestroyLocks

LEMMA TypeStep == TypeOK /\ [Next]_vars => TypeOK'
<1> SUFFICES ASSUME TypeOK, [Next]_vars PROVE TypeOK'
  OBVIOUS
<1>1. CASE UNCHANGED vars BY <1>1 DEF TypeOK, vars
<1> QED
  BY <1>1, ReaderTyped, WriterTyped, DumperTyped, ShutdownTyped DEF Next, Serve

\* The channels never hold more than their size, and every variable keeps its shape,
\* for any number of connections.
THEOREM TypeCorrect == Spec => []TypeOK
  BY TypeInit, TypeStep, PTL DEF Spec

----------------------------------------------------------------------------
(* Who holds app.mu, and what is then true of the handlers.                *)

\* Where a reader stands inside of RemoveClient(), main() inside of app.Destroy(), and
\* a reader between AddClient() and the end of RemoveClient().
Removing == {"close", "unregister", "delete"}
Destroying == {"handlers", "unregister", "pm_lock", "wait"}
Added == {"go", "read", "register", "request", "send", "remove"} \cup Removing

\* app.mu excludes: at most one goroutine is inside of the code it guards.
LockHeld ==
    /\ appLock = "main" <=> main \in Destroying
    /\ \A c \in Conns : appLock = c <=> reader[c] \in Removing

\* A handler is known to app only between AddClient() and RemoveClient(), and all of
\* that time until main() destroys the handlers.
ClientsAdded ==
    /\ \A c \in clients : reader[c] \in Added
    /\ \A c \in Conns :
         reader[c] \in Removing \/ (main = "serving" /\ reader[c] \in Added) => c \in clients

\* Only who holds the lock has closed the channel of a handler that is still known.
OpenUntilRemoved ==
    /\ \A c \in clients :
         closed[c] => \/ reader[c] \in {"unregister", "delete"}
                      \/ main \in {"handlers", "unregister"} /\ c \notin left
    /\ \A c \in Conns : reader[c] \in {"none", "add"} => ~closed[c]

\* What main() has still to destroy is known and nothing else is known afterwards.
LeftKnown ==
    /\ left \subseteq clients
    /\ left # {} => main \in {"handlers", "unregister"}
    /\ main \in {"pm_lock", "wait"} => clients = {}

\* Listeners are of handlers that app knows, and of none whose removal is past
\* RemoveListener().
ListenersKnown ==
    /\ main = "serving" => listeners \subseteq clients
    /\ \A c \in listeners : reader[c] \notin {"none", "add", "delete"}

HandlersKnown ==
    /\ TypeOK
    /\ LockHeld
    /\ ClientsAdded
    /\ OpenUntilRemoved
    /\ LeftKnown
    /\ ListenersKnown
    /\ ClosedOnce

LEMMA KnownInit == Init => HandlersKnown
<1> SUFFICES ASSUME Init PROVE HandlersKnown
  OBVIOUS
<1>1. LockHeld
  BY ConnsAssumption DEF Init, LockHeld, Removing, Destroying
<1> QED
  BY <1>1, TypeInit
     DEF Init, HandlersKnown, ClientsAdded, Added, Removing, OpenUntilRemoved, LeftKnown,
         ListenersKnown, ClosedOnce

LEMMA ReaderKnown ==
    ASSUME HandlersKnown, TypeOK', NEW c \in Conns, Upgrade(c) \/ Read(c) \/ Lock(c) \/ Go(c)
    PROVE  HandlersKnown'
<1> USE ConnsAssumption
    DEF channelVars, appVars, pmVars, mainVars, GoTo, HandlersKnown, TypeOK, LockHeld,
        ClientsAdded, Added, Removing, Destroying, OpenUntilRemoved, LeftKnown,
        ListenersKnown, ClosedOnce
<1>1. CASE Upgrade(c)          BY <1>1 DEF Upgrade
<1>2. CASE Read(c)             BY <1>2 DEF Read
<1>3. CASE AddClient(c)        BY <1>3 DEF AddClient
<1>4. CASE Register(c)         BY <1>4 DEF Register
<1>5. CASE RemoveUnknown(c)    BY <1>5 DEF RemoveUnknown
<1>6. CASE RemoveLock(c)       BY <1>6 DEF RemoveLock
<1>7. CASE RemoveUnregister(c) BY <1>7 DEF RemoveUnregister
<1>8. CASE StartWriter(c)      BY <1>8 DEF StartWriter
<1>9. CASE Answer(c)           BY <1>9 DEF Answer
<1>10. CASE Reply(c)           BY <1>10 DEF Reply, SendMessage
<1>11. CASE RemoveClose(c)     BY <1>11 DEF RemoveClose, CloseChannel
<1>12. CASE RemoveDelete(c)    BY <1>12 DEF RemoveDelete
<1> QED
  BY <1>1, <1>2, <1>3, <1>4, <1>5, <1>6, <1>7, <1>8, <1>9, <1>10, <1>11, <1>12
     DEF Lock, Go

\* The writers and the dump loop leave the handlers as they are.
LEMMA OthersKnown ==
    ASSUME HandlersKnown, TypeOK',
           UNCHANGED <<reader, closed, appLock, clients, listeners, main, left>>,
           panicked' = "close" => panicked = "close"
    PROVE  HandlersKnown'
  BY DEF HandlersKnown, LockHeld, ClientsAdded, OpenUntilRemoved, LeftKnown,
         ListenersKnown, ClosedOnce

LEMMA WriterKnown ==
    ASSUME HandlersKnown, TypeOK', NEW c \in Conns, Write(c)
    PROVE  HandlersKnown'
  BY OthersKnown DEF Write, Receive, Drained, Written, appVars, pmVars, mainVars, channelVars

LEMMA DumperKnown ==
    ASSUME HandlersKnown, TypeOK', DumpLoop \/ NotifyLock
    PROVE  HandlersKnown'
  BY OthersKnown
     DEF DumpLoop, NotifyLock, CheckRunning, Dump, NotifyDone, WakeUp, NotifyOne,
         SendMessage, appVars, pmVars, mainVars, channelVars

LEMMA ShutdownKnown ==
    ASSUME HandlersKnown, TypeOK', Shutdown
    PROVE  HandlersKnown'
<1> USE ConnsAssumption
    DEF channelVars, appVars, pmVars, HandlersKnown, TypeOK, LockHeld, ClientsAdded, Added,
        Removing, Destroying, OpenUntilRemoved, LeftKnown, ListenersKnown, ClosedOnce
<1>1. CASE Interrupt         BY <1>1 DEF Interrupt
<1>2. CASE DestroyLock       BY <1>2 DEF DestroyLock
<1>3. CASE DestroyUnregister BY <1>3 DEF DestroyUnregister
<1>4. CASE StopDumps         BY <1>4 DEF StopDumps
<1>5. CASE DestroyClear      BY <1>5 DEF DestroyClear
<1>6. CASE DumpsStopped      BY <1>6 DEF DumpsStopped
<1>7. CASE Exit              BY <1>7 DEF Exit
<1>8. ASSUME NEW c \in Conns, DestroyClose(c) PROVE HandlersKnown'
  BY <1>8 DEF DestroyClose, CloseChannel
<1> QED
  BY <1>1, <1>2, <1>3, <1>4, <1>5, <1>6, <1>7, <1>8 DEF Shutdown, Destroy, DestroyLocks

LEMMA KnownStep == HandlersKnown /\ [Next]_vars => HandlersKnown'
<1> SUFFICES ASSUME HandlersKnown, [Next]_vars PROVE HandlersKnown'
  OBVIOUS
<1>1. TypeOK'
  BY TypeStep DEF HandlersKnown
<1>2. CASE UNCHANGED vars BY <1>1, <1>2, OthersKnown DEF vars
<1> QED
  BY <1>1, <1>2, ReaderKnown, WriterKnown, DumperKnown, ShutdownKnown DEF Next, Serve

\* However many readers fail while main() destroys the handlers, each channel is closed
\* by one of them: no close of a closed channel ends the process.
THEOREM ClosedOnceAlways == Spec => []ClosedOnce
<1>1. HandlersKnown => ClosedOnce
  BY DEF HandlersKnown
<1> QED BY KnownInit, KnownStep, <1>1, PTL DEF Spec

\* Whenever app.mu is free the handlers app knows are open, and while the bridge serves
\* every listener is one of them.
THEOREM RegistryConsistentAlways == Spec => []RegistryConsistent
<1>1. HandlersKnown => RegistryConsistent
  BY ConnsAssumption
     DEF HandlersKnown, TypeOK, LockHeld, OpenUntilRemoved, ListenersKnown, Removing,
         Destroying, RegistryConsistent
<1> QED BY KnownInit, KnownStep, <1>1, PTL DEF Spec
=============================================================================
