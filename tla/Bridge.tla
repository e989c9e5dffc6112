------------------------------- MODULE Bridge -------------------------------
(***************************************************************************)
(* The goroutines of the Go bridge and what they share: handleWS (a reader *)
(* and a writer for each websocket, api/ws.go), the handlers and the app   *)
(* that owns them (app/handler.go, app/app.go), the loop that dumps the    *)
(* process tree to its listeners every few seconds (app/proctree.go), and  *)
(* the shutdown that main() starts on an interrupt (main.go, server.go).   *)
(*                                                                         *)
(* What a request asks of netlink, and what its answer says, is left out:  *)
(* a request either registers a listener or ends with a message or none.   *)
(* A connection has an id of its own; a client that reconnects is another. *)
(***************************************************************************)
EXTENDS Integers, FiniteSets

CONSTANTS
    Conns,       \* the websocket connections
    BufferSize   \* WSChannelBufferSize

ASSUME BufferAssumption == BufferSize \in Nat \ {0}
ASSUME ConnsAssumption ==
    {"free", "main", "dump", "none"} \cap Conns = {} /\ IsFiniteSet(Conns)

VARIABLES
    reader,     \* reader[c]: where handleWS stands
    writer,     \* writer[c]: where its writer goroutine stands
    queued,     \* queued[c]: messages in writeCh
    closed,     \* closed[c]: writeCh is closed
    appLock,    \* holder of app.mu
    clients,    \* app.clients
    pmLock,     \* holder of proctreeManager.mu
    listeners,  \* proctreeManager.listeners
    running,    \* proctreeManager.running
    dumper,     \* where dumpLoop stands
    notify,     \* listeners notifyAll has still to call
    main,       \* where main() and server.Destroy() stand
    left,       \* handlers app.Destroy has still to destroy
    victim,     \* the handler it is destroying
    panicked    \* what ended the process: "no", or a panic

vars == <<reader, writer, queued, closed, appLock, clients, pmLock, listeners,
          running, dumper, notify, main, left, victim, panicked>>
channelVars == <<queued, closed>>
appVars == <<appLock, clients>>
pmVars == <<pmLock, listeners, running>>
dumpVars == <<dumper, notify>>
mainVars == <<main, left, victim>>

Init ==
    /\ reader = [c \in Conns |-> "none"]
    /\ writer = [c \in Conns |-> "none"]
    /\ queued = [c \in Conns |-> 0]
    /\ closed = [c \in Conns |-> FALSE]
    /\ appLock = "free"
    /\ clients = {}
    /\ pmLock = "free"
    /\ listeners = {}
    /\ running = TRUE
    /\ dumper = "check"
    /\ notify = {}
    /\ main = "serving"
    /\ left = {}
    /\ victim = "none"
    /\ panicked = "no"

\* The process has neither panicked nor left main().
Alive == panicked = "no" /\ main # "done"

\* Mutant of SendMessage: a queue without a limit.
SendUnbounded(c, who) ==
    IF closed[c]
    THEN panicked' = who /\ UNCHANGED queued
    ELSE queued' = [queued EXCEPT ![c] = @ + 1] /\ UNCHANGED panicked

\* Mutant of SendMessage: the select has no default.
SendBlocks(c, who) ==
    IF closed[c]
    THEN panicked' = who /\ UNCHANGED queued
    ELSE /\ queued[c] < BufferSize
         /\ queued' = [queued EXCEPT ![c] = @ + 1]
         /\ UNCHANGED panicked

\* handler.sendMessage(): a send that never blocks, and drops when there is no room.
\* A select on a closed channel panics.
SendMessage(c, who) ==
    IF closed[c]
    THEN panicked' = who /\ UNCHANGED queued
    ELSE /\ queued' = [queued EXCEPT ![c] = IF @ < BufferSize THEN @ + 1 ELSE @]
         /\ UNCHANGED panicked

\* close(h.writeCh); closing a closed channel panics.
CloseChannel(c) ==
    /\ closed' = [closed EXCEPT ![c] = TRUE]
    /\ panicked' = IF closed[c] THEN "close" ELSE panicked

GoTo(c, at) == reader' = [reader EXCEPT ![c] = at]

----------------------------------------------------------------------------
(* handleWS: the reader.                                                   *)

\* The router upgrades requests until it is shut down; handleWS starts later, in a
\* goroutine of the websocket library that Shutdown() does not wait for.
Upgrade(c) ==
    /\ main = "serving"
    /\ reader[c] = "none"
    /\ GoTo(c, "add")
    /\ UNCHANGED <<writer, channelVars, appVars, pmVars, dumpVars, mainVars, panicked>>

AddClient(c) ==
    /\ reader[c] = "add"
    /\ appLock = "free"
    /\ clients' = clients \cup {c}
    /\ GoTo(c, "go")
    /\ UNCHANGED <<writer, channelVars, appLock, pmVars, dumpVars, mainVars, panicked>>

StartWriter(c) ==
    /\ reader[c] = "go"
    /\ writer' = [writer EXCEPT ![c] = "receive"]
    /\ GoTo(c, "read")
    /\ UNCHANGED <<channelVars, appVars, pmVars, dumpVars, mainVars, panicked>>

\* ReadJSON returns a request to register for dumps, another request, or an error.
\* A message of an unknown type, or with a bad payload, changes nothing.
Read(c) ==
    /\ reader[c] = "read"
    /\ \E next \in {"register", "request", "remove"} : GoTo(c, next)
    /\ UNCHANGED <<writer, channelVars, appVars, pmVars, dumpVars, mainVars, panicked>>

\* handleProctreeDump: a second registration is an error, and dropped.
Register(c) ==
    /\ reader[c] = "register"
    /\ pmLock = "free"
    /\ listeners' = listeners \cup {c}
    /\ GoTo(c, "read")
    /\ UNCHANGED <<writer, channelVars, appVars, pmLock, running, dumpVars, mainVars,
                   panicked>>

\* The netlink call returns. A started capture and a failed task view send nothing.
Answer(c) ==
    /\ reader[c] = "request"
    /\ GoTo(c, "send") \/ GoTo(c, "read")
    /\ UNCHANGED <<writer, channelVars, appVars, pmVars, dumpVars, mainVars, panicked>>

Reply(c) ==
    /\ reader[c] = "send"
    /\ SendMessage(c, "reader")
    /\ GoTo(c, "read")
    /\ UNCHANGED <<writer, closed, appVars, pmVars, dumpVars, mainVars>>

\* app.RemoveClient(): after an app.Destroy() the client is no longer known.
RemoveUnknown(c) ==
    /\ reader[c] = "remove"
    /\ appLock = "free"
    /\ c \notin clients
    /\ GoTo(c, "gone")
    /\ UNCHANGED <<writer, channelVars, appVars, pmVars, dumpVars, mainVars, panicked>>

RemoveLock(c) ==
    /\ reader[c] = "remove"
    /\ appLock = "free"
    /\ c \in clients
    /\ appLock' = c
    /\ GoTo(c, "close")
    /\ UNCHANGED <<writer, channelVars, clients, pmVars, dumpVars, mainVars, panicked>>

\* Mutant of RemoveClose: the channel stays open.
RemoveKeepsOpen(c) ==
    /\ reader[c] = "close"
    /\ GoTo(c, "unregister")
    /\ UNCHANGED <<writer, channelVars, appVars, pmVars, dumpVars, mainVars, panicked>>

\* handler.Destroy() closes the channel first and unregisters after that.
RemoveClose(c) ==
    /\ reader[c] = "close"
    /\ CloseChannel(c)
    /\ GoTo(c, "unregister")
    /\ UNCHANGED <<writer, queued, appVars, pmVars, dumpVars, mainVars>>

\* Mutant of RemoveUnregister: the listener stays.
RemoveKeepsListener(c) ==
    /\ reader[c] = "unregister"
    /\ pmLock = "free"
    /\ GoTo(c, "delete")
    /\ UNCHANGED <<writer, channelVars, appVars, pmVars, dumpVars, mainVars, panicked>>

RemoveUnregister(c) ==
    /\ reader[c] = "unregister"
    /\ pmLock = "free"
    /\ listeners' = listeners \ {c}
    /\ GoTo(c, "delete")
    /\ UNCHANGED <<writer, channelVars, appVars, pmLock, running, dumpVars, mainVars,
                   panicked>>

\* Mutant of RemoveDelete: the handler stays in app.clients.
RemoveKeepsHandler(c) ==
    /\ reader[c] = "delete"
    /\ appLock' = "free"
    /\ GoTo(c, "gone")
    /\ UNCHANGED <<writer, channelVars, clients, pmVars, dumpVars, mainVars, panicked>>

RemoveDelete(c) ==
    /\ reader[c] = "delete"
    /\ clients' = clients \ {c}
    /\ appLock' = "free"
    /\ GoTo(c, "gone")
    /\ UNCHANGED <<writer, channelVars, pmVars, dumpVars, mainVars, panicked>>

----------------------------------------------------------------------------
(* handleWS: the writer. It drains what is queued, also after the close.   *)

Receive(c) ==
    /\ writer[c] = "receive"
    /\ queued[c] > 0
    /\ queued' = [queued EXCEPT ![c] = @ - 1]
    /\ writer' = [writer EXCEPT ![c] = "write"]
    /\ UNCHANGED <<reader, closed, appVars, pmVars, dumpVars, mainVars, panicked>>

Drained(c) ==
    /\ writer[c] = "receive"
    /\ queued[c] = 0
    /\ closed[c]
    /\ writer' = [writer EXCEPT ![c] = "gone"]
    /\ UNCHANGED <<reader, channelVars, appVars, pmVars, dumpVars, mainVars, panicked>>

\* WriteJSON returns: the message is out, or the connection broken and the loop left.
Written(c) ==
    /\ writer[c] = "write"
    /\ \E next \in {"receive", "gone"} : writer' = [writer EXCEPT ![c] = next]
    /\ UNCHANGED <<reader, channelVars, appVars, pmVars, dumpVars, mainVars, panicked>>

----------------------------------------------------------------------------
(* dumpLoop.                                                               *)

CheckRunning ==
    /\ dumper = "check"
    /\ dumper' = IF running THEN "dump" ELSE "exited"
    /\ UNCHANGED <<reader, writer, channelVars, appVars, pmVars, notify, mainVars,
                   panicked>>

\* The netlink dump is there, or failed and skipped.
Dump ==
    /\ dumper = "dump"
    /\ \E next \in {"lock", "sleep"} : dumper' = next
    /\ UNCHANGED <<reader, writer, channelVars, appVars, pmVars, notify, mainVars,
                   panicked>>

NotifyLock ==
    /\ dumper = "lock"
    /\ pmLock = "free"
    /\ pmLock' = "dump"
    /\ notify' = listeners
    /\ dumper' = "notify"
    /\ UNCHANGED <<reader, writer, channelVars, appVars, listeners, running, mainVars,
                   panicked>>

NotifyOne(c) ==
    /\ dumper = "notify"
    /\ c \in notify
    /\ SendMessage(c, "dump")
    /\ notify' = notify \ {c}
    /\ UNCHANGED <<reader, writer, closed, appVars, pmVars, dumper, mainVars>>

NotifyDone ==
    /\ dumper = "notify"
    /\ notify = {}
    /\ pmLock' = "free"
    /\ dumper' = "sleep"
    /\ UNCHANGED <<reader, writer, channelVars, appVars, listeners, running, notify,
                   mainVars, panicked>>

WakeUp ==
    /\ dumper = "sleep"
    /\ dumper' = "check"
    /\ UNCHANGED <<reader, writer, channelVars, appVars, pmVars, notify, mainVars,
                   panicked>>

----------------------------------------------------------------------------
(* main(): server.Destroy(), app.Destroy(), proctreeManager.Destroy().     *)

\* router.Shutdown() returns: no new upgrade, the open websockets stay.
Interrupt ==
    /\ main = "serving"
    /\ main' = "app_lock"
    /\ UNCHANGED <<reader, writer, channelVars, appVars, pmVars, dumpVars, left, victim,
                   panicked>>

DestroyLock ==
    /\ main = "app_lock"
    /\ appLock = "free"
    /\ appLock' = "main"
    /\ left' = clients
    /\ main' = "handlers"
    /\ UNCHANGED <<reader, writer, channelVars, clients, pmVars, dumpVars, victim,
                   panicked>>

DestroyClose(c) ==
    /\ main = "handlers"
    /\ c \in left
    /\ CloseChannel(c)
    /\ left' = left \ {c}
    /\ victim' = c
    /\ main' = "unregister"
    /\ UNCHANGED <<reader, writer, queued, appVars, pmVars, dumpVars>>

DestroyUnregister ==
    /\ main = "unregister"
    /\ pmLock = "free"
    /\ listeners' = listeners \ {victim}
    /\ victim' = "none"
    /\ main' = "handlers"
    /\ UNCHANGED <<reader, writer, channelVars, appVars, pmLock, running, dumpVars, left,
                   panicked>>

DestroyClear ==
    /\ main = "handlers"
    /\ left = {}
    /\ clients' = {}
    /\ main' = "pm_lock"
    /\ UNCHANGED <<reader, writer, channelVars, appLock, pmVars, dumpVars, left, victim,
                   panicked>>

\* proctreeManager.Destroy() keeps its mutex while it waits for dumpLoop.
StopDumps ==
    /\ main = "pm_lock"
    /\ pmLock = "free"
    /\ pmLock' = "main"
    /\ listeners' = {}
    /\ running' = FALSE
    /\ main' = "wait"
    /\ UNCHANGED <<reader, writer, channelVars, appVars, dumpVars, left, victim, panicked>>

DumpsStopped ==
    /\ main = "wait"
    /\ dumper = "exited"
    /\ pmLock' = "free"
    /\ appLock' = "free"
    /\ main' = "netlink"
    /\ UNCHANGED <<reader, writer, channelVars, clients, listeners, running, dumpVars,
                   left, victim, panicked>>

\* nl.Destroy(), and the return of main() that ends the process.
Exit ==
    /\ main = "netlink"
    /\ main' = "done"
    /\ UNCHANGED <<reader, writer, channelVars, appVars, pmVars, dumpVars, left, victim,
                   panicked>>

----------------------------------------------------------------------------
Lock(c) ==
    AddClient(c) \/ Register(c) \/ RemoveUnknown(c) \/ RemoveLock(c) \/ RemoveUnregister(c)

Go(c) == StartWriter(c) \/ Answer(c) \/ Reply(c) \/ RemoveClose(c) \/ RemoveDelete(c)

Write(c) == Receive(c) \/ Drained(c) \/ Written(c)

DumpLoop ==
    \/ CheckRunning \/ Dump \/ NotifyDone \/ WakeUp
    \/ \E c \in Conns : NotifyOne(c)

Destroy ==
    \/ DestroyClear \/ DumpsStopped \/ Exit
    \/ \E c \in Conns : DestroyClose(c)

DestroyLocks == DestroyLock \/ DestroyUnregister \/ StopDumps

Serve ==
    \/ \E c \in Conns : Upgrade(c) \/ Read(c) \/ Lock(c) \/ Go(c) \/ Write(c)
    \/ DumpLoop \/ NotifyLock

Shutdown == Interrupt \/ Destroy \/ DestroyLocks

Next == Alive /\ (Serve \/ Shutdown)

Spec == Init /\ [][Next]_vars

\* A goroutine that can run runs, and sync.Mutex starves nobody: a goroutine waiting
\* for more than 1 ms is handed the lock. Nothing makes a peer send, take in what is
\* written to it, or the operator interrupt. The write to a peer that is gone fails.
ServeFairness ==
    /\ \A c \in Conns :
         /\ WF_vars(Alive /\ Go(c))
         /\ SF_vars(Alive /\ Lock(c))
         /\ WF_vars(Alive /\ (Receive(c) \/ Drained(c)))
         /\ WF_vars(Alive /\ reader[c] = "gone" /\ Written(c))
    /\ WF_vars(Alive /\ DumpLoop)
    /\ SF_vars(Alive /\ NotifyLock)

ShutdownFairness ==
    /\ WF_vars(Alive /\ Destroy)
    /\ SF_vars(Alive /\ DestroyLocks)

FairSpec == Spec /\ ServeFairness /\ ShutdownFairness

\* What is needed for the bridge to serve, until somebody interrupts it.
ServingSpec == Spec /\ ServeFairness

----------------------------------------------------------------------------
(* Properties.                                                             *)

\* Every variable keeps its shape.
TypeOK ==
    /\ reader \in [Conns -> {"none", "add", "go", "read", "register", "request", "send",
                             "remove", "close", "unregister", "delete", "gone"}]
    /\ writer \in [Conns -> {"none", "receive", "write", "gone"}]
    /\ queued \in [Conns -> 0 .. BufferSize]
    /\ closed \in [Conns -> BOOLEAN]
    /\ appLock \in {"free", "main"} \cup Conns
    /\ clients \subseteq Conns
    /\ pmLock \in {"free", "main", "dump"}
    /\ listeners \subseteq Conns
    /\ running \in BOOLEAN
    /\ dumper \in {"check", "dump", "lock", "notify", "sleep", "exited"}
    /\ notify \subseteq Conns
    /\ main \in {"serving", "app_lock", "handlers", "unregister", "pm_lock", "wait",
                 "netlink", "done"}
    /\ left \subseteq Conns
    /\ victim \in Conns \cup {"none"}
    /\ panicked \in {"no", "reader", "dump", "close"}

\* RemoveClient() by the reader and Destroy() by main() race for the same handler, and
\* only one of them closes its channel: no close of a closed channel.
ClosedOnce == panicked # "close"

\* Whenever app.mu is free the handlers that app knows have an open channel, and while
\* the bridge serves, nobody else is registered for dumps: a connection that is over
\* leaves no listener behind, so a dump that starts then calls no dead handler.
RegistryConsistent ==
    appLock = "free" =>
        /\ \A c \in clients : ~closed[c]
        /\ main = "serving" => listeners \subseteq clients

\* What handler.go:22 and ws.go:33 say of the write channel: it is the handler's. The
\* handler that closed its channel is not made to send on it any more by dumpLoop.
DumpSendsOnOpenChannel == panicked # "dump"

\* A connection whose reader has failed is removed and its writer goroutine ends, whatever
\* the other connections, slow peers and the dump loop do meanwhile, unless the bridge
\* is interrupted.
RemovalCompletes ==
    \A c \in Conns :
        reader[c] = "remove" ~>
          (reader[c] = "gone" /\ writer[c] = "gone") \/ main # "serving" \/ ~Alive

\* Peers that take nothing in never stop the process tree from being dumped, as long as
\* nobody interrupts the bridge.
DumpsGoOn == []<>(dumper = "check" \/ main # "serving" \/ ~Alive)

\* What main.go:22 says: after an interrupt the server shuts down gracefully, so that
\* main() gets past srv.Destroy().
ShutdownCompletes == main = "app_lock" ~> main = "done" \/ panicked # "no"
=============================================================================
