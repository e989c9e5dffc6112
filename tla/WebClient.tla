----------------------------- MODULE WebClient -----------------------------
(***************************************************************************)
(* The web application: the store of the websocket (webapp/src/stores),    *)
(* the hooks that subscribe to it and hold what arrives (hooks), the pages *)
(* that ask for what their URL says and the links between them (App.tsx,   *)
(* features, components), composed with the drawing of the tree            *)
(* (TreeViewer), the timeline (SchedTimeline) and the types of the         *)
(* messages (WebTypes). The bridge is here what it answers one client.     *)
(*                                                                         *)
(* An event of the browser (a click, a message, the opening of the socket) *)
(* and the effects that React runs for it are one step, for the store and  *)
(* the location are read synchronously; the toast of an error, whose       *)
(* component is rendered in a task of its own, is a later step.            *)
(* A reload of the page is an initial state.                               *)
(***************************************************************************)
EXTENDS WebTypes, SchedTimeline, TreeViewer, FiniteSets

CONSTANTS
    Tasks,       \* the ids, that is pid and start time, a URL can have
    Index,       \* the indices of a page table
    Levels,      \* the levels of the page tables: 4 in the code
    Trees,       \* inputs: what toTreeNodes() makes of a dump
    Captures,    \* inputs: the events of a capture
    Moves,       \* inputs: the nodes that are moved at once, each with where to
    Errors,      \* the texts of the bridge's errors
    BufferSize,  \* bound: messages on the way to the client, more are lost
    MaxAsked     \* bound of the model: messages on their way when the user acts

ASSUME LevelsAssumption == Levels \in Nat \ {0}
ASSUME TasksAssumption == kernelId \notin Tasks
ASSUME IndexAssumption == Index \subseteq Nat
\* Each task that is drawn can be linked to.
ASSUME TreesAssumption ==
    \A t \in Trees : /\ DOMAIN t \subseteq Tasks \cup {kernelId}
                     /\ \A id \in DOMAIN t : ToSet(t[id].subNodes) \subseteq Tasks
\* What a capture holds: events, in any order.
ASSUME CapturesAssumption == Captures \subseteq Seq(Switch)
ASSUME ErrorsAssumption == "" \notin Errors
ASSUME BoundsAssumption == BufferSize \in Nat \ {0} /\ MaxAsked \in Nat \ {0}

VARIABLES
    socket,      \* readyState of the store's socket
    status,      \* the store's status
    listeners,   \* listeners[c]: callbacks in the store for the messages of type c
    cleanups,    \* the types whose effect has left an unsubscribe function with React
    url,         \* the location
    paused,      \* useProctree(): paused
    viewer,      \* useProctree(): nodes and loaded, and the state of Viewer
    events,      \* useSchedhook(): events
    entries,     \* useVME(): entries, and which question they answer
    viewData,    \* useTaskview(): the task of viewData
    errors,      \* useErrors()
    toServer,    \* messages on the way to the bridge
    toClient,    \* messages in the bridge's channel and on the way to the client
    registered,  \* the bridge sends this client its dumps
    captured,    \* history: the last capture that became a timeline
    held,        \* history: the nodes that are to be where the user left them
    strayed,     \* history: the nodes moved since the last layout and not noted
    fate         \* history: what became of the last question of a page

pageVars == <<paused, viewer, events, entries, viewData, captured, held, strayed>>
pipes == <<toServer, toClient, registered>>
vars == <<socket, status, listeners, cleanups, url, pageVars, errors, pipes, fate>>

Channels == {"Error", "ProctreeDump", "SchedhookCap", "VMEDump", "TaskviewData"}
Pages == {"proctree", "schedhook", "vm", "view"}
ChannelOf ==
    [proctree |-> "ProctreeDump", schedhook |-> "SchedhookCap", vm |-> "VMEDump",
     view |-> "TaskviewData"]

\* App.tsx: "/", "/schedhook", "/vm/:pid/:startTime/*?" and "/view/:pid/:startTime". The
\* parts of a path are numbers here.
Home == [page |-> "proctree", task |-> kernelId, parts |-> <<>>]
SchedUrl == [page |-> "schedhook", task |-> kernelId, parts |-> <<>>]
VmUrl(t, parts) == [page |-> "vm", task |-> t, parts |-> parts]
ViewUrl(t) == [page |-> "view", task |-> t, parts |-> <<>>]

PartsUpTo(n) == UNION {[1 .. k -> Index] : k \in 0 .. n}
VisitedUrls ==
    {Home, SchedUrl} \cup {ViewUrl(t) : t \in Tasks}
    \cup {VmUrl(t, p) : t \in Tasks, p \in PartsUpTo(Levels - 1)}
\* A link of an old table can have two more parts than a table has below it.
Urls == VisitedUrls \cup {VmUrl(t, p) : t \in Tasks, p \in PartsUpTo(Levels + 1)}

----------------------------------------------------------------------------
(* The adapters of the paths.                                              *)

Unspec == -1

\* toPathObj(): with more parts than levels the last level is left out.
toPathObj(parts) ==
    [k \in 1 .. Levels |->
        IF k <= Len(parts) /\ (k < Levels \/ Len(parts) = Levels) THEN parts[k] ELSE Unspec]

\* toIndices(): the specified ones, in their order.
toIndices(pathObj) ==
    LET specified == {k \in 1 .. Levels : pathObj[k] # Unspec}
        nth(n) == CHOOSE k \in specified : Cardinality({j \in specified : j <= k}) = n
    IN  [n \in 1 .. Cardinality(specified) |-> pathObj[nth(n)]]

Question(u) == [key |-> u.task, path |-> toPathObj(u.parts)]
NoQuestion == [key |-> kernelId, path |-> [k \in 1 .. Levels |-> Unspec]]

\* A table as the page tells its entries apart: none, a link or not a link.
Tables == [Index -> {"none", "table", "other"}]
NoEntries == [answers |-> NoQuestion, table |-> [i \in Index |-> "none"]]

----------------------------------------------------------------------------
(* The hooks.                                                              *)

\* useErrors() is mounted always, the hook of a page with the page.
Mounted(c, u) == c = "Error" \/ ChannelOf[u.page] = c

\* The conditions under which the effect of a hook subscribes.
Subscribes(c, u, s, p) ==
    /\ Mounted(c, u)
    /\ s = "Connected"
    /\ c = "ProctreeDump" => ~p

\* Mutant of Reruns: paused is not a dependency of the effect of useProctree().
RerunsPausedMissing(c) ==
    \/ Mounted(c, url) # Mounted(c, url')
    \/ Mounted(c, url) /\ status # status'

\* Whether React runs the effect of c's hook, or only its cleanup: it is mounted,
\* unmounted or one of its dependencies has changed.
Reruns(c) ==
    \/ Mounted(c, url) # Mounted(c, url')
    \/ Mounted(c, url) /\ status # status'
    \/ c = "ProctreeDump" /\ Mounted(c, url) /\ paused # paused'

\* subscribe(), and the function that it returns.
RunEffects ==
    LET added(c) == IF Subscribes(c, url', status', paused') THEN 1 ELSE 0
        removed(c) == IF c \in cleanups THEN 1 ELSE 0
    IN  /\ listeners' =
              [c \in Channels |->
                  IF Reruns(c) THEN listeners[c] - removed(c) + added(c) ELSE listeners[c]]
        /\ cleanups' =
              {c \in Channels : IF Reruns(c) THEN added(c) = 1 ELSE c \in cleanups}

\* send(): on a socket that is not open nothing is sent and nobody is told.
Send(sock, m) == toServer' = IF sock = "open" THEN Append(toServer, m) ELSE toServer

\* What the page of u asks for, by the effect of its hook or its feature, and what
\* becomes of it. Taskview asks only when connected, VMExplorer in any case.
Ask(u, sock, s) ==
    CASE u.page = "proctree" ->
            /\ IF s = "Connected" THEN Send(sock, [type |-> "ReqProctreeDump"])
               ELSE UNCHANGED toServer
            /\ fate' = "none"
      [] u.page = "schedhook" -> UNCHANGED toServer /\ fate' = "none"
      [] u.page = "vm" ->
            /\ Send(sock, [type |-> "ReqVMEDump", question |-> Question(u)])
            /\ fate' = IF sock = "open" THEN "asked" ELSE "dropped"
      [] u.page = "view" ->
            /\ IF s = "Connected" THEN Send(sock, [type |-> "ReqTaskview", key |-> u.task])
               ELSE UNCHANGED toServer
            /\ fate' = IF sock = "open" /\ s = "Connected" THEN "asked" ELSE "dropped"

\* What the pages hold is lost when they are unmounted.
Unmount ==
    /\ paused' = FALSE
    /\ viewer' = InitialViewer
    /\ events' = <<>>
    /\ entries' = NoEntries
    /\ viewData' = kernelId
    /\ captured' = <<>>
    /\ held' = NoMap
    /\ strayed' = {}

Init ==
    /\ socket = "connecting"
    /\ status = "Connecting"
    /\ listeners = [c \in Channels |-> 0]
    /\ cleanups = {}
    /\ url \in Urls
    /\ paused = FALSE
    /\ viewer = InitialViewer
    /\ events = <<>>
    /\ entries = NoEntries
    /\ viewData = kernelId
    /\ errors = [wsError |-> "", indexMoved |-> FALSE, toasted |-> ""]
    /\ toServer = <<>>
    /\ toClient = <<>>
    /\ registered = FALSE
    /\ captured = <<>>
    /\ held = NoMap
    /\ strayed = {}
    /\ fate = IF url.page \in {"vm", "view"} THEN "dropped" ELSE "none"

----------------------------------------------------------------------------
(* The socket.                                                             *)

\* Mutant of Open: useProctree() sends its request when it is mounted.
OpenMountedAsk ==
    /\ socket = "connecting"
    /\ socket' = "open"
    /\ status' = "Connected"
    /\ UNCHANGED <<url, pageVars, errors, toClient, registered>>
    /\ RunEffects
    /\ IF url.page = "proctree"
       THEN UNCHANGED <<toServer, fate>>
       ELSE Ask(url, "open", "Connected")

\* onopen: the hooks subscribe and the page asks, useProctree() unless it is paused.
Open ==
    /\ socket = "connecting"
    /\ socket' = "open"
    /\ status' = "Connected"
    /\ UNCHANGED <<url, pageVars, errors, toClient, registered>>
    /\ RunEffects
    /\ IF url.page = "proctree" /\ paused
       THEN UNCHANGED <<toServer, fate>>
       ELSE Ask(url, "open", "Connected")

\* A socket that ends takes along what is on its way.
Lost ==
    IF \/ fate \in {"asked", "refused", "overtaken"}
       \/ fate = "answered" /\ toClient # <<>>
    THEN "lost" ELSE fate

\* onclose and onerror write a line to the console: the status stays what it is.
Close ==
    /\ socket \in {"connecting", "open"}
    /\ socket' = "closed"
    /\ toServer' = <<>> /\ toClient' = <<>> /\ registered' = FALSE
    /\ fate' = Lost
    /\ UNCHANGED <<status, listeners, cleanups, url, pageVars, errors>>

\* The effect of App is cleaned up and run again, as by StrictMode (main.tsx) and when
\* the development server replaces the component: disconnect() and connect(). The
\* hooks see the status that is left, and VMExplorer asks a socket that is not open.
Reconnect ==
    /\ socket' = "connecting"
    /\ status' = "Connecting"
    /\ toServer' = <<>> /\ toClient' = <<>> /\ registered' = FALSE
    /\ fate' = IF url.page = "vm" /\ status = "Connected" THEN "dropped" ELSE Lost
    /\ UNCHANGED <<url, pageVars, errors>>
    /\ RunEffects

----------------------------------------------------------------------------
(* Messages.                                                               *)

Nonempty(m) == m.type = "SchedhookCap" => m.events # <<>>

\* onmessage gets to the listener, and its type guard lets the message pass.
Heard(m) ==
    LET data == Envelope(m.type, Nonempty(m))
    IN  /\ isWSMessage(data)
        /\ listeners[m.type] > 0
        /\ Accepts(m.type, Get(data, "payload"))

\* Which nodes are to stay where the user has left them: those drawn before and now
\* whose suggestion is where it was.
StillHeld(before, after) ==
    LET was == Layout(before.tree, Drawn(before.tree, before.expanded))
        is == Layout(after.tree, Drawn(after.tree, after.expanded))
    IN  [id \in {i \in DOMAIN held : withinThreshold(was, is, i)} |-> held[id]]

\* What an error makes of a refusal: there is one last error, the one a toast is for.
Refused == {"refused", "heard", "overtaken", "told"}
RefusedThen(m) ==
    IF m.question = Question(url) THEN "heard"
    ELSE IF fate = "heard" THEN "overtaken"
    ELSE fate

\* The handlers of the hooks.
ReceiveError(m) ==
    /\ m.type = "Error"
    /\ errors' = [errors EXCEPT !.wsError = m.message, !.indexMoved = TRUE]
    /\ fate' = IF fate \in Refused THEN RefusedThen(m) ELSE fate
    /\ UNCHANGED pageVars

ReceiveDump(m) ==
    /\ m.type = "ProctreeDump"
    /\ viewer' = ShowTree(viewer, m.tree)
    /\ held' = StillHeld(viewer, viewer')
    /\ strayed' = {}
    /\ UNCHANGED <<paused, events, entries, viewData, captured, errors, fate>>

\* toSchedEvents() may throw, before setEvents(). The old timeline stays.
ReceiveCapture(m) ==
    /\ m.type = "SchedhookCap"
    /\ events' = IF Throws(m.events) THEN events ELSE toSchedEvents(m.events)
    /\ captured' = IF HasInterval(m.events) \/ m.events = <<>> THEN m.events ELSE captured
    /\ UNCHANGED <<paused, viewer, entries, viewData, held, strayed, errors, fate>>

ReceiveEntries(m) ==
    /\ m.type = "VMEDump"
    /\ entries' = [answers |-> m.question, table |-> m.table]
    /\ UNCHANGED <<paused, viewer, events, viewData, captured, held, strayed, errors,
                   fate>>

ReceiveView(m) ==
    /\ m.type = "TaskviewData"
    /\ viewData' = m.key
    /\ UNCHANGED <<paused, viewer, events, entries, captured, held, strayed, errors, fate>>

Deliver == toClient # <<>> /\ toClient' = Tail(toClient)

Receive ==
    /\ Deliver
    /\ LET m == Head(toClient)
       IN  IF ~Heard(m) THEN UNCHANGED <<pageVars, errors, fate>>
           ELSE \/ ReceiveError(m) \/ ReceiveDump(m) \/ ReceiveCapture(m)
                \/ ReceiveEntries(m) \/ ReceiveView(m)
    /\ UNCHANGED <<socket, status, listeners, cleanups, url, toServer, registered>>

\* The errorIndex counts on; all that matters is whether it has moved since the effect of
\* Errors ran.
ErrorPending == errors.indexMoved \/ errors.wsError # errors.toasted

\* Mutant of ShowErrors: the effect depends on the text of the error only.
ShowNewErrors ==
    /\ errors.wsError # ""
    /\ ErrorPending
    /\ errors' = [errors EXCEPT !.indexMoved = FALSE, !.toasted = errors.wsError]
    /\ fate' = IF fate = "heard" /\ errors.wsError # errors.toasted THEN "told" ELSE fate
    /\ UNCHANGED <<socket, status, listeners, cleanups, url, pageVars, pipes>>

\* Errors is rendered and its effect runs, for the error that is then the last: one that
\* came before it since the last time gets no toast.
ShowErrors ==
    /\ errors.wsError # ""
    /\ ErrorPending
    /\ errors' = [errors EXCEPT !.indexMoved = FALSE, !.toasted = errors.wsError]
    /\ fate' = IF fate = "heard" THEN "told" ELSE fate
    /\ UNCHANGED <<socket, status, listeners, cleanups, url, pageVars, pipes>>

----------------------------------------------------------------------------
(* The bridge, as the client of one connection sees it. It serves the      *)
(* messages one by one (app/handler.go).                                   *)

\* Mutant of Reply: the bridge queues whatever it has to send.
ReplyUnbounded(m) == toClient' = Append(toClient, m)

\* sendMessage(): what finds the channel full is lost.
Reply(m) == toClient' = IF Len(toClient) < BufferSize THEN Append(toClient, m) ELSE toClient

\* Which question an error is about it does not say: that part is the model's.
Error(text, q) == [type |-> "Error", message |-> text, question |-> q]

\* The question that is served is the one whose fate is told.
Latest ==
    /\ fate = "asked"
    /\ \A i \in 2 .. Len(toServer) : toServer[i].type \notin {"ReqVMEDump", "ReqTaskview"}

FateIs(told) == fate' = IF Latest THEN told ELSE fate
FateOfReply(told) == FateIs(IF Len(toClient) < BufferSize THEN told ELSE "lost")

\* Register() fails for a client that is registered, and the error is dropped.
ServeRegister ==
    /\ Head(toServer).type = "ReqProctreeDump"
    /\ registered' = TRUE
    /\ UNCHANGED <<toClient, fate>>

\* A start is answered when it fails.
ServeStart ==
    /\ Head(toServer).type = "ReqCapStart"
    /\ UNCHANGED toClient \/ \E e \in Errors : Reply(Error(e, NoQuestion))
    /\ UNCHANGED <<registered, fate>>

ServeEnd ==
    /\ Head(toServer).type = "ReqCapEnd"
    /\ \/ \E e \in Errors : Reply(Error(e, NoQuestion))
       \/ \E c \in Captures : Reply([type |-> "SchedhookCap", events |-> c])
    /\ UNCHANGED <<registered, fate>>

\* The path of a page's contents is refused, and a table of the last level has no table
\* below it.
ServeVM ==
    LET m == Head(toServer)
        depth == Len(toIndices(m.question.path))
    IN  /\ m.type = "ReqVMEDump"
        /\ \/ /\ depth < Levels
              /\ \E t \in Tables :
                    /\ depth = Levels - 1 => \A i \in Index : t[i] # "table"
                    /\ Reply([type |-> "VMEDump", question |-> m.question, table |-> t])
              /\ FateOfReply("answered")
           \/ /\ \E e \in Errors : Reply(Error(e, m.question))
              /\ FateOfReply("refused")
        /\ UNCHANGED registered

\* A view that fails is not answered.
ServeView ==
    LET m == Head(toServer)
    IN  /\ m.type = "ReqTaskview"
        /\ \/ Reply([type |-> "TaskviewData", key |-> m.key]) /\ FateOfReply("answered")
           \/ UNCHANGED toClient /\ FateIs("unanswered")
        /\ UNCHANGED registered

Serve ==
    /\ toServer # <<>>
    /\ toServer' = Tail(toServer)
    /\ ServeRegister \/ ServeStart \/ ServeEnd \/ ServeVM \/ ServeView
    /\ UNCHANGED <<socket, status, listeners, cleanups, url, pageVars, errors>>

\* The dump loop of the bridge goes on until the client is gone.
Dump ==
    /\ registered
    /\ Len(toClient) < BufferSize
    /\ \E t \in Trees : Reply([type |-> "ProctreeDump", tree |-> t])
    /\ UNCHANGED <<socket, status, listeners, cleanups, url, pageVars, errors, toServer,
                   registered, fate>>

----------------------------------------------------------------------------
(* The user.                                                               *)

loaded == DOMAIN viewer.tree # {}

\* Nav: the tables on the way, but for the one that is shown.
NavLinks ==
    LET indices == toIndices(toPathObj(url.parts))
    IN  {VmUrl(url.task, SubSeq(indices, 1, n)) : n \in 0 .. Len(indices) - 1}

\* Entries: present and not a leaf.
EntryLinks ==
    {VmUrl(url.task, Append(toIndices(toPathObj(url.parts)), i)) :
        i \in {j \in Index : entries.table[j] = "table"}}

\* Header: back to the tree, and to the view of the task.
HeaderLinks == {Home, ViewUrl(url.task)}

Links ==
    CASE url.page = "proctree" ->
            IF ~loaded THEN {}
            ELSE {SchedUrl} \cup {ViewUrl(t) : t \in ViewLinks(viewer)}
                 \cup {VmUrl(t, <<>>) : t \in VmLinks(viewer)}
      [] url.page = "schedhook" -> {Home}
      [] url.page = "vm" -> HeaderLinks \cup NavLinks \cup EntryLinks
      [] url.page = "view" ->
            IF viewData = kernelId THEN {} ELSE {Home, VmUrl(viewData, <<>>)}

Patient == Len(toServer) + Len(toClient) < MaxAsked

\* Mutant of GoTo: the effect of VMExplorer does not depend on the path.
GoToSameTask(u) ==
    /\ url' = u
    /\ IF u.page # url.page
       THEN Unmount /\ Ask(u, socket, status)
       ELSE /\ UNCHANGED pageVars
            /\ IF u.page = "vm" /\ u.task # url.task THEN Ask(u, socket, status)
               ELSE /\ UNCHANGED toServer
                    /\ fate' = IF u.page = "view" /\ u # url THEN "missed" ELSE fate
    /\ UNCHANGED <<socket, status, errors, toClient, registered>>
    /\ RunEffects

\* The location changes. A page of the same route stays mounted: VMExplorer asks again
\* when its parameters change, Taskview does not.
GoTo(u) ==
    /\ url' = u
    /\ IF u.page # url.page
       THEN Unmount /\ Ask(u, socket, status)
       ELSE /\ UNCHANGED pageVars
            /\ IF u.page = "vm" /\ u # url THEN Ask(u, socket, status)
               ELSE /\ UNCHANGED toServer
                    /\ fate' = IF u.page = "view" /\ u # url THEN "missed" ELSE fate
    /\ UNCHANGED <<socket, status, errors, toClient, registered>>
    /\ RunEffects

Follow ==
    /\ Patient
    /\ \E u \in Links : GoTo(u)

\* By the history of the browser to a page visited before, without a reload.
Jump ==
    /\ Patient
    /\ \E u \in VisitedUrls \ {url} : GoTo(u)

\* togglePause(), and the effect of useProctree().
TogglePause ==
    /\ url.page = "proctree" /\ loaded /\ Patient
    /\ paused' = ~paused
    /\ IF paused /\ status = "Connected" THEN Send(socket, [type |-> "ReqProctreeDump"])
       ELSE UNCHANGED toServer
    /\ UNCHANGED <<socket, status, url, viewer, events, entries, viewData, captured, held,
                   strayed, errors, toClient, registered, fate>>
    /\ RunEffects

\* startCapture() and endCapture() are sent without a look at the status.
Capture ==
    /\ url.page = "schedhook" /\ Patient
    /\ \E type \in {"ReqCapStart", "ReqCapEnd"} : Send(socket, [type |-> type])
    /\ UNCHANGED <<socket, status, listeners, cleanups, url, pageVars, errors, toClient,
                   registered, fate>>

Toggle(id) ==
    /\ url.page = "proctree" /\ loaded
    /\ CanToggle(viewer, id)
    /\ viewer' = ToggleExpand(viewer, id)
    /\ held' = StillHeld(viewer, viewer')
    /\ strayed' = {}
    /\ UNCHANGED <<socket, status, listeners, cleanups, url, paused, events, entries,
                   viewData, captured, errors, pipes, fate>>

\* Of the nodes that are selected the user grabs id.
Drag(id, moved) ==
    /\ url.page = "proctree"
    /\ DOMAIN moved \subseteq DOMAIN viewer.nodes
    /\ viewer' = DragStop(viewer, id, moved)
    /\ held' = [i \in DOMAIN held \cup {id} |-> IF i = id THEN moved[id] ELSE held[i]]
    /\ strayed' = (strayed \cup DOMAIN moved) \ {id}
    /\ UNCHANGED <<socket, status, listeners, cleanups, url, paused, events, entries,
                   viewData, captured, errors, pipes, fate>>

\* By the arrow keys or the box around the selection, or while a drag goes on.
Nudge(moved) ==
    /\ url.page = "proctree"
    /\ DOMAIN moved \subseteq DOMAIN viewer.nodes
    /\ viewer' = MoveNodes(viewer, moved)
    /\ strayed' = strayed \cup DOMAIN moved
    /\ UNCHANGED <<socket, status, listeners, cleanups, url, paused, events, entries,
                   viewData, captured, held, errors, pipes, fate>>

Next ==
    \/ Open \/ Close \/ Reconnect
    \/ Receive \/ ShowErrors
    \/ Serve \/ Dump
    \/ Follow \/ Jump \/ TogglePause \/ Capture
    \/ \E id \in DOMAIN viewer.nodes : Toggle(id)
    \/ \E moved \in Moves : Nudge(moved) \/ \E id \in DOMAIN moved : Drag(id, moved)

Spec == Init /\ [][Next]_vars

\* The browser dispatches the messages that have arrived, the bridge serves its client
\* and its dump loop goes on.
FairSpec == Spec /\ WF_toClient(Deliver) /\ WF_vars(Serve) /\ WF_vars(Dump)

----------------------------------------------------------------------------
(* Properties.                                                             *)

Fates == {"none", "asked", "answered", "lost", "dropped", "unanswered", "missed"} \cup Refused

\* Every variable keeps its shape.
TypeOK ==
    /\ socket \in {"connecting", "open", "closed"}
    /\ status \in {"Connecting", "Connected"}
    /\ listeners \in [Channels -> Nat] /\ cleanups \subseteq Channels
    /\ url \in Urls
    /\ paused \in BOOLEAN /\ registered \in BOOLEAN
    /\ viewData \in Tasks \cup {kernelId}
    /\ entries.table \in Tables
    /\ Len(toClient) <= BufferSize
    /\ strayed \subseteq DOMAIN viewer.nodes
    /\ fate \in Fates

\* The callbacks in the store are those of the page that is shown, one each: none stays
\* behind when pages come and go, the dumps are paused or the socket is replaced, and
\* none is missing while the store believes to be connected.
OneListener ==
    \A c \in Channels :
        listeners[c] = IF Subscribes(c, url, status, paused) THEN 1 ELSE 0

\* When nothing is under way, a page of a task shows what its URL says, in whatever order
\* links were followed and answers came, or its last question has met one of
\* the fates by which the code leaves the old contents or none: refused, lost
\* in a full channel or with the socket, asked of a socket that is not open,
\* not answered, or not asked at all when a task view follows on another one.
\* A table that is shown under its own path has only links that the kernel accepts.
ShownAnswersUrl ==
    (url.page \in {"vm", "view"} /\ toServer = <<>> /\ toClient = <<>>) =>
        \/ fate \in {"heard", "told", "lost", "dropped", "unanswered", "missed"}
        \/ /\ fate = "answered"
           /\ url.page = "view" => viewData = url.task
           /\ url.page = "vm" =>
                 /\ entries.answers = Question(url)
                 /\ \A u \in EntryLinks : Len(u.parts) < Levels

\* When a table page is refused, the user is told: a toast is shown for the error about what
\* its URL says now, once nothing is under way. An error that comes before the toast
\* of the one before it is shown takes its place, and the effect must not miss one
\* with the text of the last; but it is never the error about the page that is
\* shown whose toast gets lost, for no other error is on its way behind it.
RefusalTold ==
    (url.page = "vm" /\ toServer = <<>> /\ toClient = <<>> /\ ~ErrorPending) =>
        fate \notin {"refused", "heard", "overtaken"}

\* The timeline on the page is that of the last capture, without one no timeline. A capture
\* that tells of no interval leaves the timeline before it.
TimelineTrue ==
    url.page = "schedhook" =>
        IF captured = <<>> THEN events = <<>> ELSE ShowsCapture(events, captured)

\* A message from the bridge is never dropped by a type guard, and every field
\* that a page reads of it, demanded by its guard or not, is in it.
ReadFieldsArrive ==
    \A k \in DOMAIN toClient :
        LET type == toClient[k].type
            data == Envelope(type, Nonempty(toClient[k]))
        IN  /\ isWSMessage(data)
            /\ Accepts(type, Get(data, "payload"))
            /\ ReadsArrive(type, Get(data, "payload"))

\* The node that the user has grabbed and dragged is where it was left for as long as it is
\* drawn and suggested to be where it was, and otherwise where it is suggested,
\* whatever was dragged, collapsed, expanded and gone before. Nodes that were moved
\* along with it, or by the keys, are not noted: they are where they were moved to until
\* the next dump or toggle, and then back.
LayoutRespectsUser ==
    LET drawn == Drawn(viewer.tree, viewer.expanded)
        suggested == Layout(viewer.tree, drawn)
    IN  /\ DOMAIN viewer.nodes = drawn
        /\ \A id \in drawn \ strayed :
              viewer.nodes[id] = IF id \in DOMAIN held THEN held[id] ELSE suggested[id]

\* On the page of the tree the loader gives way to a tree, unless the user leaves or the
\* connection ends.
FirstDumpShown ==
    (url.page = "proctree" /\ socket = "open") ~>
        (loaded \/ url.page # "proctree" \/ socket # "open")
=============================================================================
