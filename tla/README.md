# kernel-glassbox in TLA+

kernel-glassbox shows the inside of a running Linux kernel in a browser: a kernel module (`src/kernel`, C) reads the
process tree, page tables, single tasks and context switches and serves them over generic netlink; a bridge
(`src/bridge`, Go) forwards them over websockets; a web application (`src/webapp`, TypeScript) draws them. This directory
holds TLA+ modules of the parts of it that are hard to test, the TLC runs that check them on small instances, and proofs,
checked by TLAPS, for every size of them.

## 1. The system

| component | state | operations | talks to |
|---|---|---|---|
| scheduler capture, `kernel/src/schedhook.c` | `_gb_schedhook_state`; per CPU a spinlock, 100 event slots and their number | the sched_switch probe; `cap_start`, `cap_end`, `cap_free`; `init`, `exit` | the tracepoint calls the probe; netlink handlers call the rest |
| module, `main.c`, `netlink.c` | whether the probe and the netlink family are registered | `gb_init`, `gb_exit` | all of the kernel side |
| netlink handlers, `nl_*.c` | a context for each dump: what is dumped and how far | start, dump (once for each buffer), done; one reply for CAP_START | call the readers; answer the bridge |
| process tree, `proctree.c` | none between calls | walk the tasks under RCU into at most `GB_PROCTREE_MAX_NODES` nodes | - |
| memory explorer, `vmexplorer.c`, `helper.c` | references to a task and its mm during a call | validate a path, find the task, walk the tables, fill 512 entries | - |
| task view, `taskview.c` | references during a call | find the task, copy its fields | - |
| bridge app and handlers, `bridge/app/app.go`, `handler.go` | `clients` under `app.mu`; a write channel for each handler | `AddClient`, `RemoveClient`, `Destroy`; the messages of a client | the managers; the websocket's writer through the channel |
| process tree manager, `bridge/app/proctree.go` | `listeners` under `mu`, `running`, a wait group | `Register`, `Unregister`, `Destroy`; `dumpLoop` every 3 s | calls the handlers back; netlink client |
| websocket endpoint, `bridge/api/ws.go` | a reader and a writer goroutine for each connection | `handleWS` | the app |
| server, `bridge/server`, `main.go` | - | start, interrupt, `Destroy` in the order router, app, netlink | - |
| netlink client, `bridge/nlclient` | one generic netlink socket | one request at a time, whoever asks | the kernel module |
| web socket store and hooks, `webapp/src/stores`, `hooks` | socket, status, listeners; the last answer for each page | connect, disconnect, send, subscribe; the handlers of five kinds of messages | the bridge |
| message types, `webapp/src/types` | none | type guards on what the bridge sends | store and hooks |
| adapters, `webapp/src/adapters` | none | rebuild the process tree, turn switches into intervals per CPU, paths of a URL | the pages |
| pages and components, `webapp/src/App.tsx`, `features`, `components` | the location; which groups of the tree are expanded, where the user dragged them, the last suggested layout | links, history, pause, capture, expand, drag; toasts | hooks; `helpers/flextree.ts` for the layout |

What makes it hard, and what has to hold:

- **Scheduler capture.** The probe checks the state *without* its lock and writes *with* it, on every CPU, while requests
  drive the state around. Snapshots must hold whole events of their own capture, at most one late event for each CPU;
  racing requests must exclude each other; failed allocations must neither leak nor leave the state stuck; unloading
  must wait for probes.
- **Bridge.** A reader and a writer goroutine for each connection, the dump loop and `main` share two mutexes and the
  channels. No channel is closed twice or used after it is closed, nobody waits for ever, slow peers hurt nobody,
  goroutines of dead connections end.
- **Readers of the kernel.** References are taken and given back along error paths, a pid may be reused between looking at
  the tree and asking for one of its tasks, a dump is cut at fixed sizes.
- **Web application.** Answers arrive after the question has changed and do not say which question they are for; effects
  subscribe and unsubscribe as pages come and go; the socket closes under the hooks; what the bridge sends, what the type
  guards demand and what the pages read are three lists kept by hand; adapters meet truncated, orphaned, unsorted or empty
  input; positions that the user has given outlive the nodes they are for.

`PROJECT.json` lists each hazard at its line with the properties that cover it.

## 2. The modules

| module | what it is |
|---|---|
| `Schedhook` | `schedhook.c`, with the part of `main.c`, `netlink.c` and `nl_schedhook.c` that calls it |
| `CaptureSession` | the abstract capture: open, empty every log, record, close, collect every log in one piece |
| `SchedhookRefinement` | the mapping from `Schedhook` to `CaptureSession`, and the property `ImplementsSession` |
| `SchedhookProofs`, `SchedhookRefinementProofs` | the theorems about `Schedhook`, and that it implements `CaptureSession` |
| `Bridge` | `handleWS`, the handlers, `app`, `proctreeManager` and the shutdown |
| `TaskRefs` | the references that the memory explorer and the task view take to a task, against tasks that come and go |
| `CaptureRequests` | the clients of the bridge over `CaptureSession`: their requests, the netlink socket, the dump of a capture |
| `VmePath` | the paths of the memory explorer: validation, walk, addresses, and the dump of a table |
| `ProctreeRead` | the walk over all tasks, the dump in several messages, the client that puts them together |
| `ProctreeTree` | extends `ProctreeRead` by what the web application makes of the answer: the tree of thread groups |
| `ProctreeView` | extends `ProctreeTree` by what of the tree is drawn |
| `WebTypes` | the messages to the web application as types: what is sent, what the guards demand, what the pages read |
| `SchedTimeline` | the timeline of a capture, and which task runs on a CPU at an instant as the reference |
| `TreeViewer` | the drawing of the tree: what is expanded, the suggested layout, what the user has dragged |
| `WebClient` | extends the three by the store, the hooks, the pages and their links, against a bridge that answers one client |
| `BridgeProofs`, `TaskRefsProofs`, `CaptureRequestsProofs`, `VmePathProofs`, `ProctreeReadProofs`, `WebClientProofs` | the theorems about the others |
| `MCBridge`, `MCTaskRefs`, `MCWebClient` | the instances for TLC; the `.cfg` files give the constants. `SchedhookRefinement`, `CaptureRequests`, `VmePath` and `ProctreeView` need no module for it |

A definition whose comment starts with "Mutant of" is not part of the model. It is a plausible mistake in the
code behind the definition it names; put in that definition's place it breaks a property, which shows that the property
depends on the code.

### Schedhook

`state`, `num`, `slots`, `lock` are the variables of the source. Each CPU has one probe at most (preemption is off):
`probe[cpu]` is where it stands, and `ProbeCheck`, `ProbeLock`, `ProbeWrite` / `ProbeFull`, `ProbeCount` are its steps, with
the write of a slot and the increment of `num_events` apart. A caller `c` is a request that runs `cap_start()` (`StartCas`,
then for each CPU `ResetLock`, `ResetNum`, `ResetSlots`, then `StartRun`) or `cap_end()` (`EndCas`, `AllocCap`, `AllocEvents`,
for each CPU `FillLock`, `FillCopy`... `FillDone` or `FillFull`, then `EndFinish`, and later `CapFree`). Both allocations may
fail. Every `cmpxchg` is one step; a call that returns at once with `-EBUSY` or `-EPERM` changes nothing and is no step.
`module` follows `gb_init()` (with its unwinding) and `gb_exit()`: netlink goes first, then the probe is unregistered, then
`tracepoint_synchronize_unregister()` waits for the probes under way. A removed module may be inserted again.

An event is reduced to four fields: its CPU, the capture in which its probe passed the check (`saw`), and the capture and
the state in which it was written (`at`, `st`). `capture` and `warned` are history variables; no guard of the code's reads
them, except that `capture < MaxCaptures` bounds the model.

Not modelled: pids, names and timestamps of an event (`comm` may be torn, as the source says), and interrupts, because
`spin_lock_irqsave` keeps the CPU to itself. `genl_unregister_family()` is taken to return when no request is being served
and no dump is open, as generic netlink guarantees.

### CaptureSession and the refinement

`CaptureSession` knows no locks, slots or callers. Its `Collect` takes one CPU's log whole, or fills the result up to
`Limit` and stops. `SchedhookRefinement` maps: a CPU's log is the slots that `num` counts; a recording is in flight while
the probe is not idle; a CPU counts as emptied from the moment its `num` is 0, and as collected from the unlock, so that the
events of the CPU that is being copied are left out of `result`. `schedhook` checks the refinement on a small instance,
`Implements` proves it.

### CaptureRequests

The composition of what lies between a client and a capture. Below is `CaptureSession`, by `INSTANCE`, which `Schedhook` is
proved to implement; what a client cares about is added to it: the probe takes the lock of its CPU's log (`Stamp`) with a
timestamp, and gives it back when it has written (`Record`), so that emptying and collecting that log wait for it. `conn` is
the mutex of `Conn.Execute()`, which every request of the bridge goes through; `pc[c]` is where the reader goroutine of a
client stands.

- A start is `StartRefused`, or `StartOpens`, `Clear` for each CPU, `StartRuns` and `Reply`. The reply may fail for lack of
  memory; the bridge then reports an error, and the capture runs.
- An end is `EndRefused`, or `EndCloses`, `Collect` for each CPU and `EndFinishes`, or `Abandon` and `EndFails` without
  memory. Then the dump: `Dump` is one message, with as many events as fit; `DumpDone` puts the messages together and sorts
  them by time, with a sort that is not stable (`Sorted`); `Answer` hands the events to the client.
- `Leave` and `Arrive` are connections that go and come. Nothing in the code ties a capture to the client that has started
  it.

`since` and `atClose` are history variables: when a client last opened a capture, and what the logs held when it asked for
the end.

The timestamps of one CPU differ, those of two CPUs may not. Not modelled: requests of processes other than the bridge, an
error of the socket in the middle of a dump, the module's removal (in `Schedhook`), and what the other managers do meanwhile on
the socket, which is one more `Execute()` that ends.

### Bridge

For each connection `reader[c]` is the goroutine of `handleWS` with all that it calls in `app.go`, `handler.go` and
`proctree.go`, and `writer[c]` the goroutine that drains the channel. `queued` and `closed` are the channel, whose limit is
`BufferSize`; `appLock` and `pmLock` are the mutexes. A critical section with no other lock, channel or call inside is one
step; `RemoveClient`, `Destroy` and `notifyAll` are split wherever another goroutine may see the difference: before each
lock, between `close(writeCh)` and `Unregister`, before each listener. A send on a closed channel and a second close set
`panicked` and end the process, since no goroutine recovers. `Interrupt` stands for the signal and `router.Shutdown()`.

The library is modelled by how `src/` uses it: `Shutdown()` refuses new upgrades and does not wait for websockets that are
already open, which the HTTP server has given up to their handlers.

Not modelled: the contents of requests and answers; a request ends with one message or none. Errors of
`router.Shutdown()` and `nl.Destroy()`, which panic in `main` on purpose.

### TaskRefs

A request `c` runs `gb_vme_get()` or `gb_taskview_get()`, one action for each step that others can see: the request with the
allocation of its result (`Ask`; if that fails it ends before it has any state), `gb_find_get_task()` (`Lookup`, `Pin`,
`Unlock`, then `Compare` or `CompareFails`), the parent under RCU (`GetParent`, `ReadParent`), the mm (`GetMM` or
`GetMMFails`, `Walk`, `MmPut`), `PutTask`, and then `Free` on the way out with an error, or the dump, which ends with
`Answered`. `found`, `dad`, `error`, `heap` and `from` are its local variables and what became of its result.

The other half is the kernel, which is not in `src/` and is modelled by what the readers rely on. `Fork` takes any pid that
is not in use, a released one too; pids that nobody has had are alike, and one of them stands for all (`Fresh`). `Exit`
drops the mm and hands to init the children that are still on the task's list. `Release` takes the task off the pid hash and
off its parent's list, and leaves its last reference to `DelayedPut`, which comes when the RCU readers of that moment are
done. A released task that a request still holds keeps the parent pointer that it had, whatever becomes of the parent. So
`PointersLive` promises that the parent is there while it is read only if the task was not released before (`Guarded`), and
`ParentIsTask`, without this condition, does not hold. Tasks are numbered in the order of their start times, so the number
serves as `start_time`.

Not modelled: threads that share an mm, `exec` that replaces it, and credentials, which are got and put in one step with no
way out between.

### VmePath

The four indices of a request are any numbers, valid or not. `ValidPath` has the nested conditions of
`_gb_vme_validate_path()`; `Descend`, `Fault`, `TooDeep` and `Fill` are the turns of `__gb_vme_fill()`. The explored process
changes its tables all the time, so what an entry is, is chosen anew when it is read, and which entries are none in `Fill`.
`Dump` is a message of the dump, with entries until one does not fit; `Explored` and `DumpFails` are how `Execute()`
returns. An entry carries no index: `Shown(i)` is what `Explore()` hands on with the index `i`, which is its place in the
list. `UserVA` and `UserVAEnd` are the arithmetic of the module and of the bridge on `u64`, checked against `HardwareIndex`,
the processor's translation. The widths (9, 12 and 64 bits) are constants, as is the number of entries, which
`NumEntriesAssumption` ties to the width of an index as `gb_vme_sanity_check()` does. The links from one table to the next
are part of `WebClient`.

### ProctreeRead, ProctreeTree and ProctreeView

`for_each_process_thread()` is two loops over lists, and each pointer that it follows is a step: `NextProcess`, `FirstThread`,
`NextThread`. `Read` is `gb_proctree_read_task()`, one step because `real_parent` is read once and a task's keys do not change.
`Truncate` leaves the inner loop only, as the `break` does. `EndWalk` hands the nodes to the dump; `Dump` is one
message, from `ctx->index` on; `DumpDone` gives the client the whole answer, `DumpFails` nothing.

The tasks are again the kernel's, and modelled by what an RCU walk may rely on: two singly linked lists, `nextProc` and
`nextThread`. A task that is born is appended; one that is released is taken out, but keeps its own pointer, so that a walk
that stands on it finds its way on, possibly to tasks that have been released too. A task that exits hands its children to
another thread of its process or to init. Not modelled: `exec` by a thread that is not the leader, which swaps keys (a hazard
in `PROJECT.json`), `CLONE_PARENT` and subreapers.

`ProctreeTree` and `ProctreeView` have no state of their own. `toTreeNodes` and its maps are those of
`adapters/proctree.ts`, with the rule that the last entry for a key counts; a list that comes of the nodes by a filter is
`Filtered` by the indices of what it keeps. `Turn` is a turn of the loop of `bfsExpandedNodes()`, and `Search` the queue and
the result after each number of turns. There are as many turns as nodes, after which the queue must be empty: that the loop
ends is part of `DrawingConsistent`, not of the model. `Nested` has the recursion of `toNestedNode()` by levels, the ids
that are so many levels below the root; a level that is empty ends it. `FlowNodes` and `FlowEdges` are what is drawn, named
by the place of a group and of a thread in it. The properties quantify over every set of expanded nodes in place of the
user's clicks. `Hanging` is a reference definition, over the answer itself, of what ought to be drawn: the least set that
has the kernel and, with a task, those that hang on it.

### WebClient, with WebTypes, SchedTimeline and TreeViewer

`socket` is the `readyState` of the store's socket, `status` the store's; `listeners[c]` counts the callbacks that the store
holds for a type of message, and `cleanups` are the effects that have left an unsubscribe function with React. `url` is the
location, and with it which page is mounted. The rest of the state is that of the hooks and of `Viewer`; all but the errors is
lost with its page (`Unmount`).

- *Socket.* `Open` is `onopen`, `Close` is `onclose` and `onerror`, which leave the status as it is, `Reconnect` the cleanup
  and the new run of the effect of `App`. Nothing in the code connects again by itself.
- *Effects.* `Subscribes` are the conditions of the hooks' effects, `Reruns` their dependencies, `RunEffects` what
  `subscribe()` and the function it returns do to the store. `Ask` is what the effects of a page send.
- *Messages.* `Receive` is `onmessage`: the type guards (`Heard`), then the handler of the hook (`ReceiveError`,
  `ReceiveDump`, `ReceiveCapture`, `ReceiveEntries`, `ReceiveView`). The toast is a step of its own, `ShowErrors`.
- *User.* `Follow` takes any link of the page (`Links`), `Jump` goes to another page by the history of the browser, without
  a reload; it may go to any URL, which is more than a history holds. `TogglePause`, `Capture`, `Toggle` are the rest of
  what can be clicked. React Flow moves every node of a selection at once (`Moves`): `Drag` is such a move by the grabbed
  node, which alone `handleNodeDragStop()` notes, `Nudge` one by the arrow keys or the box around the selection, which
  nobody notes. A reload is an initial state.
- *Bridge.* `Serve` is `OnClientMessage()` for one client, with the choice of what the kernel answers; `Reply` is
  `sendMessage()`, which drops what finds the channel full; `Dump` is a round of the dump loop. What the bridge does with
  several clients is in `Bridge`.

An event of the browser and the effects that React runs for it are one step: the store is read synchronously, and nothing
else runs between a commit and its effects but the rendering of components that do not touch the store. StrictMode's double
effects enter through `Reconnect` only. `errorIndex`, which counts on, is reduced to whether it has moved since the effect
of `Errors` ran. An error carries the question that it is about, for the history `fate` only; the code does not send that.

`WebTypes` reduces a value to its type. `Wire...` are the json tags of `bridge/model`, `is...` the guards, `...Reads` the
fields that the pages show. `SchedTimeline` keeps of a switch the CPU, the time, the task and whether it is a kernel thread.
It knows an interval by the index of the event that begins it; where in the sorted list of its CPU an event stands is said
by `Precedes`, and `Successor` is the next one there. The order of the list of all intervals, on which only the ids of the
items depend, is left out. `ShowsCapture` compares the drawn items with `Running`, the latest switch of a CPU that is not
after an instant. `TreeViewer` has the sizes, the distances and the handling of positions; the algorithm of `d3-flextree` is
external, and a simple one, which centers a group over the groups below it and moves it when one of them grows or goes,
stands for it. A tree in it is what `toTreeNodes()` returns, which `ProctreeTree` is about.

`captured`, `held`, `strayed` and `fate` are history variables: the last capture that became a timeline, the nodes that
are to be where the user has left them, those that were moved since the last layout and not noted, and what became of the last
question of a page. A question that is refused goes on from `"refused"`, while its error is on the way, to `"heard"`, when that
is the last error, and to `"told"` with the toast, or to `"overtaken"`, when another error takes its place before.

Not modelled: parts of a path that are no numbers, timestamps of 2^53 ns and more (`Number()` is exact below), the
flags of an entry, texts and styles.

## 3. The runs

| run | shows | instance | distinct states |
|---|---|---|---|
| `schedhook` | `TypeOK`, `ExclusiveCapture`, `NoLeak`, `SnapshotIntact`, `SnapshotFresh`, `LateEventFirst`, `UnloadSafe`, `ImplementsSession`, `Settles` | 2 CPUs, 2 callers, 2 slots each, snapshot of 2, 2 captures | 500 772 |
| `schedhook_late` | `LateWritesErased` is violated | 2 CPUs, 1 slot each | - |
| `bridge` | `TypeOK`, `ClosedOnce`, `RegistryConsistent`, `RemovalCompletes`, `DumpsGoOn` | 2 connections, channels of 1 | 462 956 |
| `bridge_shutdown` | `ShutdownCompletes` is violated | 1 connection | - |
| `bridge_send` | `DumpSendsOnOpenChannel` is violated | 1 connection | - |
| `taskrefs` | `TypeOK`, `PointersLive`, `AnswersKey`, `CountsBalanced`, `ResultsFreed`, `TasksFreed` | 3 pids, init and 2 more tasks, 2 requests | 1 311 092 |
| `taskrefs_parent` | `ParentIsTask` is violated | the same, 1 request | - |
| `vme_path` | `NoWildRead`, `EntriesInPlace`, `RegionsMatchHardware` | tables of 4 entries, 3 in a message, pages of 2 bytes, words of 11 bits | 16 570 |
| `captures` | `SinceOwnStart`, `AnswerIsCapture`, `EndByAnyone` | 2 clients, 2 CPUs with logs of 2, captures of 3, 2 events in a message, 2 timestamps | 739 814 |
| `proctree` | `TypeOK`, `WalkComplete`, `AnswerWhole`, `OrphansOfLateThreads`, `DrawingConsistent`, `AllDrawn` | init and 3 more tasks, room for 3 nodes, 2 in a message | 134 556 |
| `proctree_orphan` | `ParentsInTree` is violated | the same | - |
| `web_client` | `TypeOK`, `OneListener`, `ShownAnswersUrl`, `RefusalTold`, `TimelineTrue`, `ReadFieldsArrive`, `LayoutRespectsUser`, `FirstDumpShown` | 3 tasks, 3 levels of tables of 1 entry, 3 trees, 5 captures, 2 moves, 1 error, 2 messages in a channel | 1 372 380 |

Why these bounds are enough. Two CPUs make the loops over CPUs have a first and a last turn, with a late probe on a CPU that
has been reset or copied or has not. Two slots of which one may be filled late, and a snapshot of 2 for 4 events, make every
limit bite, in the middle of a CPU and between two. A late probe belongs to the capture before: two captures suffice, since
nothing older than a capture survives its `num` being reset (that is what `SnapshotFresh` says and the proof generalises).
Two callers race for every `cmpxchg`. Two connections give a removal, a dump and a shutdown that meet; channels of 1 run
full at the first message. Three pids let two tasks beside init live at once, one the child of the other, and let the second
have the pid of the first when that is released: the pid that a request was asked about is reused at each of its steps. Two
requests may hold the same task, and one may be an RCU reader that `DelayedPut` waits for while the other is not. A table of
4 entries has a first and a last entry, one to each side of the sign bit and one that is neither, and a second message that
is not full; a word that is two bits wider than the address space has a hole between its halves. Three tasks beside init are
a process, its thread and a child of that thread, in any order around the walk; the tree is cut at the third node and a
message is full at the second. Captures of 3 are cut when both logs of 2 are full, and go out in two messages; two
timestamps leave room for an event of before a start and one of after it, and two CPUs may have the same one. With two
clients each may end what the other has started, and be refused while the other is served. No run uses symmetry, because
those whose constants are interchangeable check liveness too.

For the web application three tasks are two groups and a thread; the three trees are a chain, the same with a thread, by
which the groups below move, and one without the lower group, so that a dragged group is moved, goes and comes back. The
five captures are none, one event, one on each CPU (no interval), CPUs that do not take turns with events out of order and
two at once, and one that idles. The moves are that of one group and that of both, of which either is the one that is
grabbed. Three levels in place of four have a first table, one in the middle and one without tables below it, and links of
an old table below the last level; one text of an error makes the next one the same. Other numbers of both are left to the
theorems. A user that acts (`MaxAsked`) has at most two messages under way: a question and the one before it, which is what
an answer can be mistaken for. Two messages fill the channel, so that a third is lost.

Deadlock is checked for the capture and its requests, the task references, the process tree and the web application: some
step is always possible. It is not checked for the bridge, because a process that has exited or panicked stops, nor for the
paths, where a request ends.

**Fairness.** For the capture: weak fairness of a probe that is past its check, of a request that is past its first
`cmpxchg`, and of `SynchronizeProbe`; all of it is code a CPU is running. Nothing makes a context switch, a request or an
`rmmod` happen. For the bridge: weak fairness of every goroutine that can run, and strong fairness of a `Lock()`, because
Go's mutex hands itself over to a goroutine that has waited for a millisecond. Nothing makes a peer send, take in what is
written to it, or the operator interrupt; `WriteJSON` returns when the peer is gone. The liveness of `bridge` is about the
time before an interrupt: `ServingSpec` asks no fairness of the shutdown. For the task references: weak fairness of a
request until its answer is ready, and of `DelayedPut`, because RCU readers do not block. Nobody has to fork, exit, reap,
ask, or take in a dump. For the requests of captures: weak fairness of a request that is being served and of a probe that
holds its lock, and strong fairness of the mutex of `Execute()`. A probe that has passed its check may wait for ever, and no
client has to ask or leave. For the web application: weak fairness of `Deliver`, because the browser dispatches the messages
that have arrived, of `Serve` and of `Dump`, because the bridge serves its client and its dump loop goes on (`DumpsGoOn` in
`bridge`). Nothing makes the socket open or the user act.

### What the web run says

`ShownAnswersUrl` is the property a user would ask for, with the exceptions of the code written out. When nothing is under
way, a page of a task shows what its URL says, or its last question was refused, was lost with the socket or in a full
channel, was asked of a socket that is not open, was a task view that failed (which the bridge does not answer), or was
never asked: `Taskview` asks when it is mounted and connected, so that from one task view to another by the history of the
browser the old task stays under the new URL. In these cases the old contents stay, and nobody is told but by the toast of
an error. In all others the order of the answers is enough, although an answer does not say what it answers: the bridge
serves one message of a client after the other, and a channel keeps their order.

`RefusalTold` is about the toast of an error, which is the only sign of a refused table. Of two errors that come before
`Errors` is rendered the first has no toast: `setWsError()` takes its place. That loses the errors of captures and of pages
that the user has left, but not the refusal of the table that is shown: its question is the last that the page has sent, so
that no other error comes behind it. And it is noticed though its text be that of the toast before, because `errorIndex`
counts on.

`LayoutRespectsUser` says what a user who moves nodes can rely on. Only the node that was grabbed stays where it was left;
the others of its selection, and all that were moved by the keys, are `strayed` until the next dump, which comes every 3 s,
and then go back to where they were noted before or are suggested.

### What the violated runs show

1. **`schedhook_late`.** The comment at `schedhook.c:167-168` says that what a probe writes after the state went back to
   `WAITING` is erased by the next `cap_start()`. It is, unless the probe takes the lock after `cap_start()` has been at its
   CPU and before the state is `RUNNING`. Then the event is in the next snapshot, at index 0, like the one the comment's
   next paragraph describes. `LateEventFirst` is what really holds, in all cases.
2. **`bridge_shutdown`.** `proctreeManager.Destroy()` holds `mu` while it waits for `dumpLoop`, and `dumpLoop` takes `mu` in
   `notifyAll`. An interrupt that comes while a dump is being fetched never finishes.
3. **`bridge_send`.** `handler.Destroy()` closes the channel and only then unregisters. A `notifyAll` in between sends on a
   closed channel; the panic in `dumpLoop` ends the bridge for everybody.
4. **`proctree_orphan`.** A comment in `types/ui/proctree.ts` says that `parentTreeNodeId` always points to a node of the
   tree. A thread that is cloned after the walk has read the threads of its process may fork a process that the walk still
   reaches. The adapter falls back on the id of the thread, which no node has, and the process is not drawn, nor anything
   below it, until the next dump. `OrphansOfLateThreads` says that there is no other way to an orphan, the truncation
   included.
5. **`taskrefs_parent`.** A task view names the parent by pid and start time, which by the comment in `gb_model.h` identify
   a `task_struct`. The task is held by a reference; its parent is not, and the RCU section of the lookup is over. In the
   counterexample the task is released, then its parent exits, is released and freed, and only then does
   `gb_taskview_fill_parents()` take the RCU lock and follow the pointer. A look at `pid_alive()` inside of that section
   would tell.

## 4. The theorems

For all `NumCPUs`, `MaxPerCPU > 0`, all `MaxEvents` and `MaxCaptures`, and any set of callers (finite or not) that does not
contain the names `"free"` and `"probe"` of lock holders:

| theorem | says |
|---|---|
| `TypeCorrect` | `Spec => []TypeOK` |
| `Exclusive` | `Spec => []ExclusiveCapture` |
| `SafeUnload` | `Spec => []UnloadSafe` |
| `Intact` | `Spec => []SnapshotIntact` |
| `LeakFree` | `Spec => []NoLeak` |
| `Fresh` | `Spec => []SnapshotFresh` |
| `LateFirst` | `Spec => []LateEventFirst` |
| `Implements` | `Spec => ImplementsSession`: the capture implements `CaptureSession` |

The others are for

- `Bridge`: any finite set of connections that contains none of the names `"free"`, `"main"`, `"dump"` and `"none"`, and any
  `BufferSize > 0`;
- `TaskRefs`: any pids, any finite set of requests and `MaxTasks > 0`;
- `CaptureRequests`: any set of clients without the name `"nobody"` of a free mutex, any number of CPUs, room in a log,
  limit of a capture and events in a message above 0, and any bound on the clock;
- `VmePath`: any widths that leave an address space smaller than a word, and tables of `2 ^ IndexBits` entries;
- `ProctreeRead`: any `MaxTasks`, room for nodes and nodes in a message above 0;
- `WebClient`: any sets of tasks, captures, moves, errors and indices, any trees of these tasks (`TreesAssumption`; the
  bridge reads all from one process tree), captures that are sequences of events (`CapturesAssumption`), and any number of
  levels, capacity of the channel and bound on the questions above 0.

`PowersAssumption` in `VmePath` follows from the other assumptions on the widths, but by laws of exponents, which are an
induction that the prover cannot do. It says what the proof uses of them: a level's entries span as many addresses as a
table of the next level, tables are even, and the address space divides the word at least twice. TLC evaluates it with the
rest.

| theorem | says |
|---|---|
| `TypeCorrect` (`BridgeProofs`) | `Spec => []TypeOK` |
| `ClosedOnceAlways` (`BridgeProofs`) | `Spec => []ClosedOnce` |
| `RegistryConsistentAlways` (`BridgeProofs`) | `Spec => []RegistryConsistent` |
| `RightTask` (`TaskRefsProofs`) | `Spec => []AnswersKey` |
| `RefsTyped` (`TaskRefsProofs`) | `Spec => []TypeOK` |
| `CountsExact` (`TaskRefsProofs`) | `Spec => []CountsBalanced` |
| `HeldTasksLive` (`TaskRefsProofs`) | `Spec => []PointersLive`: what is held is not freed, nor the parent of a task not yet released |
| `NothingLeaked` (`TaskRefsProofs`) | `Spec => []ResultsFreed` |
| `OwnEventsOnly` (`CaptureRequestsProofs`) | `Spec => []SinceOwnStart` |
| `AnswersAreCaptures` (`CaptureRequestsProofs`) | `Spec => []AnswerIsCapture` |
| `NoWild` (`VmePathProofs`) | `Spec => []NoWildRead` |
| `WholeTable` (`VmePathProofs`) | `Spec => []EntriesInPlace` |
| `Regions` (`VmePathProofs`) | `Spec => []RegionsMatchHardware` |
| `TypeCorrect` (`ProctreeReadProofs`) | `Spec => []TypeOK` |
| `Complete` (`ProctreeReadProofs`) | `Spec => []WalkComplete` |
| `Whole` (`ProctreeReadProofs`) | `Spec => []AnswerWhole` |
| `ParentsGivenAlways` (`ProctreeReadProofs`) | `Spec => []ParentsGiven`: in an answer every node's leader has a node, and so has the parent of every leader but for threads that came during the walk |
| `OrphansAlways` (`ProctreeReadProofs`) | `Spec => []OrphansOfLateThreads` |
| `DrawingAlways` (`ProctreeReadProofs`) | `Spec => []DrawingConsistent` |
| `AllDrawnAlways` (`ProctreeReadProofs`) | `Spec => []AllDrawn` |
| `TypeCorrect` (`WebClientProofs`) | `Spec => []TypeOK` |
| `OneListenerAlways` (`WebClientProofs`) | `Spec => []OneListener` |
| `RefusalToldAlways` (`WebClientProofs`) | `Spec => []RefusalTold` |
| `ShownAnswers` (`WebClientProofs`) | `Spec => []ShownAnswersUrl` |
| `FieldsArrive` (`WebClientProofs`) | `Spec => []ReadFieldsArrive` |
| `TimelineAlways` (`WebClientProofs`) | `Spec => []TimelineTrue` |
| `LayoutRespectsUserAlways` (`WebClientProofs`) | `Spec => []LayoutRespectsUser` |
| `ThreadsFit` (`WebClientProofs`) | the threads of a group, however many, are inside of what the layout reserves for it |

`RightTask` rests on `AnswerInv`, which follows a request through its steps: from the lookup on the task it has found was
born and has the pid asked for, from the comparison on the start time too, and what was read was read from it. Tasks that
are forked meanwhile are new numbers and rename nobody (`LifeStep`, `RequestStep`). `NoWild` rests on `WalkInv`: behind a
walk is a valid path, whose indices so far were all specified. `ValidPrefix` then says of the nested conditions of the
validation that the next index is unspecified or inside of the table. `WholeTable` rests on `DumpInv`: what the bridge has
so far are the first `index` entries, in order; a message appends the next ones (`DumpStep`), and the answer is given when
`index` is at the end.

The counts rest on `RefsInv`, which adds to `AnswerInv` what the kernel keeps to (`KernelInv`: who is released has exited,
who has exited has no mm and is nobody's parent who is still linked, init stays), and `GraceInv`: the task that an RCU
reader may come upon is `Guarded`, that is still linked, or its last reference waits for that reader; and so is the parent
that it has read, if the task itself is. A count is the cardinality of its holders plus the kernel's own reference;
`TaskMoved` and `MMMoved` say that it moves by one with the one request that becomes a holder or ceases to be one, and
`SameHolders` that in all other steps nothing moves. `HeldTasksLive` follows: who holds a reference is counted, and what an
RCU reader stands on is counted by the kernel.

`ClosedOnce` says nothing of the locks, on which it depends. `HandlersKnown` adds who holds `app.mu` where (`LockHeld`),
that a handler is known to `app` from `AddClient()` to the end of its removal, unless `main` has destroyed the handlers
(`ClientsAdded`), and that of the handlers it knows only the one in the hands of who holds the lock may have a closed
channel (`OpenUntilRemoved`). So a reader that finds its handler in the map finds it open, and so does `main`, which closes
what is `left`. With the listeners, who are always known until the shutdown (`ListenersKnown`), `RegistryConsistent`
follows.

**The walk over the process tree.** A walk may stand on a task that has been released, and from there go on to others that
have been. `WalkInv` says that there is a set `Gone` of such tasks: their pointers, which nobody writes any more, lead
forward, stay inside of the process, and pass no task that was there when the walk began (`GoneInv`). The set is not a
variable of the model: each step says how it grows (`PlaceStep`). The lists themselves are in the order of birth
(`ListInv`), so what the walk is past is what is older than where it stands (`Behind`), and `ProgressInv` says that of these
it has read all that were there from the beginning. At the end of the lists that is everybody, which is `WalkComplete`.
`NodesInv`, that the parent of a leader that was read was read too, is not inductive with what is said of linked tasks: a
leader may be released between `FirstThread` and `Read`, and then keeps a parent that nobody corrects, though it may be
released as well. Its parent is known when the walk comes to it, and stays so; the last conjunct of `ProgressInv` says that.
`ParentsGiven` follows, the truncation included, because parents come before their children. `OrphansOfLateThreads` says the
same of the tree: a group's node is that of its leader (`Adapted`), its parent is the group of what the answer has for its
parent, or that parent itself when the answer does not have it. A list that is `Filtered` holds what it is filtered for,
each once and no less (`FilteredListed`); that there is an index for each place of it is a matter of counting.

**The drawing.** All that the search and the layout need of an answer is `WellFormed`: a node for each task at most, and one
for its leader, who leads itself (`GivenIs`). The adapter's tree is then a list of groups of which no two have one id, each
with the groups below it once (`TreeIs`), and no group is below two (`ChildrenKnown`): a tree's ids, though not always in
one piece. `Found` is the invariant of the search, of the result with the queue behind it: no group is there twice, each but
the first is below an expanded one that was taken before it, and what is below an expanded one that was taken is there. A
turn keeps it (`FoundMore`, `TurnReached`), and since there cannot be more groups found than there are in the tree, by the
pigeonhole principle, the queue is empty when the result is that long (`Searched`). The group above another one comes before
it in the result and is the only one (`ParentBefore`), so each level of the nesting is further on in the result than the
last (`NestedEnds`), and none is skipped (`NestedAll`). A parent is its group's leader or a thread drawn in it (`ParentIs`),
where the edge begins (`EdgesDrawn`). For `AllDrawn`, what is drawn is itself a set that is closed under what hangs on its
members (`DrawnClosed`), and every such set has all that is drawn (`DrawnHangs`). The induction over the turns and over the
levels is by a set in place of a predicate (`UpTo`), from the least number outside of it.

**The requests of captures.** `ConnInv` says that who is in `Execute()` is alone, and that the module's phase is that of the
request. `SinceOwnStart` rests on `FreshInv`: a log that has been cleared holds nothing older than the last start of any
client, since that start is this capture's or an earlier one's, and what a probe will still write has its time (`Younger`).
`AnswerIsCapture` is about two moments, that of the request for the end and that of the answer. In between a log grows by
the one probe that holds its lock (`LateInv`), and is still afterwards, until it is collected. `CollectInv` says what has
been collected, `Capture` what that is worth when all is, and `AnswerInv` that the messages of the dump are its first
events. That the timestamps of one CPU rise (`LogInv`) gives that no event is there twice. Of the sort nothing is used but
that it returns the same events in order.

**The regions.** An entry's address is a sum of products, the processor's translation takes quotients and remainders.
`QuotientIs` says which numbers have a given quotient, `Narrowed` what a remainder adds to it; so the addresses below an
entry are those with its `Number` as their quotient by what it spans (`Translated`). `UpperHalf` says for which of them the
sign extension adds the rest of the word, and `Shifted` that it moves the whole region, because the rest is a multiple of
the address space. The end of the last region is the word itself, which is 0 in the code's arithmetic (`LastAddress`). The
proof needs of the widths no more than `PowersAssumption`. `ValidSuffix` gives that the table shown is the one that the path
leads to (`FilledInv`).

`OneListener` alone is not inductive: what a rerun of an effect takes away depends on what React holds for it.
`CleanupsKnown` adds that React holds a cleanup exactly when the conditions of the effect are those of the present state; an
effect that does not run again has the conditions it had (`RerunsAsNeeded`), and every step runs the effects or leaves alone
what they depend on. `LayoutRespectsUser` rests on `ViewerKnown`: the last suggested layout is that of the nodes now drawn,
and of a drawn node `userDefinedLayout` has a position if and only if the node is held, strayed or not. Positions of nodes
that are not drawn may be old; they do no harm, because `withinThreshold()` finds no former suggestion for them
(`RelayoutKnown`). The proof uses nothing of the layout but that it gives each drawn node a place (`LayoutDomain`), so it
does not depend on the stand-in for `d3-flextree`.

`ShownAnswersUrl` is about moments when nothing is under way; its invariant is about all the others. While `fate` is
`"asked"`, the page's question is the last on the way to the bridge (`LastAsked`), or there is none on the way, and then the
last answer to a page of its kind is the one to it (`LastReplied`), or there is none either and the page shows it
(`FateInv`). The bridge takes the first question and appends its answer (`QuestionServed`), the page takes the first answer
(`DeliveredShown`); a new question changes what is asked. No answer is lost at a type guard, because every message that the
bridge may send passes (`GuardsPass`, which is also `ReadFieldsArrive`), nor for want of a callback, because of
`OneListener` (`ReplyHeard`). That a table shown under its own path has only links that the kernel accepts is `Fits`: a
table of the last level has no entry that leads to a table. `LinksLead` says that links lead to locations, which `TypeOK`
needs.

`RefusalTold` rests on `RefusalInv`: the question of a table page is not only the last question but the last message on the
way to the bridge, since such a page sends nothing else; so nothing is on the way when it is refused (`RefusalServed`), and
its error is the last one on the way back (`LastRefusal`) until it is heard and waits for the toast (`RefusalDelivered`).

`TimelineTrue` is about any capture, with its events in any order and several at one time. `Precedes` is a strict order of
the indices, and a finite set has a least element in it (`Sorted`), the one with the fewest others before it; that there is
a fewest is the well-ordering of the numbers, which `WellFoundedInduction` gives. So an event is followed by another one
exactly if it begins an interval (`Followed`). `RunningIs` says that the event which tells what runs at an instant is the
only one of its CPU whose interval the instant is in: it does not come after the instant, its successor does, and no other
one lies in between. `Rows` and `Zero` are about which rows there are and where the time begins, and `ThrowsWithout` that
the code throws for the captures of which nothing can be shown, and no others. `TimelineInv` then keeps the timeline that of
the capture, through the exception that leaves the old one on the page.

The argument for the capture goes up in layers, each with a lemma for the initial states and one for the steps, in which one
step of the proof stands for each action:

1. *Type.* `TypeOK` is not inductive: `ProbeCount` increments `num` without a look at the limit. It is with `RoomToCount`: a
   probe that has written found room, and nobody else changes `num` while the probe holds the lock.
2. *Phase.* A caller inside a start or an end makes the state `PREPARING` or `DONE`, and there is one of them. So the second
   `cmpxchg` always finds what the first one left. `Exclusive` and `SafeUnload` follow.
3. *Lock.* Who holds a lock is at a place in the code where it holds it; `HolderExcludesProbe` puts the two kinds of holder
   apart.
4. *Buffer.* Outside of a reset, the slots below `num` are events and not blank. With it a copied slot is an event, and the
   snapshot never grows past its array: `Intact`. *Heap* gives `LeakFree` on its own.
5. *Marks.* An event sits in its own CPU's buffer (`HomeInv`); once a CPU has been reset in this capture all it counts was
   written in this capture (`FreshInv`); what was seen in an earlier one is at index 0 (`LateInv`), because a probe that
   passed its check earlier is on its CPU, no other one starts there before it ends, and the reset has put `num` to 0; and a
   caller that copies is at a CPU that has been reset (`ProgressInv`). `Fresh` and `LateFirst` follow.
6. *Refinement.* `RInv` adds that the loops over CPUs start at CPU 0 (`CursorInv`) and that a capture that is being prepared
   or ended is so by somebody (`BusyInv`), who is the one that `Visited` and `Result` are about. One lemma for each kind of
   step says which step of the session it is: most are none. Those that are some are the check and the count of the probe,
   the `cmpxchg` calls, a failed allocation, the removal of the module, `ResetNum`, which empties a log, and `FillDone` and
   `FillFull`, which collect one; for the last two `Copied` says that the lock has kept the log still, so that what was
   copied slot by slot is the log of that moment.

Only model-checked:

- the liveness properties `Settles`, `RemovalCompletes`, `DumpsGoOn`, `TasksFreed`, `EndByAnyone` and `FirstDumpShown`,
  which are out of the prover's reach.

All invariants and action properties of the runs are proved.

## 5. Not modelled, and the plan

`exec` by a thread that is not the leader, in `ProctreeRead`: it is the one hazard without a property.

Left out for good: byte layouts of netlink messages and JSON, logging, styles and texts, the vendored UI components, the
algorithm of `d3-flextree`, `vis-timeline`, and the contents of page tables, which another process may change while they are
read: the source marks that as open (`vmexplorer.c:297`). While the process
is about to exit, after `app.Destroy()`, a reader may still send on its closed channel, and `handleWS` may add a client that
nobody destroys: `Bridge` reaches both, and no property is claimed about them.
