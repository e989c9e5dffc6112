-------------------------- MODULE WebClientProofs --------------------------
(***************************************************************************)
(* Proofs about the web application, for every set of tasks, indices and   *)
(* inputs, every number of levels and every capacity of the channel.       *)
(***************************************************************************)
EXTENDS WebClient, FiniteSetTheorems, WellFoundedInduction, TLAPS

----------------------------------------------------------------------------
(* The subscriptions.                                                      *)

\* What React holds for a cleanup is what the conditions of the effects say of the
\* present state. That is why a rerun leaves one callback or none.
CleanupsKnown ==
    /\ cleanups = {c \in Channels : Subscribes(c, url, status, paused)}
    /\ OneListener

\* An effect that does not run again has the conditions it had.
LEMMA RerunsAsNeeded ==
    ASSUME NEW c \in Channels, ~Reruns(c)
    PROVE  Subscribes(c, url', status', paused') <=> Subscribes(c, url, status, paused)
  BY DEF Reruns, Subscribes, Mounted

\* Whatever changes the page, the status or the pause and runs the effects keeps the
\* subscriptions in step.
LEMMA EffectsInStep ==
    ASSUME CleanupsKnown, RunEffects
    PROVE  CleanupsKnown'
<1>1. cleanups' = {c \in Channels : Subscribes(c, url', status', paused')}
  BY RerunsAsNeeded DEF RunEffects, CleanupsKnown
<1>2. ASSUME NEW c \in Channels
      PROVE  listeners'[c] = IF Subscribes(c, url', status', paused') THEN 1 ELSE 0
  <2>1. CASE Reruns(c)
    BY <2>1 DEF RunEffects, CleanupsKnown, OneListener
  <2>2. CASE ~Reruns(c)
    BY <2>2, RerunsAsNeeded DEF RunEffects, CleanupsKnown, OneListener
  <2> QED BY <2>1, <2>2
<1> QED BY <1>1, <1>2 DEF CleanupsKnown, OneListener

LEMMA RestInStep ==
    ASSUME CleanupsKnown, UNCHANGED <<status, listeners, cleanups, url, paused>>
    PROVE  CleanupsKnown'
  BY DEF CleanupsKnown, OneListener, Subscribes, Mounted

LEMMA SubscriptionsInit == Init => CleanupsKnown
  BY DEF Init, CleanupsKnown, OneListener, Subscribes

LEMMA SubscriptionsStep == CleanupsKnown /\ [Next]_vars => CleanupsKnown'
<1> SUFFICES ASSUME CleanupsKnown, [Next]_vars PROVE CleanupsKnown'
  OBVIOUS
<1> USE DEF pageVars, pipes
<1>1. CASE Open       BY <1>1, EffectsInStep DEF Open
<1>2. CASE Close      BY <1>2, RestInStep DEF Close
<1>3. CASE Reconnect  BY <1>3, EffectsInStep DEF Reconnect
<1>4. CASE Receive
  <2>1. UNCHANGED <<status, listeners, cleanups, url, paused>>
    BY <1>4 DEF Receive, ReceiveError, ReceiveDump, ReceiveCapture, ReceiveEntries, ReceiveView
  <2> QED BY <2>1, RestInStep
<1>5. CASE ShowErrors BY <1>5, RestInStep DEF ShowErrors
<1>6. CASE Serve      BY <1>6, RestInStep DEF Serve
<1>7. CASE Dump       BY <1>7, RestInStep DEF Dump
<1>8. CASE Follow     BY <1>8, EffectsInStep DEF Follow, GoTo
<1>9. CASE Jump       BY <1>9, EffectsInStep DEF Jump, GoTo
<1>10. CASE TogglePause BY <1>10, EffectsInStep DEF TogglePause
<1>11. CASE Capture   BY <1>11, RestInStep DEF Capture
<1>12. ASSUME NEW id \in DOMAIN viewer.nodes, Toggle(id) PROVE CleanupsKnown'
  BY <1>12, RestInStep DEF Toggle
<1>13. ASSUME NEW moved \in Moves, NEW id \in DOMAIN moved, Drag(id, moved)
       PROVE  CleanupsKnown'
  BY <1>13, RestInStep DEF Drag
<1>14. ASSUME NEW moved \in Moves, Nudge(moved) PROVE CleanupsKnown'
  BY <1>14, RestInStep DEF Nudge
<1>15. CASE UNCHANGED vars BY <1>15, RestInStep DEF vars
<1> QED
  BY <1>1, <1>2, <1>3, <1>4, <1>5, <1>6, <1>7, <1>8, <1>9, <1>10, <1>11, <1>12, <1>13, <1>14,
     <1>15
     DEF Next

\* The callbacks in the store are those of the page that is shown, one each, through
\* any sequence of navigations, pauses, reconnections and messages.
THEOREM OneListenerAlways == Spec => []OneListener
<1>1. CleanupsKnown => OneListener
  BY DEF CleanupsKnown
<1> QED BY SubscriptionsInit, SubscriptionsStep, <1>1, PTL DEF Spec

----------------------------------------------------------------------------
(* The errors.                                                             *)

\* The errors stay a record of three fields.
ErrorFields == {"wsError", "indexMoved", "toasted"}
ErrorsKnown == errors = [f \in ErrorFields |-> errors[f]]

LEMMA ErrorsStep == ErrorsKnown /\ [Next]_vars => ErrorsKnown'
<1> SUFFICES ASSUME ErrorsKnown, [Next]_vars PROVE ErrorsKnown'
  OBVIOUS
<1> USE DEF ErrorsKnown, ErrorFields
<1>1. CASE Receive
  <2>1. UNCHANGED errors \/ \E m : ReceiveError(m)
    BY <1>1 DEF Receive, ReceiveDump, ReceiveCapture, ReceiveEntries, ReceiveView
  <2>2. ASSUME NEW m, ReceiveError(m) PROVE ErrorsKnown'
    BY <2>2 DEF ReceiveError
  <2> QED BY <2>1, <2>2
<1>2. CASE ShowErrors BY <1>2 DEF ShowErrors
<1>3. CASE ~Receive /\ ~ShowErrors
  <2>1. UNCHANGED errors
    BY <1>3 DEF Next, vars, Open, Close, Reconnect, Serve, Dump, Follow, Jump, GoTo,
                TogglePause, Capture, Toggle, Drag, Nudge
  <2> QED BY <2>1
<1> QED BY <1>1, <1>2, <1>3

\* What an error or a toast makes of a refusal is one of the fates of a refusal.
LEMMA RefusalMoves ==
    ASSUME Receive \/ ShowErrors
    PROVE  fate' = fate \/ (fate \in Refused /\ fate' \in Refused)
<1>1. ASSUME NEW m, ReceiveError(m) PROVE fate' = fate \/ (fate \in Refused /\ fate' \in Refused)
  BY <1>1 DEF ReceiveError, RefusedThen, Refused
<1>2. CASE Receive
  BY <1>1, <1>2 DEF Receive, ReceiveDump, ReceiveCapture, ReceiveEntries, ReceiveView
<1>3. CASE ShowErrors
  BY <1>3 DEF ShowErrors, Refused
<1> QED BY <1>2, <1>3

----------------------------------------------------------------------------
(* The drawing of the tree.                                                *)

\* The threads of a group, however many, are inside of it: LeaderNode is as high as
\* the layout reserves, and toFlowNodes() puts the last thread above its lower edge.
THEOREM ThreadsFit ==
    \A n \in Nat, rank \in Nat :
        rank < n => subNodeY(rank) + SUB_NODE_HEIGHT < leaderHeight(n)
<1> SUFFICES ASSUME NEW n \in Nat, NEW rank \in Nat, rank < n
             PROVE  subNodeY(rank) + SUB_NODE_HEIGHT < leaderHeight(n)
  OBVIOUS
<1>1. Least(1, n) = 1 \/ n = 1
  BY DEF Least
<1>2. leaderHeight(n) = 70 + 30 * n
  BY <1>1 DEF leaderHeight, Least, LEADER_BASE_HEIGHT, SUB_NODE_HEIGHT, SUB_NODES_GAP
<1>3. subNodeY(rank) = 60 + 30 * rank
  BY DEF subNodeY, LEADER_BASE_HEIGHT, SUB_NODE_HEIGHT, SUB_NODES_GAP
<1> QED BY <1>2, <1>3 DEF SUB_NODE_HEIGHT

ViewerFields == {"tree", "expanded", "prevSuggestedLayout", "userDefinedLayout", "nodes"}

DrawnBy(v) == Drawn(v.tree, v.expanded)
SuggestedBy(v) == Layout(v.tree, DrawnBy(v))

\* Of a node that is drawn the user's position is in userDefinedLayout if and only if
\* the node is held there. What userDefinedLayout has of other nodes does not matter, for
\* prevSuggestedLayout has only the nodes that are drawn. The nodes s have strayed.
ViewerKnown(v, h, s) ==
    /\ v = [f \in ViewerFields |-> v[f]]
    /\ v.prevSuggestedLayout = SuggestedBy(v)
    /\ DOMAIN v.nodes = DrawnBy(v)
    /\ DOMAIN h \subseteq DrawnBy(v) /\ s \subseteq DrawnBy(v)
    /\ \A id \in DrawnBy(v) :
          /\ id \in DOMAIN h <=> id \in DOMAIN v.userDefinedLayout
          /\ id \in DOMAIN h => h[id] = v.userDefinedLayout[id]
          /\ id \notin s => v.nodes[id] = IF id \in DOMAIN h THEN h[id] ELSE SuggestedBy(v)[id]

LEMMA LayoutDomain ==
    ASSUME NEW tree, NEW drawn
    PROVE  DOMAIN Layout(tree, drawn) = drawn
  BY DEF Layout

\* Relayout() of a viewer u whose tree or expanded nodes are not those of v any more.
LEMMA RelayoutKnown ==
    ASSUME NEW v, NEW h, NEW s, ViewerKnown(v, h, s),
           NEW u, u = [f \in ViewerFields |-> u[f]],
           u.prevSuggestedLayout = v.prevSuggestedLayout,
           u.userDefinedLayout = v.userDefinedLayout,
           NEW g,
           g = [id \in {i \in DOMAIN h : withinThreshold(SuggestedBy(v), SuggestedBy(u), i)} |->
                   h[id]]
    PROVE  ViewerKnown(Relayout(u), g, {})
<1> DEFINE now == SuggestedBy(u)
           user == u.userDefinedLayout
           kept == {id \in DOMAIN user : withinThreshold(u.prevSuggestedLayout, now, id)}
           w == Relayout(u)
<1>1. /\ w = [f \in ViewerFields |-> w[f]]
      /\ w.tree = u.tree /\ w.expanded = u.expanded
      /\ w.nodes = [id \in DOMAIN now |-> IF id \in kept THEN user[id] ELSE now[id]]
      /\ w.userDefinedLayout = [id \in DOMAIN user \ (DOMAIN now \ kept) |-> user[id]]
      /\ w.prevSuggestedLayout = now
  BY DEF Relayout, ViewerFields, SuggestedBy, DrawnBy
<1>2. DrawnBy(w) = DrawnBy(u) /\ SuggestedBy(w) = now
  BY <1>1 DEF DrawnBy, SuggestedBy
<1>3. DOMAIN now = DrawnBy(u) /\ DOMAIN SuggestedBy(v) = DrawnBy(v)
  BY LayoutDomain DEF SuggestedBy
<1>4. \A id \in DrawnBy(u) : id \in DOMAIN g <=> id \in kept
  BY <1>3 DEF ViewerKnown, withinThreshold
<1>5. DOMAIN g \subseteq DrawnBy(u)
  BY <1>3 DEF withinThreshold
<1>6. \A id \in DOMAIN g : g[id] = user[id]
  BY <1>3 DEF ViewerKnown, withinThreshold
<1>7. ASSUME NEW id \in DrawnBy(w)
      PROVE  /\ id \in DOMAIN g <=> id \in DOMAIN w.userDefinedLayout
             /\ id \in DOMAIN g => g[id] = w.userDefinedLayout[id]
             /\ w.nodes[id] = IF id \in DOMAIN g THEN g[id] ELSE SuggestedBy(w)[id]
  <2> HIDE DEF now, user, kept, w
  <2>1. id \in DOMAIN now /\ id \in DrawnBy(u)
    BY <1>2, <1>3
  <2>2. kept \subseteq DOMAIN user
    BY DEF kept
  <2> QED BY <1>1, <1>2, <1>4, <1>6, <2>1, <2>2
<1> HIDE DEF now, user, kept, w
<1>8. DOMAIN w.nodes = DrawnBy(w)
  BY <1>1, <1>2, <1>3
<1>9. ViewerKnown(w, g, {})
  BY <1>1, <1>2, <1>5, <1>7, <1>8 DEF ViewerKnown
<1> QED BY <1>9 DEF w

\* Mounted or not shown yet: nothing is drawn.
LEMMA InitialKnown == ViewerKnown(InitialViewer, NoMap, {})
<1>1. DrawnBy(InitialViewer) = {}
  BY DEF DrawnBy, Drawn, InitialViewer, NoMap
<1>2. DOMAIN SuggestedBy(InitialViewer) = {}
  BY <1>1, LayoutDomain DEF SuggestedBy
<1>3. SuggestedBy(InitialViewer) = NoMap
  BY <1>1, <1>2 DEF NoMap, SuggestedBy, Layout
<1> QED BY <1>1, <1>3 DEF ViewerKnown, InitialViewer, ViewerFields, NoMap

LEMMA ToggledKnown ==
    ASSUME NEW v, NEW h, NEW s, ViewerKnown(v, h, s), NEW id, NEW g,
           g = [i \in {j \in DOMAIN h : withinThreshold(SuggestedBy(v),
                                                       SuggestedBy(ToggleExpand(v, id)), j)} |->
                   h[i]]
    PROVE  ViewerKnown(ToggleExpand(v, id), g, {})
<1> DEFINE expanded == IF id \in v.expanded THEN v.expanded \ {id} ELSE v.expanded \cup {id}
           u == [v EXCEPT !.expanded = expanded]
<1>1. /\ u = [f \in ViewerFields |-> u[f]]
      /\ u.prevSuggestedLayout = v.prevSuggestedLayout
      /\ u.userDefinedLayout = v.userDefinedLayout
      /\ u.tree = v.tree /\ u.expanded = expanded
  BY DEF ViewerKnown, ViewerFields
<1>2. ToggleExpand(v, id) = Relayout(u)
  BY DEF ToggleExpand
<1> HIDE DEF u
<1>3. SuggestedBy(Relayout(u)) = SuggestedBy(u)
  BY <1>1 DEF Relayout, SuggestedBy, DrawnBy, ViewerFields
<1> QED BY <1>1, <1>2, <1>3, RelayoutKnown

LEMMA ShownKnown ==
    ASSUME NEW v, NEW h, NEW s, ViewerKnown(v, h, s), NEW tree, NEW g,
           g = [i \in {j \in DOMAIN h : withinThreshold(SuggestedBy(v),
                                                       SuggestedBy(ShowTree(v, tree)), j)} |->
                   h[i]]
    PROVE  ViewerKnown(ShowTree(v, tree), g, {})
<1> DEFINE u == [v EXCEPT !.tree = tree]
<1>1. /\ u = [f \in ViewerFields |-> u[f]]
      /\ u.prevSuggestedLayout = v.prevSuggestedLayout
      /\ u.userDefinedLayout = v.userDefinedLayout
  BY DEF ViewerKnown, ViewerFields
<1>2. ShowTree(v, tree) = Relayout(u)
  BY DEF ShowTree
<1> HIDE DEF u
<1>3. SuggestedBy(Relayout(u)) = SuggestedBy(u)
  BY <1>1 DEF Relayout, SuggestedBy, DrawnBy, ViewerFields
<1> QED BY <1>1, <1>2, <1>3, RelayoutKnown

LEMMA MovedKnown ==
    ASSUME NEW v, NEW h, NEW s, ViewerKnown(v, h, s), NEW moved
    PROVE  LET w == MoveNodes(v, moved)
           IN  /\ w = [f \in ViewerFields |-> w[f]]
               /\ w.tree = v.tree /\ w.expanded = v.expanded
               /\ w.prevSuggestedLayout = v.prevSuggestedLayout
               /\ w.userDefinedLayout = v.userDefinedLayout
               /\ w.nodes = [i \in DOMAIN v.nodes |->
                                IF i \in DOMAIN moved THEN moved[i] ELSE v.nodes[i]]
  BY DEF MoveNodes, ViewerKnown, ViewerFields

LEMMA NudgedKnown ==
    ASSUME NEW v, NEW h, NEW s, ViewerKnown(v, h, s), NEW moved,
           DOMAIN moved \subseteq DOMAIN v.nodes
    PROVE  ViewerKnown(MoveNodes(v, moved), h, s \cup DOMAIN moved)
<1> DEFINE w == MoveNodes(v, moved)
<1>1. /\ w = [f \in ViewerFields |-> w[f]]
      /\ w.tree = v.tree /\ w.expanded = v.expanded
      /\ w.prevSuggestedLayout = v.prevSuggestedLayout
      /\ w.userDefinedLayout = v.userDefinedLayout
      /\ w.nodes = [i \in DOMAIN v.nodes |->
                       IF i \in DOMAIN moved THEN moved[i] ELSE v.nodes[i]]
  BY MovedKnown
<1>2. DrawnBy(w) = DrawnBy(v) /\ SuggestedBy(w) = SuggestedBy(v)
  BY <1>1 DEF DrawnBy, SuggestedBy
<1> HIDE DEF w
<1>3. ViewerKnown(w, h, s \cup DOMAIN moved)
  BY <1>1, <1>2 DEF ViewerKnown
<1> QED BY <1>3 DEF w

LEMMA DraggedKnown ==
    ASSUME NEW v, NEW h, NEW s, ViewerKnown(v, h, s), NEW moved,
           DOMAIN moved \subseteq DOMAIN v.nodes, NEW id \in DOMAIN moved
    PROVE  ViewerKnown(DragStop(v, id, moved),
                       [i \in DOMAIN h \cup {id} |-> IF i = id THEN moved[id] ELSE h[i]],
                       (s \cup DOMAIN moved) \ {id})
<1> DEFINE w == DragStop(v, id, moved)
           x == MoveNodes(v, moved)
           user == v.userDefinedLayout
<1>0. /\ x = [f \in ViewerFields |-> x[f]]
      /\ x.tree = v.tree /\ x.expanded = v.expanded
      /\ x.prevSuggestedLayout = v.prevSuggestedLayout
      /\ x.nodes = [i \in DOMAIN v.nodes |->
                       IF i \in DOMAIN moved THEN moved[i] ELSE v.nodes[i]]
  BY MovedKnown
<1>1. /\ w = [f \in ViewerFields |-> w[f]]
      /\ w.tree = v.tree /\ w.expanded = v.expanded
      /\ w.prevSuggestedLayout = v.prevSuggestedLayout
      /\ w.nodes = [i \in DOMAIN v.nodes |->
                       IF i \in DOMAIN moved THEN moved[i] ELSE v.nodes[i]]
      /\ w.userDefinedLayout =
            [i \in DOMAIN user \cup {id} |-> IF i = id THEN moved[id] ELSE user[i]]
  <2> HIDE DEF x
  <2>1. w = [x EXCEPT !.userDefinedLayout =
                [i \in DOMAIN user \cup {id} |-> IF i = id THEN moved[id] ELSE user[i]]]
    BY DEF DragStop, x
  <2> HIDE DEF w
  <2> QED BY <1>0, <2>1 DEF ViewerFields
<1>2. DrawnBy(w) = DrawnBy(v) /\ SuggestedBy(w) = SuggestedBy(v)
  BY <1>1 DEF DrawnBy, SuggestedBy
<1> HIDE DEF w
<1>3. ViewerKnown(w, [i \in DOMAIN h \cup {id} |-> IF i = id THEN moved[id] ELSE h[i]],
                  (s \cup DOMAIN moved) \ {id})
  BY <1>1, <1>2 DEF ViewerKnown
<1> QED BY <1>3 DEF w

LEMMA DrawingStep ==
    ViewerKnown(viewer, held, strayed) /\ [Next]_vars => ViewerKnown(viewer, held, strayed)'
<1> SUFFICES ASSUME ViewerKnown(viewer, held, strayed), [Next]_vars
             PROVE  ViewerKnown(viewer', held', strayed')
  OBVIOUS
<1> USE DEF pageVars
<1>1. CASE Receive
  <2>1. UNCHANGED <<viewer, held, strayed>> \/ \E m : ReceiveDump(m)
    BY <1>1 DEF Receive, ReceiveError, ReceiveCapture, ReceiveEntries, ReceiveView
  <2>2. ASSUME NEW m, ReceiveDump(m) PROVE ViewerKnown(viewer', held', strayed')
    BY <2>2, ShownKnown DEF ReceiveDump, StillHeld, SuggestedBy, DrawnBy
  <2> QED BY <2>1, <2>2
<1>2. ASSUME NEW id \in DOMAIN viewer.nodes, Toggle(id)
      PROVE  ViewerKnown(viewer', held', strayed')
  BY <1>2, ToggledKnown DEF Toggle, StillHeld, SuggestedBy, DrawnBy
<1>3. ASSUME NEW moved \in Moves, NEW id \in DOMAIN moved, Drag(id, moved)
      PROVE  ViewerKnown(viewer', held', strayed')
  BY <1>3, DraggedKnown DEF Drag
<1>4. ASSUME NEW moved \in Moves, Nudge(moved)
      PROVE  ViewerKnown(viewer', held', strayed')
  BY <1>4, NudgedKnown DEF Nudge
<1>5. CASE Follow \/ Jump
  <2>1. UNCHANGED <<viewer, held, strayed>> \/ Unmount
    BY <1>5 DEF Follow, Jump, GoTo
  <2> QED BY <2>1, InitialKnown DEF Unmount
<1>6. CASE Open \/ Close \/ Reconnect \/ ShowErrors \/ Serve \/ Dump \/ TogglePause
           \/ Capture \/ UNCHANGED vars
  <2>1. UNCHANGED <<viewer, held, strayed>>
    BY <1>6 DEF vars, Open, Close, Reconnect, ShowErrors, Serve, Dump, TogglePause, Capture
  <2> QED BY <2>1
<1> QED BY <1>1, <1>2, <1>3, <1>4, <1>5, <1>6 DEF Next

\* Each node of the tree that was not moved since the last layout, or was moved by being
\* grabbed, is where the user has left it or where it is suggested, for every tree and every
\* sequence of dumps, expansions, collapses, drags of selections and moves by the keys.
THEOREM LayoutRespectsUserAlways == Spec => []LayoutRespectsUser
<1>1. Init => ViewerKnown(viewer, held, strayed)
  BY InitialKnown DEF Init
<1>2. ViewerKnown(viewer, held, strayed) => LayoutRespectsUser
  BY DEF ViewerKnown, LayoutRespectsUser, SuggestedBy, DrawnBy
<1> QED BY <1>1, <1>2, DrawingStep, PTL DEF Spec

----------------------------------------------------------------------------
(* The messages and their guards.                                          *)

\* A field of an object, and a field of an object that is put together from two.
LEMMA Field ==
    ASSUME NEW F, NEW f \in DOMAIN F
    PROVE  Get(Object(F), f) = F[f]
  BY DEF Get, Object

LEMMA StringField ==
    ASSUME NEW N, NEW f \in N
    PROVE  Get(Object(Strings(N)), f) = Str
<1>1. f \in DOMAIN Strings(N) /\ Strings(N)[f] = Str
  BY DEF Strings
<1> QED BY <1>1, Field

LEMMA FirstField ==
    ASSUME NEW N, NEW G, NEW f \in N
    PROVE  Get(Object(With(Strings(N), G)), f) = Str
<1>1. f \in DOMAIN With(Strings(N), G) /\ With(Strings(N), G)[f] = Str
  BY DEF With, Strings
<1> QED BY <1>1, Field

LEMMA SecondField ==
    ASSUME NEW F, NEW G, NEW f \in DOMAIN G, f \notin DOMAIN F
    PROVE  Get(Object(With(F, G)), f) = G[f]
<1>1. f \in DOMAIN With(F, G) /\ With(F, G)[f] = G[f]
  BY DEF With
<1> QED BY <1>1, Field

\* The two kinds of values.
LEMMA Kinds ==
    /\ typeof(Str) = "string" /\ typeof(Num) = "number" /\ typeof(Bool) = "boolean"
    /\ \A F : typeof(Object(F)) = "object" /\ Object(F) # Undefined
    /\ \A E : typeof(Array(E)) = "object" /\ Array(E).type = "array" /\ Array(E).elements = E
  BY DEF typeof, Str, Num, Bool, Object, Array, Undefined

LEMMA TaskKey ==
    /\ isWebsocketTaskKey(WireTaskKey)
    /\ \A f \in {"pid", "startTime"} : typeof(Get(WireTaskKey, f)) = "string"
    /\ \A f \in {"pid", "startTime"} : typeof(Get(WireNumericKey, f)) = "number"
<1>1. \A f \in {"pid", "startTime"} : typeof(Get(WireTaskKey, f)) = "string"
  BY StringField, Kinds DEF WireTaskKey
<1>2. \A f \in {"pid", "startTime"} : Get(WireNumericKey, f) = Num
  BY Field DEF WireNumericKey
<1> QED BY <1>1, <1>2, Kinds DEF isWebsocketTaskKey, Are, WireTaskKey

LEMMA ProctreeNode ==
    /\ isProctreeNode(WireProctreeNode)
    /\ \A r \in NodeReads : Shows(WireProctreeNode, r)
<1> DEFINE F == [parent |-> WireTaskKey, realParent |-> WireTaskKey,
                 groupLeader |-> WireTaskKey, self |-> WireTaskKey]
           G == [name |-> Str, isKthread |-> Bool]
           keys == {"parent", "realParent", "groupLeader", "self"}
<1>1. \A f \in keys : f \in DOMAIN With(F, G) /\ With(F, G)[f] = WireTaskKey
  BY DEF With
<1>2. \A f \in keys : Get(WireProctreeNode, f) = WireTaskKey
  BY <1>1, Field DEF WireProctreeNode
<1>3. Get(WireProctreeNode, "name") = Str /\ Get(WireProctreeNode, "isKthread") = Bool
  BY SecondField DEF WireProctreeNode
<1>4. isProctreeNode(WireProctreeNode)
  BY <1>2, <1>3, Kinds, TaskKey DEF isProctreeNode, Are, WireProctreeNode
<1>5. \A n \in {"name", "isKthread"} : Shows(WireProctreeNode, <<n>>)
  BY <1>3, Kinds DEF Shows
<1>6. \A k \in keys, n \in {"pid", "startTime"} : Shows(WireProctreeNode, <<k, n>>)
  BY <1>2, Kinds, TaskKey DEF Shows
<1> QED BY <1>4, <1>5, <1>6 DEF NodeReads, Direct, Under

LEMMA SchedEvent ==
    /\ isSchedEvent(WireSchedEvent)
    /\ \A r \in EventReads : Shows(WireSchedEvent, r)
<1>1. /\ Get(WireSchedEvent, "prev") = WireTaskKey /\ Get(WireSchedEvent, "next") = WireTaskKey
      /\ \A f \in {"commPrev", "commNext", "timestamp"} : Get(WireSchedEvent, f) = Str
      /\ Get(WireSchedEvent, "cpu") = Num
      /\ \A f \in {"prevIsKthread", "nextIsKthread"} : Get(WireSchedEvent, f) = Bool
  BY Field DEF WireSchedEvent
<1>2. isSchedEvent(WireSchedEvent)
  BY <1>1, Kinds, TaskKey DEF isSchedEvent, Are, WireSchedEvent
<1>3. \A n \in {"cpu", "timestamp", "commNext", "nextIsKthread"} : Shows(WireSchedEvent, <<n>>)
  BY <1>1, Kinds DEF Shows
<1>4. \A n \in {"pid", "startTime"} : Shows(WireSchedEvent, <<"next", n>>)
  BY <1>1, Kinds, TaskKey DEF Shows
<1> QED BY <1>2, <1>3, <1>4 DEF EventReads, Direct, Under

LEMMA VMEntry ==
    /\ isWebsocketVMEntry(WireVMEntry)
    /\ \A r \in EntryReads : Shows(WireVMEntry, r)
<1> DEFINE strings == {"rawValue", "pa", "kernelVA", "userVAStart", "userVAEnd", "size"}
           flags == {"leaf", "present", "bad", "none"}
<1>1. \A f \in strings : Get(WireVMEntry, f) = Str
  BY FirstField DEF WireVMEntry
<1>2. Get(WireVMEntry, "index") = Num /\ \A f \in flags : Get(WireVMEntry, f) = Bool
  BY SecondField DEF WireVMEntry, Strings
<1>3. isWebsocketVMEntry(WireVMEntry)
  BY <1>1, <1>2, Kinds DEF isWebsocketVMEntry, Are, WireVMEntry
<1>4. \A n \in strings \cup flags \cup {"index"} : Shows(WireVMEntry, <<n>>)
  BY <1>1, <1>2, Kinds DEF Shows
<1> QED BY <1>3, <1>4 DEF EntryReads, Direct

LEMMA TaskviewData ==
    /\ isWebsocketTaskviewData(WireTaskview)
    /\ \A r \in ViewReads : Shows(WireTaskview, r)
<1> DEFINE names == {"pid", "tgid", "startTime", "comm", "state", "exitState", "exitCode",
                     "exitSignal", "stackCanary"}
           memory == {"mmapBase", "taskSize", "totalVm", "lockedVm", "dataVm", "execVm",
                      "stackVm", "startCode", "endCode", "startData", "endData", "startBrk",
                      "brk", "startStack", "argStart", "argEnd", "envStart", "envEnd"}
           creds == {"uid", "gid", "suid", "sgid", "euid", "egid"}
           sched == {"prio", "staticPrio", "normalPrio", "vruntime", "sumExecRuntime"}
<1>1. \A f \in names : Get(WireTaskview, f) = Str
  BY FirstField DEF WireTaskview
<1>2. /\ Get(WireTaskview, "parent") = WireNumericKey
      /\ Get(WireTaskview, "realParent") = WireNumericKey
      /\ Get(WireTaskview, "realCreds") = WireCreds
      /\ Get(WireTaskview, "sched") = WireSched
      /\ Get(WireTaskview, "memory") = WireMemory
  BY SecondField DEF WireTaskview, Strings
<1>3. \A f \in memory : Get(WireMemory, f) = Str
  BY StringField DEF WireMemory
<1>4. \A f \in creds : Get(WireCreds, f) = Str
  BY StringField DEF WireCreds
<1>5. \A f \in sched : Get(WireSched, f) = Str
  BY StringField DEF WireSched
<1>6. /\ isWebsocketMemoryData(WireMemory) /\ isWebsocketCredData(WireCreds)
      /\ isWebsocketSchedData(WireSched)
  <2>1. Are(WireMemory, memory, "string") /\ typeof(WireMemory) = "object"
    BY <1>3, Kinds DEF Are, WireMemory
  <2>2. Are(WireCreds, creds, "string") /\ typeof(WireCreds) = "object"
    BY <1>4, Kinds DEF Are, WireCreds
  <2>3. Are(WireSched, sched, "string") /\ typeof(WireSched) = "object"
    BY <1>5, Kinds DEF Are, WireSched
  <2> QED
    BY <2>1, <2>2, <2>3 DEF isWebsocketMemoryData, isWebsocketCredData, isWebsocketSchedData
<1>7. isWebsocketTaskviewData(WireTaskview)
  <2>1. Are(WireTaskview, names, "string") /\ typeof(WireTaskview) = "object"
    BY <1>1, Kinds DEF Are, WireTaskview
  <2>2. Are(WireTaskview, {"parent", "realParent"}, "object")
    BY <1>2, Kinds DEF Are, WireNumericKey
  <2> QED
    BY <1>2, <1>6, <2>1, <2>2 DEF isWebsocketTaskviewData
<1>8. \A n \in names : Shows(WireTaskview, <<n>>)
  BY <1>1, Kinds DEF Shows
<1>9. \A k \in {"parent", "realParent"}, n \in {"pid", "startTime"} : Shows(WireTaskview, <<k, n>>)
  BY <1>2, TaskKey DEF Shows
<1>10. \A n \in memory : Shows(WireTaskview, <<"memory", n>>)
  BY <1>2, <1>3, Kinds DEF Shows
<1>11. \A n \in creds : Shows(WireTaskview, <<"realCreds", n>>)
  BY <1>2, <1>4, Kinds DEF Shows
<1>12. \A n \in sched : Shows(WireTaskview, <<"sched", n>>)
  BY <1>2, <1>5, Kinds DEF Shows
<1>13. \A r \in TaskStructReads : Shows(WireTaskview, r)
  BY <1>8, <1>9 DEF TaskStructReads, Direct, Under
<1>14. \A r \in MMStructReads : Shows(WireTaskview, r)
  <2>1. \A n \in {"pid", "startTime"} : Shows(WireTaskview, <<n>>)
    BY <1>8
  <2> HIDE DEF memory
  <2> QED
    BY <1>10, <2>1 DEF MMStructReads, Direct, Under, memory
<1>15. \A r \in CredsReads \cup SchedReads : Shows(WireTaskview, r)
  BY <1>11, <1>12 DEF CredsReads, SchedReads, Under
<1> QED
  BY <1>7, <1>13, <1>14, <1>15 DEF ViewReads

\* Every message of the bridge passes the guard of its handler, and has what is read of it.
LEMMA GuardsPass ==
    ASSUME NEW type \in Channels, NEW nonempty \in BOOLEAN
    PROVE  /\ isWSMessage(Envelope(type, nonempty))
           /\ Get(Envelope(type, nonempty), "payload") = Payload(type, nonempty)
           /\ Accepts(type, Payload(type, nonempty))
           /\ ReadsArrive(type, Payload(type, nonempty))
<1> DEFINE list(e) == Array(IF nonempty THEN {e} ELSE {})
           payload == Payload(type, nonempty)
<1>1. \A e : list(e).type = "array" /\ list(e).elements \subseteq {e}
  BY Kinds
<1>2. ASSUME type = "Error"
      PROVE  Accepts(type, payload) /\ ReadsArrive(type, payload)
  <2>1. payload = WireError
    BY <1>2 DEF Payload
  <2>2. Get(WireError, "message") = Str
    BY StringField DEF WireError
  <2>3. isWebsocketError(payload) /\ Shows(payload, <<"message">>)
    BY <2>1, <2>2, Kinds DEF isWebsocketError, Are, Shows, WireError
  <2> QED BY <1>2, <2>1, <2>3, Kinds DEF Accepts, ReadsArrive, WireError
<1>3. ASSUME type = "ProctreeDump"
      PROVE  Accepts(type, payload) /\ ReadsArrive(type, payload)
  <2>1. payload = Object([nodes |-> list(WireProctreeNode), timeFormatted |-> Str])
    BY <1>3 DEF Payload
  <2> HIDE DEF list
  <2>2. Get(payload, "nodes") = list(WireProctreeNode) /\ Get(payload, "timeFormatted") = Str
    BY <2>1, Field
  <2>3. Elements(payload, "nodes") \subseteq {WireProctreeNode}
    BY <1>1, <2>2 DEF Elements
  <2>4. isWebsocketProctreeDump(payload)
    BY <1>1, <2>1, <2>2, Kinds, ProctreeNode
       DEF isWebsocketProctreeDump, isProctreeNodeArray, Are
  <2>5. Shows(payload, <<"timeFormatted">>)
    BY <2>2, Kinds DEF Shows
  <2> QED BY <1>3, <2>3, <2>4, <2>5, ProctreeNode DEF Accepts, ReadsArrive
<1>4. ASSUME type = "SchedhookCap"
      PROVE  Accepts(type, payload) /\ ReadsArrive(type, payload)
  <2>1. payload = Object([events |-> list(WireSchedEvent)])
    BY <1>4 DEF Payload
  <2> HIDE DEF list
  <2>2. Get(payload, "events") = list(WireSchedEvent)
    BY <2>1, Field
  <2>3. Elements(payload, "events") \subseteq {WireSchedEvent}
    BY <1>1, <2>2 DEF Elements
  <2>4. isSchedCap(payload)
    BY <1>1, <2>1, <2>2, <2>3, Kinds, SchedEvent DEF isSchedCap
  <2> QED BY <1>4, <2>3, <2>4, SchedEvent DEF Accepts, ReadsArrive
<1>5. ASSUME type = "VMEDump"
      PROVE  Accepts(type, payload) /\ ReadsArrive(type, payload)
  <2>1. payload = Object([entries |-> list(WireVMEntry)])
    BY <1>5 DEF Payload
  <2> HIDE DEF list
  <2>2. Get(payload, "entries") = list(WireVMEntry)
    BY <2>1, Field
  <2>3. Elements(payload, "entries") \subseteq {WireVMEntry}
    BY <1>1, <2>2 DEF Elements
  <2>4. isWebsocketVMEDump(payload)
    BY <1>1, <2>1, <2>2, <2>3, Kinds, VMEntry DEF isWebsocketVMEDump
  <2> QED BY <1>5, <2>3, <2>4, VMEntry DEF Accepts, ReadsArrive
<1>6. ASSUME type = "TaskviewData"
      PROVE  Accepts(type, payload) /\ ReadsArrive(type, payload)
  <2>1. payload = WireTaskview
    BY <1>6 DEF Payload
  <2> QED BY <1>6, <2>1, TaskviewData DEF Accepts, ReadsArrive
<1>7. Accepts(type, payload) /\ ReadsArrive(type, payload)
  BY <1>2, <1>3, <1>4, <1>5, <1>6 DEF Channels
<1>8. payload # Undefined
  BY Kinds DEF Channels, Payload, WireError, WireTaskview
<1>9. Get(Envelope(type, nonempty), "type") = Num /\ Get(Envelope(type, nonempty), "payload") = payload
  <2> HIDE DEF payload
  <2> DEFINE F == [type |-> Num, payload |-> payload]
  <2>1. Get(Object(F), "type") = Num /\ Get(Object(F), "payload") = payload
    BY Field
  <2> QED BY <2>1 DEF Envelope, payload
<1> HIDE DEF payload
<1>10. isWSMessage(Envelope(type, nonempty))
  BY <1>8, <1>9, Kinds DEF isWSMessage, Envelope
<1> QED BY <1>7, <1>9, <1>10 DEF payload

----------------------------------------------------------------------------
(* What is on the way and what the pages hold.                             *)

\* A table of the last level has no table below it, and of a page's contents there is none.
Fits(q, t) == \A i \in Index : t[i] = "table" => Len(toIndices(q.path)) < Levels - 1

Questions == [key : Tasks, path : [1 .. Levels -> Index \cup {Unspec}]]

Requests ==
    [type : {"ReqProctreeDump", "ReqCapStart", "ReqCapEnd"}]
    \cup [type : {"ReqVMEDump"}, question : Questions]
    \cup [type : {"ReqTaskview"}, key : Tasks]

Answers ==
    [type : {"Error"}, message : Errors, question : Questions \cup {NoQuestion}]
    \cup [type : {"ProctreeDump"}, tree : Trees]
    \cup [type : {"SchedhookCap"}, events : Captures]
    \cup {m \in [type : {"VMEDump"}, question : Questions, table : Tables] :
              Fits(m.question, m.table)}
    \cup [type : {"TaskviewData"}, key : Tasks]

\* Nothing is on its way but on an open socket.
PipeInv ==
    /\ toServer \in Seq(Requests) /\ toClient \in Seq(Answers)
    /\ Len(toClient) <= BufferSize
    /\ socket \in {"connecting", "open", "closed"} /\ status \in {"Connecting", "Connected"}
    /\ registered \in BOOLEAN
    /\ socket = "open" => status = "Connected"
    /\ socket # "open" => toServer = <<>> /\ toClient = <<>> /\ ~registered

PageInv ==
    /\ url \in Urls
    /\ paused \in BOOLEAN
    /\ viewer.tree \in Trees \cup {NoMap}
    /\ viewData \in Tasks \cup {kernelId}
    /\ entries.table \in Tables /\ Fits(entries.answers, entries.table)

\* A page that asks, and what it asks; whether m answers a page of its kind, and it;
\* and whether the page shows the answer.
TaskPage(u) == u.page \in {"vm", "view"}
Request(u) ==
    IF u.page = "vm" THEN [type |-> "ReqVMEDump", question |-> Question(u)]
    ELSE [type |-> "ReqTaskview", key |-> u.task]
Replies(m, u) == m.type = ChannelOf[u.page]
Fulfils(m, u) == IF u.page = "vm" THEN m.question = Question(u) ELSE m.key = u.task
ShowsReply ==
    IF url.page = "vm" THEN entries.answers = Question(url) ELSE viewData = url.task

\* The last question in s is that of u, or there is none.
Asks(m) == m.type \in {"ReqVMEDump", "ReqTaskview"}
LastAsked(s, u) ==
    \E i \in DOMAIN s : s[i] = Request(u) /\ \A j \in DOMAIN s : j > i => ~Asks(s[j])
NoneAsked(s) == \A j \in DOMAIN s : ~Asks(s[j])

\* The last message of a type in s is one of those in P, or there is none.
LastOf(s, type, P) ==
    \E k \in DOMAIN s : /\ s[k].type = type /\ s[k] \in P
                        /\ \A j \in DOMAIN s : j > k => s[j].type # type
NoneOf(s, type) == \A k \in DOMAIN s : s[k].type # type

\* The last answer in s for the kind of u is the one to its question, or there is none.
LastReplied(s, u) == LastOf(s, ChannelOf[u.page], {m \in Answers : Fulfils(m, u)})
NoneReplied(s, u) == NoneOf(s, ChannelOf[u.page])

\* The last error in s is the refusal of u's question.
LastRefusal(s, u) == LastOf(s, "Error", {m \in Answers : m.question = Question(u)})

\* As long as the page's question is not served it is the last on the way to the bridge.
\* Once it is, the last answer on the way to the page is the one to it, or there is none
\* and the page shows it.
FateInv ==
    /\ fate \in Fates
    /\ TaskPage(url) <=> fate # "none"
    /\ fate = "asked" => LastAsked(toServer, url)
    /\ fate = "answered" =>
         /\ NoneAsked(toServer)
         /\ LastReplied(toClient, url) \/ (NoneReplied(toClient, url) /\ ShowsReply)

\* A table page's question is the last that the page has sent. When it is refused no
\* question is left whose error could come behind its own.
RefusalInv ==
    /\ fate = "asked" /\ url.page = "vm" =>
         toServer # <<>> /\ toServer[Len(toServer)] = Request(url)
    /\ fate \in Refused => url.page = "vm" /\ toServer = <<>>
    /\ fate \in {"refused", "overtaken"} => LastRefusal(toClient, url)
    /\ fate \in {"heard", "told"} => LastRefusal(toClient, url) \/ NoneOf(toClient, "Error")
    /\ fate = "heard" => errors.indexMoved

----------------------------------------------------------------------------
(* Sequences.                                                              *)

LEMMA Appended ==
    ASSUME NEW S, NEW s \in Seq(S), NEW m \in S
    PROVE  /\ Append(s, m) \in Seq(S) /\ Len(s) \in Nat /\ Len(Append(s, m)) = Len(s) + 1
           /\ DOMAIN s = 1 .. Len(s) /\ DOMAIN Append(s, m) = 1 .. Len(s) + 1
           /\ \A i \in 1 .. Len(s) : Append(s, m)[i] = s[i]
           /\ Append(s, m)[Len(s) + 1] = m
  OBVIOUS

LEMMA SeqIsFunction ==
    ASSUME NEW S, NEW s \in Seq(S)
    PROVE  s \in [1 .. Len(s) -> S]
  OBVIOUS

LEMMA Taken ==
    ASSUME NEW S, NEW s \in Seq(S), s # <<>>
    PROVE  /\ Tail(s) \in Seq(S) /\ Len(s) \in Nat \ {0} /\ Len(Tail(s)) = Len(s) - 1
           /\ DOMAIN s = 1 .. Len(s) /\ DOMAIN Tail(s) = 1 .. Len(s) - 1
           /\ \A i \in 1 .. Len(s) - 1 : Tail(s)[i] = s[i + 1]
           /\ Head(s) = s[1] /\ Head(s) \in S
  OBVIOUS

----------------------------------------------------------------------------
(* Paths.                                                                  *)

\* The indices of the path of the first parts are these parts.
LEMMA Indices ==
    ASSUME NEW n \in Nat, NEW parts \in [1 .. n -> Index], NEW depth,
           depth = IF n <= Levels THEN n ELSE Levels - 1
    PROVE  toIndices(toPathObj(parts)) = [k \in 1 .. depth |-> parts[k]]
<1> DEFINE p == toPathObj(parts)
           specified == {k \in 1 .. Levels : p[k] # Unspec}
           below(k) == {j \in specified : j <= k}
           nth(i) == CHOOSE k \in specified : Cardinality(below(k)) = i
<1>1. Levels \in Nat \ {0} /\ depth \in 0 .. Levels /\ depth <= n /\ Len(parts) = n
  BY LevelsAssumption
<1>2. \A k \in 1 .. n : parts[k] # Unspec
  BY IndexAssumption DEF Unspec
<1>3. /\ \A k \in 1 .. depth : p[k] = parts[k]
      /\ \A k \in 1 .. Levels : k > depth => p[k] = Unspec
  BY <1>1 DEF toPathObj
<1>4. specified = 1 .. depth
  BY <1>1, <1>2, <1>3
<1>5. ASSUME NEW k \in 0 .. depth PROVE Cardinality({j \in 1 .. depth : j <= k}) = k
  <2>1. {j \in 1 .. depth : j <= k} = 1 .. k
    BY <1>1
  <2>2. k \in Nat /\ Cardinality(1 .. k) = k
    BY <1>1, FS_Interval
  <2> QED BY <2>1, <2>2
<1>6. Cardinality(specified) = depth
  <2>1. depth \in Nat /\ Cardinality(1 .. depth) = depth
    BY <1>1, FS_Interval
  <2> QED BY <1>4, <2>1
<1>7. ASSUME NEW i \in 1 .. depth PROVE nth(i) = i
  <2>1. \A k \in specified : Cardinality(below(k)) = k
    BY <1>1, <1>4, <1>5
  <2>2. i \in specified
    BY <1>4
  <2> HIDE DEF specified, below
  <2> QED BY <2>1, <2>2
<1>8. toIndices(p) = [i \in 1 .. Cardinality(specified) |-> p[nth(i)]]
  BY DEF toIndices
<1> HIDE DEF p, specified, nth
<1>9. toIndices(p) = [i \in 1 .. depth |-> parts[i]]
  BY <1>3, <1>6, <1>7, <1>8
<1> QED BY <1>9 DEF p

\* The depth of a table.
LEMMA Depth ==
    ASSUME NEW p
    PROVE  Len(toIndices(p)) \in 0 .. Levels
<1> DEFINE specified == {k \in 1 .. Levels : p[k] # Unspec}
           nth(n) == CHOOSE k \in specified : Cardinality({j \in specified : j <= k}) = n
<1>1. IsFiniteSet(1 .. Levels) /\ Cardinality(1 .. Levels) = Levels
  BY LevelsAssumption, FS_Interval
<1>2. Cardinality(specified) \in 0 .. Levels
  <2>1. specified \subseteq 1 .. Levels
    OBVIOUS
  <2> HIDE DEF specified
  <2>2. Cardinality(specified) <= Levels /\ Cardinality(specified) \in Nat
    BY <1>1, <2>1, FS_Subset, FS_CardinalityType
  <2> QED BY <2>2, LevelsAssumption
<1> HIDE DEF specified
<1> DEFINE c == Cardinality(specified)
<1>3. toIndices(p) = [n \in 1 .. c |-> p[nth(n)]]
  BY DEF toIndices, specified
<1> HIDE DEF c, nth
<1>4. c \in Nat
  BY <1>2, LevelsAssumption DEF c
<1>5. Len(toIndices(p)) = c
  BY <1>3, <1>4
<1> QED BY <1>2, <1>5 DEF c

LEMMA Shape ==
    ASSUME NEW u \in Urls
    PROVE  /\ u.page \in Pages
           /\ u.page \in {"vm", "view"} => u.task \in Tasks
           /\ \E n \in 0 .. Levels + 1 : u.parts \in [1 .. n -> Index]
<1>1. CASE u \in {Home, SchedUrl}
  <2>1. u.parts = <<>> /\ u.page \in {"proctree", "schedhook"}
    BY <1>1 DEF Home, SchedUrl
  <2>2. u.parts \in [1 .. 0 -> Index]
    BY <2>1
  <2> QED BY <2>1, <2>2, LevelsAssumption DEF Pages
<1>2. ASSUME NEW t \in Tasks, u = ViewUrl(t)
      PROVE  /\ u.page = "view" /\ u.task \in Tasks
             /\ \E n \in 0 .. Levels + 1 : u.parts \in [1 .. n -> Index]
  <2>1. u.parts = <<>> /\ u.page = "view" /\ u.task \in Tasks
    BY <1>2 DEF ViewUrl
  <2>2. u.parts \in [1 .. 0 -> Index]
    BY <2>1
  <2> QED BY <2>1, <2>2, LevelsAssumption
<1>3. ASSUME NEW t \in Tasks, NEW p \in PartsUpTo(Levels - 1) \cup PartsUpTo(Levels + 1),
             u = VmUrl(t, p)
      PROVE  /\ u.page = "vm" /\ u.task \in Tasks
             /\ \E n \in 0 .. Levels + 1 : u.parts \in [1 .. n -> Index]
  <2>1. \E n \in 0 .. Levels + 1 : p \in [1 .. n -> Index]
    BY <1>3, LevelsAssumption DEF PartsUpTo
  <2> QED BY <1>3, <2>1 DEF VmUrl
<1> QED BY <1>1, <1>2, <1>3 DEF Urls, VisitedUrls, Pages

LEMMA QuestionKnown ==
    ASSUME NEW u \in Urls, u.page = "vm"
    PROVE  Question(u) \in Questions
<1>1. u.task \in Tasks
  BY Shape
<1>2. PICK n \in 0 .. Levels + 1 : u.parts \in [1 .. n -> Index]
  BY Shape
<1>3. toPathObj(u.parts) \in [1 .. Levels -> Index \cup {Unspec}]
  <2>1. Len(u.parts) = n /\ n \in Nat
    BY <1>2, LevelsAssumption
  <2> QED BY <1>2, <2>1, LevelsAssumption DEF toPathObj
<1> QED BY <1>1, <1>3 DEF Question, Questions

\* The location of a table on the way to the one shown, or of one below it.
LEMMA TableUrls ==
    ASSUME NEW u \in Urls, u.page = "vm"
    PROVE  /\ \A n \in 0 .. Len(toIndices(toPathObj(u.parts))) - 1 :
                  VmUrl(u.task, SubSeq(toIndices(toPathObj(u.parts)), 1, n)) \in Urls
           /\ \A i \in Index : VmUrl(u.task, Append(toIndices(toPathObj(u.parts)), i)) \in Urls
<1> DEFINE s == toIndices(toPathObj(u.parts))
<1>1. u.task \in Tasks
  BY Shape
<1>2. PICK n \in 0 .. Levels + 1 : u.parts \in [1 .. n -> Index]
  BY Shape
<1> DEFINE depth == IF n <= Levels THEN n ELSE Levels - 1
<1>3. depth \in 0 .. Levels /\ depth <= n /\ n \in Nat
  BY <1>2, LevelsAssumption
<1>4. s = [k \in 1 .. depth |-> u.parts[k]]
  BY <1>2, <1>3, Indices
<1> HIDE DEF s, depth
<1>5. s \in Seq(Index) /\ Len(s) = depth
  BY <1>2, <1>3, <1>4, LevelsAssumption
<1>6. ASSUME NEW q, NEW m \in 0 .. Levels + 1, q \in [1 .. m -> Index]
      PROVE  VmUrl(u.task, q) \in Urls
  BY <1>1, <1>6 DEF Urls, PartsUpTo
<1>7. ASSUME NEW m \in 0 .. depth - 1 PROVE VmUrl(u.task, SubSeq(s, 1, m)) \in Urls
  <2>1. m \in Nat /\ m <= Len(s) /\ m \in 0 .. Levels + 1
    BY <1>3, <1>5, <1>7, LevelsAssumption
  <2>2. SubSeq(s, 1, m) \in Seq(Index) /\ Len(SubSeq(s, 1, m)) = m
    BY <1>5, <2>1
  <2>3. SubSeq(s, 1, m) \in [1 .. m -> Index]
    BY <2>2, SeqIsFunction
  <2> QED BY <1>6, <2>1, <2>3
<1>8. ASSUME NEW i \in Index PROVE VmUrl(u.task, Append(s, i)) \in Urls
  <2>1. Append(s, i) \in Seq(Index) /\ Len(Append(s, i)) = depth + 1
    BY <1>5
  <2>2. depth + 1 \in 0 .. Levels + 1
    BY <1>3, LevelsAssumption
  <2> QED BY <1>6, <2>1, <2>2, SeqIsFunction
<1> QED BY <1>5, <1>7, <1>8 DEF s

----------------------------------------------------------------------------
(* Steps of the pipes and the pages.                                       *)

\* send()
LEMMA SentKnown ==
    ASSUME toServer \in Seq(Requests), NEW sock, NEW m \in Requests, Send(sock, m)
    PROVE  /\ toServer' \in Seq(Requests)
           /\ sock # "open" => toServer' = toServer
<1>1. Append(toServer, m) \in Seq(Requests)
  BY Appended
<1> QED BY <1>1 DEF Send

\* The request of a page, by the effect of its hook or its feature.
LEMMA AskKnown ==
    ASSUME toServer \in Seq(Requests), NEW u \in Urls, NEW sock, NEW s, Ask(u, sock, s)
    PROVE  /\ toServer' \in Seq(Requests)
           /\ sock # "open" => toServer' = toServer
           /\ fate' \in {"none", "asked", "dropped"}
           /\ TaskPage(u) <=> fate' # "none"
           /\ fate' = "asked" => toServer' = Append(toServer, Request(u))
<1>1. u.page \in Pages
  BY Shape
<1>2. CASE u.page = "proctree"
  <2>1. [type |-> "ReqProctreeDump"] \in Requests
    BY DEF Requests
  <2> QED BY <1>2, <2>1, SentKnown DEF Ask, TaskPage
<1>3. CASE u.page = "schedhook"
  BY <1>3 DEF Ask, TaskPage
<1>4. CASE u.page = "vm"
  <2>1. [type |-> "ReqVMEDump", question |-> Question(u)] \in Requests
    BY <1>4, QuestionKnown DEF Requests
  <2>2. /\ Send(sock, [type |-> "ReqVMEDump", question |-> Question(u)])
        /\ fate' = IF sock = "open" THEN "asked" ELSE "dropped"
    BY <1>4 DEF Ask
  <2>3. toServer' \in Seq(Requests) /\ (sock # "open" => toServer' = toServer)
    BY <2>1, <2>2, SentKnown
  <2>4. fate' = "asked" => toServer' = Append(toServer, Request(u))
    BY <1>4, <2>2 DEF Send, Request
  <2> QED BY <1>4, <2>2, <2>3, <2>4 DEF TaskPage
<1>5. CASE u.page = "view"
  <2>1. [type |-> "ReqTaskview", key |-> u.task] \in Requests
    BY <1>5, Shape DEF Requests
  <2>2. /\ IF s = "Connected" THEN Send(sock, [type |-> "ReqTaskview", key |-> u.task])
           ELSE UNCHANGED toServer
        /\ fate' = IF sock = "open" /\ s = "Connected" THEN "asked" ELSE "dropped"
    BY <1>5 DEF Ask
  <2>3. toServer' \in Seq(Requests) /\ (sock # "open" => toServer' = toServer)
    BY <2>1, <2>2, SentKnown
  <2>4. fate' = "asked" => toServer' = Append(toServer, Request(u))
    BY <1>5, <2>2 DEF Send, Request
  <2> QED BY <1>5, <2>2, <2>3, <2>4 DEF TaskPage
<1> QED BY <1>1, <1>2, <1>3, <1>4, <1>5 DEF Pages

\* sendMessage()
LEMMA ReplyKnown ==
    ASSUME toClient \in Seq(Answers), Len(toClient) <= BufferSize, NEW m \in Answers, Reply(m)
    PROVE  /\ toClient' \in Seq(Answers) /\ Len(toClient') <= BufferSize
           /\ toClient' = toClient \/ toClient' = Append(toClient, m)
<1>1. /\ Append(toClient, m) \in Seq(Answers) /\ Len(toClient) \in Nat
      /\ Len(Append(toClient, m)) = Len(toClient) + 1
  BY Appended
<1> QED BY <1>1, BoundsAssumption DEF Reply

\* What the bridge sends when it serves a message.
LEMMA ServedKnown ==
    ASSUME toServer \in Seq(Requests), toServer # <<>>,
           ServeRegister \/ ServeStart \/ ServeEnd \/ ServeVM \/ ServeView
    PROVE  toClient' = toClient \/ \E m \in Answers : Reply(m)
<1>1. Head(toServer) \in Requests
  BY Taken
<1>2. \A e \in Errors : /\ Error(e, NoQuestion) \in Answers
                        /\ \A q \in Questions : Error(e, q) \in Answers
  BY DEF Answers, Error
<1>3. CASE ServeRegister
  BY <1>3 DEF ServeRegister
<1>4. CASE ServeStart
  BY <1>2, <1>4 DEF ServeStart
<1>5. CASE ServeEnd
  <2>1. \A c \in Captures : [type |-> "SchedhookCap", events |-> c] \in Answers
    BY DEF Answers
  <2> QED BY <1>2, <1>5, <2>1 DEF ServeEnd
<1>6. CASE ServeVM
  <2> DEFINE q == Head(toServer).question
             depth == Len(toIndices(q.path))
  <2>0. q \in Questions
    <3>1. Head(toServer).type = "ReqVMEDump"
      BY <1>6 DEF ServeVM
    <3> QED BY <1>1, <3>1 DEF Requests
  <2>1. CASE \E e \in Errors : Reply(Error(e, q))
    BY <1>2, <2>0, <2>1
  <2>2. CASE ~\E e \in Errors : Reply(Error(e, q))
    <3>3. PICK t \in Tables :
             /\ depth < Levels /\ (depth = Levels - 1 => \A i \in Index : t[i] # "table")
             /\ Reply([type |-> "VMEDump", question |-> q, table |-> t])
      BY <1>6, <2>2 DEF ServeVM
    <3>4. depth \in 0 .. Levels
      BY Depth
    <3>5. Fits(q, t)
      BY <3>3, <3>4, LevelsAssumption DEF Fits
    <3> HIDE DEF q
    <3>6. [type |-> "VMEDump", question |-> q, table |-> t] \in Answers
      BY <2>0, <3>5 DEF Answers
    <3> QED BY <3>3, <3>6
  <2> QED BY <2>1, <2>2
<1>7. CASE ServeView
  <2>1. Head(toServer).type = "ReqTaskview"
    BY <1>7 DEF ServeView
  <2>2. Head(toServer).key \in Tasks
    BY <1>1, <2>1 DEF Requests
  <2>3. [type |-> "TaskviewData", key |-> Head(toServer).key] \in Answers
    BY <2>2 DEF Answers
  <2> QED BY <1>7, <2>3 DEF ServeView
<1> QED BY <1>3, <1>4, <1>5, <1>6, <1>7

LEMMA NothingUnderWay ==
    ASSUME toServer = <<>>, toClient = <<>>
    PROVE  toServer \in Seq(Requests) /\ toClient \in Seq(Answers) /\ Len(toClient) <= BufferSize
<1>1. Len(toClient) = 0
  OBVIOUS
<1> QED BY <1>1, BoundsAssumption

LEMMA PipeInit == Init => PipeInv
BY NothingUnderWay DEF Init, PipeInv

\* A step of the client that only sends, or nothing.
LEMMA SendingKnown ==
    ASSUME PipeInv, UNCHANGED <<socket, status, toClient, registered>>,
           toServer' \in Seq(Requests), socket # "open" => toServer' = toServer
    PROVE  PipeInv'
  BY DEF PipeInv

LEMMA PipeStep == PipeInv /\ PageInv /\ url' \in Urls /\ [Next]_vars => PipeInv'
<1> SUFFICES ASSUME PipeInv, PageInv, url' \in Urls, [Next]_vars PROVE PipeInv'
  OBVIOUS
<1> USE DEF pageVars, pipes
<1>0. ASSUME toServer' = <<>>, toClient' = <<>>
      PROVE  toServer' \in Seq(Requests) /\ toClient' \in Seq(Answers) /\ Len(toClient') <= BufferSize
  <2>1. Len(toClient') = 0
    BY <1>0
  <2> QED BY <1>0, <2>1, BoundsAssumption
<1>1. CASE Open
  <2>1. toServer' \in Seq(Requests)
    <3>1. CASE url.page = "proctree" /\ paused
      BY <1>1, <3>1 DEF Open, PipeInv
    <3>2. CASE Ask(url, "open", "Connected")
      BY <3>2, AskKnown DEF PipeInv, PageInv
    <3> QED BY <1>1, <3>1, <3>2 DEF Open
  <2> QED BY <1>1, <2>1 DEF Open, PipeInv
<1>2. CASE Close
  BY <1>0, <1>2 DEF Close, PipeInv
<1>3. CASE Reconnect
  BY <1>0, <1>3 DEF Reconnect, PipeInv
<1>4. CASE Receive
  <2>1. toClient # <<>> /\ toClient' = Tail(toClient)
        /\ UNCHANGED <<socket, status, toServer, registered>>
    BY <1>4 DEF Receive, Deliver
  <2>2. toClient' \in Seq(Answers) /\ Len(toClient) \in Nat /\ Len(toClient') = Len(toClient) - 1
    BY <2>1, Taken DEF PipeInv
  <2> QED BY <2>1, <2>2, BoundsAssumption DEF PipeInv
<1>5. CASE Serve
  <2>1. /\ toServer # <<>> /\ toServer' = Tail(toServer) /\ UNCHANGED <<socket, status>>
        /\ registered' \in {registered, TRUE}
    BY <1>5 DEF Serve, ServeRegister, ServeStart, ServeEnd, ServeVM, ServeView
  <2>2. toServer' \in Seq(Requests)
    BY <2>1, Taken DEF PipeInv
  <2>3. toClient' \in Seq(Answers) /\ Len(toClient') <= BufferSize
    BY <1>5, <2>1, ServedKnown, ReplyKnown DEF Serve, PipeInv
  <2> QED BY <2>1, <2>2, <2>3 DEF PipeInv
<1>6. CASE Dump
  <2>1. PICK t \in Trees : Reply([type |-> "ProctreeDump", tree |-> t])
    BY <1>6 DEF Dump
  <2>2. [type |-> "ProctreeDump", tree |-> t] \in Answers
    BY DEF Answers
  <2>3. toClient' \in Seq(Answers) /\ Len(toClient') <= BufferSize
    BY <2>1, <2>2, ReplyKnown DEF PipeInv
  <2> QED BY <1>6, <2>3 DEF Dump, PipeInv
<1>7. CASE Follow \/ Jump
  <2>1. PICK u : GoTo(u)
    BY <1>7 DEF Follow, Jump
  <2>2. UNCHANGED toServer \/ Ask(url', socket, status)
    BY <2>1 DEF GoTo
  <2>3. toServer' \in Seq(Requests) /\ (socket # "open" => toServer' = toServer)
    BY <2>2, AskKnown DEF PipeInv
  <2> QED BY <2>1, <2>3, SendingKnown DEF GoTo
<1>8. CASE TogglePause \/ Capture
  <2>1. \/ UNCHANGED toServer
        \/ \E type \in {"ReqProctreeDump", "ReqCapStart", "ReqCapEnd"} : Send(socket, [type |-> type])
    BY <1>8 DEF TogglePause, Capture
  <2>2. \A type \in {"ReqProctreeDump", "ReqCapStart", "ReqCapEnd"} : [type |-> type] \in Requests
    BY DEF Requests
  <2>3. toServer' \in Seq(Requests) /\ (socket # "open" => toServer' = toServer)
    BY <2>1, <2>2, SentKnown DEF PipeInv
  <2> QED BY <1>8, <2>3, SendingKnown DEF TogglePause, Capture
<1>9. CASE UNCHANGED <<socket, status, pipes>>
  BY <1>9 DEF PipeInv
<1>10. CASE ShowErrors
  BY <1>9, <1>10 DEF ShowErrors
<1>11. ASSUME NEW id \in DOMAIN viewer.nodes, Toggle(id) PROVE PipeInv'
  BY <1>9, <1>11 DEF Toggle
<1>12. ASSUME NEW moved \in Moves, NEW id \in DOMAIN moved, Drag(id, moved) PROVE PipeInv'
  BY <1>9, <1>12 DEF Drag
<1>13. ASSUME NEW moved \in Moves, Nudge(moved) PROVE PipeInv'
  BY <1>9, <1>13 DEF Nudge
<1>14. CASE UNCHANGED vars
  BY <1>9, <1>14 DEF vars
<1> QED
  BY <1>1, <1>2, <1>3, <1>4, <1>5, <1>6, <1>7, <1>8, <1>10, <1>11, <1>12, <1>13, <1>14
     DEF Next

\* The tasks of a tree, and so of what is drawn of it, have locations.
LEMMA DrawnTasks ==
    ASSUME PageInv, ViewerKnown(viewer, held, strayed)
    PROVE  ViewLinks(viewer) \subseteq Tasks /\ VmLinks(viewer) \subseteq Tasks
<1>1. viewer.tree \in Trees \cup {NoMap} /\ DOMAIN viewer.nodes \subseteq DOMAIN viewer.tree
  BY DEF PageInv, ViewerKnown, DrawnBy, Drawn
<1>2. CASE viewer.tree \in Trees
  <2>1. /\ DOMAIN viewer.tree \subseteq Tasks \cup {kernelId}
        /\ \A id \in DOMAIN viewer.tree : ToSet(viewer.tree[id].subNodes) \subseteq Tasks
    BY <1>2, TreesAssumption
  <2> QED BY <1>1, <2>1 DEF ViewLinks, VmLinks
<1>3. CASE viewer.tree = NoMap
  <2>1. DOMAIN viewer.nodes = {}
    BY <1>1, <1>3 DEF NoMap
  <2> QED BY <2>1 DEF ViewLinks, VmLinks
<1> QED BY <1>1, <1>2, <1>3

\* Every link leads to a location.
LEMMA LinksLead ==
    ASSUME PageInv, ViewerKnown(viewer, held, strayed)
    PROVE  Links \subseteq Urls
<1>1. \A t \in Tasks : ViewUrl(t) \in Urls /\ VmUrl(t, <<>>) \in Urls
  <2>1. <<>> \in [1 .. 0 -> Index] /\ 0 \in 0 .. Levels + 1
    BY LevelsAssumption
  <2>2. <<>> \in PartsUpTo(Levels + 1)
    BY <2>1 DEF PartsUpTo
  <2> QED BY <2>2 DEF Urls, VisitedUrls
<1>2. Home \in Urls /\ SchedUrl \in Urls
  BY DEF Urls, VisitedUrls
<1>3. url \in Urls /\ url.page \in Pages /\ (url.page \in {"vm", "view"} => url.task \in Tasks)
  BY Shape DEF PageInv
<1>4. CASE url.page = "proctree"
  BY <1>1, <1>2, <1>4, DrawnTasks DEF Links
<1>5. CASE url.page = "schedhook"
  BY <1>2, <1>5 DEF Links
<1>6. CASE url.page = "vm"
  <2>1. NavLinks \subseteq Urls /\ EntryLinks \subseteq Urls
    BY <1>3, <1>6, TableUrls DEF NavLinks, EntryLinks
  <2>2. HeaderLinks \subseteq Urls
    BY <1>1, <1>2, <1>3, <1>6 DEF HeaderLinks
  <2>3. Links = HeaderLinks \cup NavLinks \cup EntryLinks
    BY <1>6 DEF Links
  <2> QED BY <2>1, <2>2, <2>3
<1>7. CASE url.page = "view"
  <2>1. Links = IF viewData = kernelId THEN {} ELSE {Home, VmUrl(viewData, <<>>)}
    BY <1>7 DEF Links
  <2>2. viewData \in Tasks \cup {kernelId}
    BY DEF PageInv
  <2> QED BY <1>1, <1>2, <2>1, <2>2
<1> QED BY <1>3, <1>4, <1>5, <1>6, <1>7 DEF Pages

LEMMA UrlStep ==
    ASSUME PageInv, ViewerKnown(viewer, held, strayed), [Next]_vars
    PROVE  url' \in Urls
<1>1. CASE Follow
  BY <1>1, LinksLead DEF Follow, GoTo
<1>2. CASE Jump
  BY <1>2 DEF Jump, GoTo, Urls
<1>3. CASE UNCHANGED url
  BY <1>3 DEF PageInv
<1>4. CASE ~Follow /\ ~Jump
  BY <1>3, <1>4 DEF Next, vars, Open, Close, Reconnect, Receive, ShowErrors, Serve, Dump,
                    TogglePause, Capture, Toggle, Drag, Nudge
<1> QED BY <1>1, <1>2, <1>4

LEMMA NothingFits ==
    /\ NoEntries.table \in Tables
    /\ Fits(NoEntries.answers, NoEntries.table)
  BY DEF NoEntries, Tables, Fits

\* What a message changes of a page.
LEMMA ReceivedKnown ==
    ASSUME toClient \in Seq(Answers), Receive, PageInv, ViewerKnown(viewer, held, strayed)
    PROVE  /\ UNCHANGED <<url, paused>>
           /\ viewer'.tree \in Trees \cup {NoMap}
           /\ viewData' \in Tasks \cup {kernelId}
           /\ entries'.table \in Tables /\ Fits(entries'.answers, entries'.table)
<1> DEFINE m == Head(toClient)
<1>1. m \in Answers
  BY Taken DEF Receive, Deliver
<1>2. UNCHANGED url
  BY DEF Receive
<1> USE DEF PageInv
<1>3. CASE UNCHANGED pageVars
  BY <1>2, <1>3 DEF pageVars
<1> HIDE DEF m
<1>4. CASE ReceiveError(m)
  BY <1>2, <1>4 DEF ReceiveError, pageVars
<1>5. CASE ReceiveDump(m)
  <2>1. m.tree \in Trees
    BY <1>1, <1>5 DEF Answers, ReceiveDump
  <2>2. viewer'.tree = m.tree
    <3> DEFINE u == [viewer EXCEPT !.tree = m.tree]
    <3>1. viewer' = Relayout(u)
      BY <1>5 DEF ReceiveDump, ShowTree
    <3>2. u.tree = m.tree /\ u = [f \in ViewerFields |-> u[f]]
      BY DEF ViewerKnown, ViewerFields
    <3> HIDE DEF u
    <3>3. Relayout(u).tree = u.tree
      BY <3>2 DEF Relayout, ViewerFields
    <3> QED BY <3>1, <3>2, <3>3
  <2> QED BY <1>2, <1>5, <2>1, <2>2 DEF ReceiveDump
<1>6. CASE ReceiveCapture(m)
  BY <1>2, <1>6 DEF ReceiveCapture
<1>7. CASE ReceiveEntries(m)
  <2>1. m.table \in Tables /\ Fits(m.question, m.table)
    BY <1>1, <1>7 DEF Answers, ReceiveEntries
  <2>2. entries' = [answers |-> m.question, table |-> m.table]
    BY <1>7 DEF ReceiveEntries
  <2> QED BY <1>2, <1>7, <2>1, <2>2 DEF ReceiveEntries
<1>8. CASE ReceiveView(m)
  <2>1. m.key \in Tasks
    BY <1>1, <1>8 DEF Answers, ReceiveView
  <2> QED BY <1>2, <1>8, <2>1 DEF ReceiveView
<1> QED BY <1>3, <1>4, <1>5, <1>6, <1>7, <1>8 DEF Receive, m

LEMMA PageInit == Init => PageInv
<1> SUFFICES ASSUME Init PROVE PageInv
  OBVIOUS
<1>1. viewer.tree = NoMap
  BY DEF Init, InitialViewer
<1> QED BY <1>1, NothingFits DEF Init, PageInv

LEMMA PageStep ==
    PipeInv /\ PageInv /\ ViewerKnown(viewer, held, strayed) /\ [Next]_vars => PageInv'
<1> SUFFICES ASSUME PipeInv, PageInv, ViewerKnown(viewer, held, strayed), [Next]_vars
             PROVE  PageInv'
  OBVIOUS
<1> USE DEF pageVars
<1>0. url' \in Urls
  BY UrlStep
<1>1. CASE UNCHANGED <<paused, viewer, viewData, entries>>
  BY <1>0, <1>1 DEF PageInv, Fits
<1>2. CASE Open \/ Close \/ Reconnect \/ Serve \/ Dump \/ Capture \/ UNCHANGED vars
  BY <1>1, <1>2 DEF Open, Close, Reconnect, Serve, Dump, Capture, vars, PageInv
<1>3. CASE Receive
  BY <1>0, <1>3, ReceivedKnown DEF PageInv, PipeInv, Fits
<1>4. CASE ShowErrors
  BY <1>1, <1>4 DEF ShowErrors
<1>5. CASE Follow \/ Jump
  <2>1. PICK u : GoTo(u)
    BY <1>5 DEF Follow, Jump
  <2>2. UNCHANGED pageVars \/ Unmount
    BY <2>1 DEF GoTo
  <2>3. CASE UNCHANGED pageVars
    BY <1>1, <2>2, <2>3 DEF PageInv
  <2>4. CASE Unmount
    <3>1. /\ paused' = FALSE /\ viewer' = InitialViewer /\ entries' = NoEntries
          /\ viewData' = kernelId
      BY <2>4 DEF Unmount
    <3>2. viewer'.tree = NoMap
      BY <3>1 DEF InitialViewer
    <3> QED BY <1>0, <2>2, <3>1, <3>2, NothingFits DEF PageInv, Fits
  <2> QED BY <2>2, <2>3, <2>4
<1>6. CASE TogglePause
  <2>1. paused' \in BOOLEAN /\ UNCHANGED <<viewer, viewData, entries>>
    BY <1>6 DEF TogglePause
  <2> QED BY <1>0, <2>1 DEF PageInv, Fits
<1>7. CASE viewer'.tree = viewer.tree /\ UNCHANGED <<paused, viewData, entries>>
  BY <1>0, <1>7 DEF PageInv, Fits
<1>8. ASSUME NEW id \in DOMAIN viewer.nodes, Toggle(id) PROVE PageInv'
  <2> DEFINE e == IF id \in viewer.expanded THEN viewer.expanded \ {id}
                  ELSE viewer.expanded \cup {id}
             u == [viewer EXCEPT !.expanded = e]
  <2>1. u.tree = viewer.tree /\ u = [f \in ViewerFields |-> u[f]]
    BY DEF ViewerKnown, ViewerFields
  <2>2. viewer' = Relayout(u)
    BY <1>8 DEF Toggle, ToggleExpand
  <2> HIDE DEF u
  <2>3. Relayout(u).tree = u.tree
    BY <2>1 DEF Relayout, ViewerFields
  <2> QED BY <1>7, <1>8, <2>1, <2>2, <2>3 DEF Toggle
<1>9. ASSUME NEW moved \in Moves, NEW id \in DOMAIN moved, Drag(id, moved)
      PROVE  PageInv'
  <2> DEFINE w == MoveNodes(viewer, moved)
  <2>1. w.tree = viewer.tree /\ w = [f \in ViewerFields |-> w[f]]
    BY MovedKnown
  <2>2. viewer'.tree = w.tree
    <3>1. viewer' = DragStop(viewer, id, moved)
      BY <1>9 DEF Drag
    <3> HIDE DEF w
    <3> QED BY <2>1, <3>1 DEF DragStop, ViewerFields, w
  <2> QED BY <1>7, <1>9, <2>1, <2>2 DEF Drag
<1>10. ASSUME NEW moved \in Moves, Nudge(moved) PROVE PageInv'
  <2>1. MoveNodes(viewer, moved).tree = viewer.tree
    BY MovedKnown
  <2> QED BY <1>7, <1>10, <2>1 DEF Nudge
<1> QED BY <1>2, <1>3, <1>4, <1>5, <1>6, <1>8, <1>9, <1>10 DEF Next

----------------------------------------------------------------------------
(* Questions and answers.                                                  *)

LEMMA AskedLast ==
    ASSUME NEW S, NEW s \in Seq(S), NEW u, Request(u) \in S
    PROVE  LastAsked(Append(s, Request(u)), u)
  BY Appended DEF LastAsked

LEMMA AskedBefore ==
    ASSUME NEW S, NEW s \in Seq(S), NEW u, NEW m \in S, ~Asks(m)
    PROVE  /\ LastAsked(s, u) => LastAsked(Append(s, m), u)
           /\ NoneAsked(s) => NoneAsked(Append(s, m))
<1> DEFINE t == Append(s, m)
<1>1. /\ Len(s) \in Nat /\ DOMAIN s = 1 .. Len(s) /\ DOMAIN t = 1 .. Len(s) + 1
      /\ \A i \in 1 .. Len(s) : t[i] = s[i]
      /\ t[Len(s) + 1] = m
  BY Appended
<1> HIDE DEF t
<1>2. ASSUME LastAsked(s, u) PROVE LastAsked(t, u)
  <2>1. PICK i \in DOMAIN s : s[i] = Request(u) /\ \A j \in DOMAIN s : j > i => ~Asks(s[j])
    BY <1>2 DEF LastAsked
  <2>2. i \in DOMAIN t /\ t[i] = Request(u)
    BY <1>1, <2>1
  <2>3. ASSUME NEW j \in DOMAIN t, j > i PROVE ~Asks(t[j])
    <3>1. CASE j \in 1 .. Len(s)
      BY <1>1, <2>1, <2>3, <3>1
    <3>2. CASE j = Len(s) + 1
      BY <1>1, <3>2
    <3> QED BY <1>1, <3>1, <3>2
  <2> QED BY <2>2, <2>3 DEF LastAsked
<1>3. ASSUME NoneAsked(s) PROVE NoneAsked(t)
  BY <1>1, <1>3 DEF NoneAsked
<1> QED BY <1>2, <1>3 DEF t

\* A message is served. If it is not the last question, that remains.
LEMMA AskedStill ==
    ASSUME NEW S, NEW s \in Seq(S), s # <<>>, NEW u
    PROVE  /\ LastAsked(s, u) /\ (~Asks(Head(s)) \/ \E j \in 2 .. Len(s) : Asks(s[j]))
                 => LastAsked(Tail(s), u)
           /\ NoneAsked(s) => NoneAsked(Tail(s)) /\ ~Asks(Head(s))
<1>1. /\ Len(s) \in Nat \ {0} /\ DOMAIN s = 1 .. Len(s) /\ DOMAIN Tail(s) = 1 .. Len(s) - 1
      /\ \A i \in 1 .. Len(s) - 1 : Tail(s)[i] = s[i + 1]
      /\ Head(s) = s[1]
  BY Taken
<1> DEFINE t == Tail(s)
<1> HIDE DEF t
<1>2. /\ DOMAIN t = 1 .. Len(s) - 1
      /\ \A i \in 2 .. Len(s) : i - 1 \in DOMAIN t /\ t[i - 1] = s[i]
  BY <1>1 DEF t
<1>3. ASSUME LastAsked(s, u), ~Asks(Head(s)) \/ \E j \in 2 .. Len(s) : Asks(s[j])
      PROVE  LastAsked(t, u)
  <2>1. PICK i \in DOMAIN s : s[i] = Request(u) /\ \A j \in DOMAIN s : j > i => ~Asks(s[j])
    BY <1>3 DEF LastAsked
  <2>2. Asks(Request(u))
    BY DEF Asks, Request
  <2>3. i # 1
    BY <1>1, <1>3, <2>1, <2>2
  <2>4. i \in 2 .. Len(s)
    BY <1>1, <2>1, <2>3
  <2>5. i - 1 \in DOMAIN t /\ t[i - 1] = Request(u)
    BY <1>2, <2>1, <2>4
  <2>6. ASSUME NEW j \in DOMAIN t, j > i - 1 PROVE ~Asks(t[j])
    <3>1. j + 1 \in DOMAIN s /\ j + 1 > i /\ t[j] = s[j + 1]
      BY <1>1, <1>2, <2>4, <2>6 DEF t
    <3> QED BY <2>1, <3>1
  <2> QED BY <2>5, <2>6 DEF LastAsked
<1>4. ASSUME NoneAsked(s) PROVE NoneAsked(t) /\ ~Asks(Head(s))
  BY <1>1, <1>2, <1>4 DEF NoneAsked, t
<1> QED BY <1>3, <1>4 DEF t

\* If it is the last question it is that of u, and no other is left.
LEMMA AskedServed ==
    ASSUME NEW S, NEW s \in Seq(S), s # <<>>, NEW u, LastAsked(s, u),
           \A j \in 2 .. Len(s) : ~Asks(s[j])
    PROVE  Head(s) = Request(u) /\ NoneAsked(Tail(s))
<1>1. /\ Len(s) \in Nat \ {0} /\ DOMAIN s = 1 .. Len(s) /\ DOMAIN Tail(s) = 1 .. Len(s) - 1
      /\ \A i \in 1 .. Len(s) - 1 : Tail(s)[i] = s[i + 1]
      /\ Head(s) = s[1]
  BY Taken
<1>2. PICK i \in DOMAIN s : s[i] = Request(u)
  BY DEF LastAsked
<1>3. Asks(Request(u))
  BY DEF Asks, Request
<1>4. i = 1
  BY <1>1, <1>2, <1>3
<1>5. NoneAsked(Tail(s))
  BY <1>1 DEF NoneAsked
<1> QED BY <1>1, <1>2, <1>4, <1>5

LEMMA LastAppended ==
    ASSUME NEW S, NEW s \in Seq(S), NEW type, NEW P, NEW m \in S,
           m.type = type, m \in P
    PROVE  LastOf(Append(s, m), type, P)
  BY Appended DEF LastOf

LEMMA LastBefore ==
    ASSUME NEW S, NEW s \in Seq(S), NEW type, NEW P, NEW m \in S, m.type # type
    PROVE  /\ LastOf(s, type, P) => LastOf(Append(s, m), type, P)
           /\ NoneOf(s, type) => NoneOf(Append(s, m), type)
<1> DEFINE t == Append(s, m)
<1>1. /\ Len(s) \in Nat /\ DOMAIN s = 1 .. Len(s) /\ DOMAIN t = 1 .. Len(s) + 1
      /\ \A i \in 1 .. Len(s) : t[i] = s[i]
      /\ t[Len(s) + 1] = m
  BY Appended
<1> HIDE DEF t
<1>2. ASSUME LastOf(s, type, P) PROVE LastOf(t, type, P)
  <2>1. PICK i \in DOMAIN s : /\ s[i].type = type /\ s[i] \in P
                              /\ \A j \in DOMAIN s : j > i => s[j].type # type
    BY <1>2 DEF LastOf
  <2>2. i \in DOMAIN t /\ t[i] = s[i]
    BY <1>1, <2>1
  <2>3. ASSUME NEW j \in DOMAIN t, j > i PROVE t[j].type # type
    <3>1. CASE j \in 1 .. Len(s)
      BY <1>1, <2>1, <2>3, <3>1
    <3>2. CASE j = Len(s) + 1
      BY <1>1, <3>2
    <3> QED BY <1>1, <3>1, <3>2
  <2> QED BY <2>1, <2>2, <2>3 DEF LastOf
<1>3. ASSUME NoneOf(s, type) PROVE NoneOf(t, type)
  BY <1>1, <1>3 DEF NoneOf
<1> QED BY <1>2, <1>3 DEF t

\* A message is delivered. The last one of a type remains or is that message.
LEMMA LastStill ==
    ASSUME NEW S, NEW s \in Seq(S), s # <<>>, NEW type, NEW P
    PROVE  /\ LastOf(s, type, P) =>
                 \/ LastOf(Tail(s), type, P)
                 \/ NoneOf(Tail(s), type) /\ Head(s).type = type /\ Head(s) \in P
           /\ NoneOf(s, type) => NoneOf(Tail(s), type) /\ Head(s).type # type
<1>1. /\ Len(s) \in Nat \ {0} /\ DOMAIN s = 1 .. Len(s) /\ DOMAIN Tail(s) = 1 .. Len(s) - 1
      /\ \A i \in 1 .. Len(s) - 1 : Tail(s)[i] = s[i + 1]
      /\ Head(s) = s[1]
  BY Taken
<1> DEFINE t == Tail(s)
<1>2. /\ DOMAIN t = 1 .. Len(s) - 1
      /\ \A i \in 2 .. Len(s) : i - 1 \in DOMAIN t /\ t[i - 1] = s[i]
      /\ \A i \in DOMAIN t : i + 1 \in DOMAIN s /\ t[i] = s[i + 1]
  BY <1>1
<1> HIDE DEF t
<1>3. ASSUME LastOf(s, type, P)
      PROVE  \/ LastOf(t, type, P)
             \/ NoneOf(t, type) /\ Head(s).type = type /\ Head(s) \in P
  <2>1. PICK i \in DOMAIN s : /\ s[i].type = type /\ s[i] \in P
                              /\ \A j \in DOMAIN s : j > i => s[j].type # type
    BY <1>3 DEF LastOf
  <2>2. CASE i = 1
    <3>1. ASSUME NEW j \in DOMAIN t PROVE t[j].type # type
      <4>1. j + 1 \in DOMAIN s /\ j + 1 > 1 /\ t[j] = s[j + 1]
        BY <1>1, <1>2
      <4> QED BY <2>1, <2>2, <4>1
    <3> QED BY <1>1, <2>1, <2>2, <3>1 DEF NoneOf
  <2>3. CASE i # 1
    <3>1. i \in 2 .. Len(s) /\ i - 1 \in DOMAIN t /\ t[i - 1] = s[i]
      BY <1>1, <1>2, <2>1, <2>3
    <3>2. ASSUME NEW j \in DOMAIN t, j > i - 1 PROVE t[j].type # type
      <4>1. j + 1 \in DOMAIN s /\ j + 1 > i /\ t[j] = s[j + 1]
        BY <1>1, <1>2, <3>1, <3>2
      <4> QED BY <2>1, <4>1
    <3>3. LastOf(t, type, P)
      BY <2>1, <3>1, <3>2 DEF LastOf
    <3> QED BY <3>3
  <2> QED BY <2>2, <2>3
<1>4. ASSUME NoneOf(s, type) PROVE NoneOf(t, type) /\ Head(s).type # type
  BY <1>1, <1>2, <1>4 DEF NoneOf
<1> QED BY <1>3, <1>4 DEF t

\* The same for the answers of a page.
LEMMA RepliedLast ==
    ASSUME NEW s \in Seq(Answers), NEW u, NEW m \in Answers, Replies(m, u), Fulfils(m, u)
    PROVE  LastReplied(Append(s, m), u)
  BY LastAppended DEF LastReplied, Replies

LEMMA RepliedBefore ==
    ASSUME NEW s \in Seq(Answers), NEW u, NEW m \in Answers, ~Replies(m, u)
    PROVE  /\ LastReplied(s, u) => LastReplied(Append(s, m), u)
           /\ NoneReplied(s, u) => NoneReplied(Append(s, m), u)
  BY LastBefore DEF LastReplied, NoneReplied, Replies

LEMMA RepliedStill ==
    ASSUME NEW s \in Seq(Answers), s # <<>>, NEW u
    PROVE  /\ LastReplied(s, u) =>
                 \/ LastReplied(Tail(s), u)
                 \/ NoneReplied(Tail(s), u) /\ Replies(Head(s), u) /\ Fulfils(Head(s), u)
           /\ NoneReplied(s, u) => NoneReplied(Tail(s), u) /\ ~Replies(Head(s), u)
<1> DEFINE P == {m \in Answers : Fulfils(m, u)}
<1>1. \A m \in P : Fulfils(m, u)
  OBVIOUS
<1> HIDE DEF P
<1>2. /\ LastOf(s, ChannelOf[u.page], P) =>
            \/ LastOf(Tail(s), ChannelOf[u.page], P)
            \/ NoneOf(Tail(s), ChannelOf[u.page]) /\ Head(s).type = ChannelOf[u.page]
               /\ Head(s) \in P
      /\ NoneOf(s, ChannelOf[u.page]) =>
            NoneOf(Tail(s), ChannelOf[u.page]) /\ Head(s).type # ChannelOf[u.page]
  BY LastStill
<1> QED BY <1>1, <1>2 DEF LastReplied, NoneReplied, Replies, P

LEMMA AnswerTypes ==
    ASSUME NEW m \in Answers
    PROVE  m.type \in Channels
  BY DEF Answers, Channels

LEMMA NonemptyKnown == \A m : Nonempty(m) \in BOOLEAN
  BY DEF Nonempty

\* The answer for a page that asks gets to it.
LEMMA ReplyHeard ==
    ASSUME CleanupsKnown, status = "Connected", TaskPage(url), NEW m \in Answers, Replies(m, url)
    PROVE  Heard(m)
<1>1. m.type \in Channels /\ Nonempty(m) \in BOOLEAN
  BY AnswerTypes, NonemptyKnown
<1>2. /\ isWSMessage(Envelope(m.type, Nonempty(m)))
      /\ Accepts(m.type, Get(Envelope(m.type, Nonempty(m)), "payload"))
  BY <1>1, GuardsPass
<1>3. Subscribes(m.type, url, status, paused)
  BY DEF Subscribes, Mounted, Replies, TaskPage, ChannelOf
<1>4. listeners[m.type] = 1
  BY <1>1, <1>3 DEF CleanupsKnown, OneListener
<1> QED BY <1>2, <1>4 DEF Heard

\* The page shows the answer when it is delivered, and other messages do not change what
\* it shows.
LEMMA DeliveredShown ==
    ASSUME PipeInv, CleanupsKnown, TaskPage(url), Receive
    PROVE  LET m == Head(toClient)
           IN  /\ Replies(m, url) /\ Fulfils(m, url) => ShowsReply'
               /\ ~Replies(m, url) /\ ShowsReply => ShowsReply'
<1> DEFINE m == Head(toClient)
<1>1. m \in Answers /\ toClient # <<>>
  BY Taken DEF Receive, Deliver, PipeInv
<1>2. status = "Connected" /\ url' = url
  BY <1>1 DEF PipeInv, Receive
<1>3. \/ ~Heard(m) /\ UNCHANGED <<entries, viewData>>
      \/ ReceiveError(m) \/ ReceiveDump(m) \/ ReceiveCapture(m)
      \/ ReceiveEntries(m) \/ ReceiveView(m)
  BY DEF Receive, pageVars
<1> HIDE DEF m
<1>4. ASSUME Replies(m, url), Fulfils(m, url) PROVE ShowsReply'
  <2>1. Heard(m)
    BY <1>1, <1>2, <1>4, ReplyHeard
  <2>2. CASE url.page = "vm"
    <3>1. m.type = "VMEDump" /\ m.question = Question(url)
      BY <1>4, <2>2 DEF Replies, Fulfils, ChannelOf
    <3>2. entries' = [answers |-> m.question, table |-> m.table]
      BY <1>3, <2>1, <3>1
         DEF ReceiveError, ReceiveDump, ReceiveCapture, ReceiveEntries, ReceiveView
    <3> QED BY <1>2, <2>2, <3>1, <3>2 DEF ShowsReply, Question
  <2>3. CASE url.page = "view"
    <3>1. m.type = "TaskviewData" /\ m.key = url.task
      BY <1>4, <2>3 DEF Replies, Fulfils, ChannelOf
    <3>2. viewData' = m.key
      BY <1>3, <2>1, <3>1
         DEF ReceiveError, ReceiveDump, ReceiveCapture, ReceiveEntries, ReceiveView
    <3> QED BY <1>2, <2>3, <3>1, <3>2 DEF ShowsReply
  <2> QED BY <2>2, <2>3 DEF TaskPage
<1>5. ASSUME ~Replies(m, url), ShowsReply PROVE ShowsReply'
  <2>1. CASE url.page = "vm"
    <3>1. m.type # "VMEDump"
      BY <1>5, <2>1 DEF Replies, ChannelOf
    <3>2. entries' = entries
      BY <1>3, <3>1
         DEF ReceiveError, ReceiveDump, ReceiveCapture, ReceiveEntries, ReceiveView, pageVars
    <3> QED BY <1>2, <1>5, <2>1, <3>2 DEF ShowsReply, Question
  <2>2. CASE url.page = "view"
    <3>1. m.type # "TaskviewData"
      BY <1>5, <2>2 DEF Replies, ChannelOf
    <3>2. viewData' = viewData
      BY <1>3, <3>1
         DEF ReceiveError, ReceiveDump, ReceiveCapture, ReceiveEntries, ReceiveView, pageVars
    <3> QED BY <1>2, <1>5, <2>2, <3>2 DEF ShowsReply
  <2> QED BY <2>1, <2>2 DEF TaskPage
<1> QED BY <1>4, <1>5 DEF m

\* The connection is gone, and with it what was on its way.
LEMMA LostKnown ==
    ASSUME FateInv, PageInv, toServer' = <<>>, toClient' = <<>>, UNCHANGED <<url, pageVars>>,
           fate' = Lost \/ (fate' = "dropped" /\ TaskPage(url))
    PROVE  FateInv'
<1>1. /\ NoneAsked(toServer') /\ NoneReplied(toClient', url')
  BY DEF NoneAsked, NoneReplied, NoneOf
<1>2. UNCHANGED <<entries, viewData>>
  BY DEF pageVars
<1>3. fate' \in Fates /\ (TaskPage(url') <=> fate' # "none") /\ fate' # "asked"
  BY DEF FateInv, Lost, Fates, Refused
<1>4. ASSUME fate' = "answered" PROVE ShowsReply'
  <2>1. fate = "answered" /\ toClient = <<>>
    BY <1>4 DEF Lost
  <2>2. ~LastReplied(toClient, url)
    BY <2>1 DEF LastReplied, LastOf
  <2> QED BY <1>2, <2>1, <2>2 DEF FateInv, ShowsReply, Question
<1> QED BY <1>1, <1>3, <1>4 DEF FateInv

\* A page asks.
LEMMA AskedKnown ==
    ASSUME toServer \in Seq(Requests), url' \in Urls, NEW sock, NEW s, Ask(url', sock, s)
    PROVE  FateInv'
<1>1. /\ toServer' \in Seq(Requests)
      /\ fate' \in {"none", "asked", "dropped"}
      /\ TaskPage(url') <=> fate' # "none"
      /\ fate' = "asked" => toServer' = Append(toServer, Request(url'))
  BY AskKnown
<1>2. ASSUME fate' = "asked" PROVE LastAsked(toServer', url')
  <2>1. url'.page \in {"vm", "view"}
    BY <1>1, <1>2 DEF TaskPage
  <2>2. Request(url') \in Requests
    BY <2>1, Shape, QuestionKnown DEF Request, Requests
  <2> QED BY <1>1, <1>2, <2>2, AskedLast
<1> QED BY <1>1, <1>2 DEF FateInv, Fates

\* Nothing of this changes, or only how far a refusal has got.
LEMMA FateKept ==
    ASSUME FateInv, UNCHANGED <<url, entries, viewData, toServer, toClient>>,
           fate' = fate \/ (fate \in Refused /\ fate' \in Refused)
    PROVE  FateInv'
  BY DEF FateInv, ShowsReply, Question, Fates, Refused

\* The location changes.
LEMMA WentKnown ==
    ASSUME PipeInv, PageInv, FateInv, NEW u \in Urls, GoTo(u)
    PROVE  FateInv'
<1>1. url' = u /\ u.page \in Pages /\ UNCHANGED toClient
  BY Shape DEF GoTo
<1>2. CASE Ask(u, socket, status)
  BY <1>1, <1>2, AskedKnown DEF PipeInv
<1>3. CASE ~Ask(u, socket, status)
  <2>1. /\ u.page = url.page /\ ~(u.page = "vm" /\ u # url)
        /\ UNCHANGED <<entries, viewData, toServer>>
        /\ fate' = IF u.page = "view" /\ u # url THEN "missed" ELSE fate
    BY <1>3 DEF GoTo, pageVars
  <2>2. CASE u = url
    BY <1>1, <2>1, <2>2, FateKept
  <2>3. CASE u.page = "view" /\ u # url
    BY <1>1, <2>1, <2>3 DEF FateInv, Fates, TaskPage
  <2>4. CASE u.page \in {"proctree", "schedhook"}
    BY <1>1, <2>1, <2>4 DEF FateInv, Fates, TaskPage
  <2> QED BY <1>1, <2>1, <2>2, <2>3, <2>4 DEF Pages
<1> QED BY <1>2, <1>3

\* The bridge serves a message that is not a question.
LEMMA OtherServed ==
    ASSUME PipeInv, FateInv, Serve, ~Asks(Head(toServer))
    PROVE  FateInv'
<1>1. /\ toServer # <<>> /\ toServer' = Tail(toServer)
      /\ UNCHANGED <<url, entries, viewData, fate>>
      /\ ServeRegister \/ ServeStart \/ ServeEnd
  BY DEF Serve, ServeRegister, ServeStart, ServeEnd, ServeVM, ServeView, Asks, pageVars
<1>2. /\ fate = "asked" => LastAsked(toServer', url)
      /\ fate = "answered" => NoneAsked(toServer')
  BY <1>1, AskedStill DEF FateInv, PipeInv
<1>3. toClient' = toClient \/ \E m \in Answers : m.type \in {"Error", "SchedhookCap"} /\ Reply(m)
  <2>1. \A e \in Errors : /\ Error(e, NoQuestion) \in Answers
                          /\ Error(e, NoQuestion).type = "Error"
    BY DEF Answers, Error
  <2>2. \A c \in Captures : [type |-> "SchedhookCap", events |-> c] \in Answers
    BY DEF Answers
  <2> QED BY <1>1, <2>1, <2>2 DEF ServeRegister, ServeStart, ServeEnd
<1>4. CASE toClient' = toClient
  BY <1>1, <1>2, <1>4 DEF FateInv, ShowsReply, Question
<1>5. CASE TaskPage(url) /\ toClient' # toClient
  <2>1. PICK m \in Answers : m.type \in {"Error", "SchedhookCap"} /\ toClient' = Append(toClient, m)
    BY <1>3, <1>5, ReplyKnown DEF PipeInv
  <2>2. ~Replies(m, url)
    BY <1>5, <2>1 DEF Replies, TaskPage, ChannelOf
  <2>3. /\ LastReplied(toClient, url) => LastReplied(toClient', url)
        /\ NoneReplied(toClient, url) => NoneReplied(toClient', url)
    BY <2>1, <2>2, RepliedBefore DEF PipeInv
  <2> QED BY <1>1, <1>2, <2>3 DEF FateInv, ShowsReply, Question
<1>6. CASE ~TaskPage(url)
  BY <1>1, <1>6 DEF FateInv
<1> QED BY <1>4, <1>5, <1>6

\* The bridge serves a question.
LEMMA QuestionServed ==
    ASSUME PipeInv, FateInv, Serve, Asks(Head(toServer))
    PROVE  FateInv'
<1>1. /\ toServer # <<>> /\ toServer' = Tail(toServer) /\ toServer \in Seq(Requests)
      /\ UNCHANGED <<url, entries, viewData>>
  BY DEF Serve, pageVars, PipeInv
<1>2. ServeVM \/ ServeView
  BY DEF Serve, ServeRegister, ServeStart, ServeEnd, Asks
<1>3. fate # "answered"
  BY <1>1, AskedStill DEF FateInv
<1>4. CASE ~Latest
  <2>1. fate' = fate
    BY <1>2, <1>4 DEF ServeVM, ServeView, FateOfReply, FateIs
  <2>2. fate = "asked" => \E j \in 2 .. Len(toServer) : Asks(toServer[j])
    BY <1>4 DEF Latest, Asks
  <2>3. fate = "asked" => LastAsked(toServer', url)
    BY <1>1, <2>2, AskedStill DEF FateInv
  <2> QED BY <1>1, <1>3, <2>1, <2>3 DEF FateInv
<1>5. CASE Latest
  <2>1. fate = "asked" /\ \A j \in 2 .. Len(toServer) : ~Asks(toServer[j])
    BY <1>5 DEF Latest, Asks
  <2>2. Head(toServer) = Request(url) /\ NoneAsked(toServer')
    BY <1>1, <2>1, AskedServed DEF FateInv
  <2>3. TaskPage(url)
    BY <2>1 DEF FateInv
  <2>4. fate' \in {"answered", "refused", "lost", "unanswered"}
    BY <1>2, <1>5 DEF ServeVM, ServeView, FateOfReply, FateIs
  <2>5. ASSUME fate' = "answered" PROVE LastReplied(toClient', url)
    <3>1. CASE ServeVM
      <4>0. ~FateOfReply("refused")
        BY <1>5, <2>5 DEF FateOfReply, FateIs
      <4>1. url.page = "vm" /\ Head(toServer).question = Question(url)
        BY <2>2, <2>3, <3>1 DEF ServeVM, Request, TaskPage
      <4>2. PICK t \in Tables :
               /\ Len(toIndices(Question(url).path)) < Levels
               /\ Len(toIndices(Question(url).path)) = Levels - 1 => \A i \in Index : t[i] # "table"
               /\ Reply([type |-> "VMEDump", question |-> Question(url), table |-> t])
        BY <3>1, <4>0, <4>1 DEF ServeVM
      <4>3. Len(toClient) < BufferSize
        BY <1>5, <2>5, <3>1 DEF ServeVM, FateOfReply, FateIs
      <4> DEFINE m == [type |-> "VMEDump", question |-> Question(url), table |-> t]
      <4>4. Head(toServer) \in Requests /\ Head(toServer).type = "ReqVMEDump"
        BY <1>1, <3>1, Taken DEF ServeVM
      <4>5. Question(url) \in Questions
        BY <4>1, <4>4 DEF Requests
      <4>6. Fits(Question(url), t)
        BY <4>2, Depth, LevelsAssumption DEF Fits
      <4>7. m \in Answers
        BY <4>5, <4>6 DEF Answers
      <4>8. Replies(m, url) /\ Fulfils(m, url)
        BY <4>1 DEF Replies, Fulfils, ChannelOf
      <4> HIDE DEF m
      <4>9. toClient' = Append(toClient, m)
        BY <4>2, <4>3 DEF Reply, m
      <4> QED BY <4>7, <4>8, <4>9, RepliedLast DEF PipeInv
    <3>2. CASE ServeView
      <4> DEFINE m == [type |-> "TaskviewData", key |-> url.task]
      <4>1. url.page = "view" /\ Head(toServer).key = url.task
        BY <2>2, <2>3, <3>2 DEF ServeView, Request, TaskPage
      <4>2. Reply(m) /\ Len(toClient) < BufferSize
        BY <1>5, <2>5, <3>2, <4>1 DEF ServeView, FateOfReply, FateIs
      <4>3. Head(toServer) \in Requests /\ Head(toServer).type = "ReqTaskview"
        BY <1>1, <3>2, Taken DEF ServeView
      <4>4. m \in Answers
        BY <4>1, <4>3 DEF Answers, Requests
      <4>5. Replies(m, url) /\ Fulfils(m, url)
        BY <4>1 DEF Replies, Fulfils, ChannelOf
      <4> HIDE DEF m
      <4>6. toClient' = Append(toClient, m)
        BY <4>2 DEF Reply
      <4> QED BY <4>4, <4>5, <4>6, RepliedLast DEF PipeInv
    <3> QED BY <1>2, <3>1, <3>2
  <2> QED BY <1>1, <2>2, <2>3, <2>4, <2>5 DEF FateInv, Fates, Refused
<1> QED BY <1>4, <1>5

LEMMA FateInit == Init => FateInv
<1> SUFFICES ASSUME Init PROVE FateInv
  OBVIOUS
<1>1. fate = IF TaskPage(url) THEN "dropped" ELSE "none"
  BY DEF Init, TaskPage
<1> QED BY <1>1 DEF FateInv, Fates

LEMMA FateStep ==
    PipeInv /\ PageInv /\ FateInv /\ CleanupsKnown /\ url' \in Urls /\ [Next]_vars => FateInv'
<1> SUFFICES ASSUME PipeInv, PageInv, FateInv, CleanupsKnown, url' \in Urls, [Next]_vars
             PROVE  FateInv'
  OBVIOUS
<1> USE DEF pageVars, pipes
<1>1. CASE Open
  <2>1. CASE Ask(url, "open", "Connected")
    BY <1>1, <2>1, AskedKnown DEF Open, PipeInv
  <2>2. CASE url.page = "proctree" /\ UNCHANGED <<toServer, fate>>
    BY <1>1, <2>2, FateKept DEF Open
  <2> QED BY <1>1, <2>1, <2>2 DEF Open
<1>2. CASE Close
  BY <1>2, LostKnown DEF Close
<1>3. CASE Reconnect
  <2>1. fate' = Lost \/ (fate' = "dropped" /\ TaskPage(url))
    BY <1>3 DEF Reconnect, TaskPage
  <2> QED BY <1>3, <2>1, LostKnown DEF Reconnect
<1>4. CASE Receive
  <2>1. /\ toClient # <<>> /\ toClient' = Tail(toClient) /\ toClient \in Seq(Answers)
        /\ UNCHANGED <<url, toServer>>
    BY <1>4 DEF Receive, Deliver, PipeInv
  <2>0. fate' = fate \/ (fate \in Refused /\ fate' \in Refused)
    BY <1>4, RefusalMoves
  <2>2. ASSUME fate = "answered"
        PROVE  LastReplied(toClient', url) \/ (NoneReplied(toClient', url) /\ ShowsReply')
    <3>1. TaskPage(url)
      BY <2>2 DEF FateInv
    <3>2. LastReplied(toClient, url) \/ (NoneReplied(toClient, url) /\ ShowsReply)
      BY <2>2 DEF FateInv
    <3> QED BY <1>4, <2>1, <3>1, <3>2, RepliedStill, DeliveredShown
  <2>3. fate' \in Fates /\ (fate' # fate => fate' \notin {"none", "asked", "answered"} /\ fate # "none")
    BY <2>0 DEF FateInv, Fates, Refused
  <2> QED BY <2>1, <2>2, <2>3 DEF FateInv
<1>5. CASE Serve
  BY <1>5, OtherServed, QuestionServed
<1>6. CASE Dump
  <2>1. PICK t \in Trees : Reply([type |-> "ProctreeDump", tree |-> t])
    BY <1>6 DEF Dump
  <2> DEFINE m == [type |-> "ProctreeDump", tree |-> t]
  <2>2. m \in Answers /\ (TaskPage(url) => ~Replies(m, url))
    BY DEF Answers, TaskPage, Replies, ChannelOf
  <2> HIDE DEF m
  <2>3. toClient' = toClient \/ toClient' = Append(toClient, m)
    BY <2>1, <2>2, ReplyKnown DEF PipeInv, m
  <2>4. CASE toClient' = toClient
    BY <1>6, <2>4, FateKept DEF Dump
  <2>5. CASE TaskPage(url) /\ toClient' = Append(toClient, m)
    <3>1. /\ LastReplied(toClient, url) => LastReplied(toClient', url)
          /\ NoneReplied(toClient, url) => NoneReplied(toClient', url)
      BY <2>2, <2>5, RepliedBefore DEF PipeInv
    <3> QED BY <1>6, <3>1 DEF Dump, FateInv, ShowsReply, Question
  <2>6. CASE ~TaskPage(url)
    BY <1>6, <2>6 DEF Dump, FateInv
  <2> QED BY <2>3, <2>4, <2>5, <2>6
<1>7. CASE Follow \/ Jump
  BY <1>7, WentKnown DEF Follow, Jump, GoTo
<1>8. CASE TogglePause \/ Capture
  <2>1. ~TaskPage(url) /\ UNCHANGED <<url, fate>>
    BY <1>8 DEF TogglePause, Capture, TaskPage
  <2> QED BY <2>1 DEF FateInv
<1>9. CASE ShowErrors
  BY <1>9, FateKept, RefusalMoves DEF ShowErrors
<1>10. ASSUME NEW id \in DOMAIN viewer.nodes, Toggle(id) PROVE FateInv'
  BY <1>10, FateKept DEF Toggle
<1>11. ASSUME NEW moved \in Moves, NEW id \in DOMAIN moved, Drag(id, moved) PROVE FateInv'
  BY <1>11, FateKept DEF Drag
<1>12. ASSUME NEW moved \in Moves, Nudge(moved) PROVE FateInv'
  BY <1>12, FateKept DEF Nudge
<1>13. CASE UNCHANGED vars
  BY <1>13, FateKept DEF vars
<1> QED
  BY <1>1, <1>2, <1>3, <1>4, <1>5, <1>6, <1>7, <1>8, <1>9, <1>10, <1>11, <1>12, <1>13
     DEF Next

----------------------------------------------------------------------------
(* Refusals.                                                               *)

LEMMA RefusalInit == Init => RefusalInv
  BY DEF Init, RefusalInv, Refused

\* Errors are heard on every page.
LEMMA ErrorHeard ==
    ASSUME CleanupsKnown, status = "Connected", NEW m \in Answers, m.type = "Error"
    PROVE  Heard(m)
<1>1. m.type \in Channels /\ Nonempty(m) \in BOOLEAN
  BY AnswerTypes, NonemptyKnown
<1>2. /\ isWSMessage(Envelope(m.type, Nonempty(m)))
      /\ Accepts(m.type, Get(Envelope(m.type, Nonempty(m)), "payload"))
  BY <1>1, GuardsPass
<1>3. Subscribes(m.type, url, status, paused)
  BY DEF Subscribes, Mounted
<1>4. listeners[m.type] = 1
  BY <1>1, <1>3 DEF CleanupsKnown, OneListener
<1> QED BY <1>2, <1>4 DEF Heard

\* A page asks.
LEMMA RefusalAsked ==
    ASSUME toServer \in Seq(Requests), url' \in Urls, NEW sock, NEW s, Ask(url', sock, s)
    PROVE  RefusalInv'
<1>1. /\ fate' \in {"none", "asked", "dropped"}
      /\ fate' = "asked" => toServer' = Append(toServer, Request(url'))
  BY AskKnown
<1>2. ASSUME fate' = "asked", url'.page = "vm"
      PROVE  toServer' # <<>> /\ toServer'[Len(toServer')] = Request(url')
  <2>1. Request(url') \in Requests
    BY <1>2, QuestionKnown DEF Request, Requests
  <2> DEFINE t == Append(toServer, Request(url'))
  <2>2. Len(toServer) \in Nat /\ Len(t) = Len(toServer) + 1 /\ t[Len(toServer) + 1] = Request(url')
    BY <2>1, Appended
  <2> HIDE DEF t
  <2>3. t # <<>> /\ t[Len(t)] = Request(url')
    BY <2>2
  <2> QED BY <1>1, <1>2, <2>3 DEF t
<1> QED BY <1>1, <1>2 DEF RefusalInv, Refused

\* The location changes.
LEMMA RefusalWent ==
    ASSUME PipeInv, RefusalInv, NEW u \in Urls, GoTo(u)
    PROVE  RefusalInv'
<1>1. url' = u /\ u.page \in Pages /\ UNCHANGED <<toClient, errors>>
  BY Shape DEF GoTo
<1>2. CASE Ask(u, socket, status)
  BY <1>1, <1>2, RefusalAsked DEF PipeInv
<1>3. CASE ~Ask(u, socket, status)
  <2>1. /\ u.page = url.page /\ ~(u.page = "vm" /\ u # url)
        /\ UNCHANGED toServer
        /\ fate' = IF u.page = "view" /\ u # url THEN "missed" ELSE fate
    BY <1>3 DEF GoTo
  <2>2. CASE u = url
    BY <1>1, <2>1, <2>2 DEF RefusalInv, LastRefusal
  <2>3. CASE u # url
    BY <1>1, <2>1, <2>3 DEF RefusalInv, Refused
  <2> QED BY <2>2, <2>3
<1> QED BY <1>2, <1>3

\* The bridge serves a message. The page's question is served last, and its refusal is then
\* the last error on the way to the client.
LEMMA RefusalServed ==
    ASSUME PipeInv, FateInv, RefusalInv, Serve
    PROVE  RefusalInv'
<1>1. /\ toServer # <<>> /\ toServer' = Tail(toServer) /\ toServer \in Seq(Requests)
      /\ UNCHANGED <<url, errors>>
  BY DEF Serve, PipeInv
<1>2. fate \notin Refused
  BY <1>1 DEF RefusalInv
<1>3. ServeRegister \/ ServeStart \/ ServeEnd \/ ServeVM \/ ServeView
  BY DEF Serve
<1>4. fate' = fate \/ (Latest /\ fate = "asked" /\ (ServeVM \/ ServeView))
  BY <1>3 DEF ServeRegister, ServeStart, ServeEnd, ServeVM, ServeView, FateOfReply, FateIs, Latest
<1>5. /\ Len(toServer) \in Nat \ {0} /\ Len(Tail(toServer)) = Len(toServer) - 1
      /\ DOMAIN toServer = 1 .. Len(toServer)
      /\ Tail(toServer) \in Seq(Requests)
      /\ \A i \in 1 .. Len(toServer) - 1 : Tail(toServer)[i] = toServer[i + 1]
  BY <1>1, Taken
<1>6. Asks(Request(url))
  BY DEF Asks, Request
<1>7. CASE fate = "asked" /\ url.page = "vm" /\ Len(toServer) = 1
  <2>1. toServer' = <<>> /\ toServer[1] = Request(url)
    BY <1>1, <1>5, <1>7 DEF RefusalInv
  <2>2. Head(toServer) = Request(url) /\ Latest
    BY <1>1, <1>7, <2>1 DEF Latest
  <2>3. ServeVM /\ Head(toServer).question = Question(url)
    BY <1>3, <1>7, <2>2 DEF ServeRegister, ServeStart, ServeEnd, ServeView, Request
  <2>4. fate' \in {"answered", "refused", "lost"}
    BY <2>2, <2>3 DEF ServeVM, FateOfReply, FateIs
  <2>5. ASSUME fate' = "refused" PROVE LastRefusal(toClient', url)
    <3>1. ~FateOfReply("answered")
      BY <2>2, <2>5 DEF FateOfReply, FateIs
    <3>2. PICK e \in Errors : Reply(Error(e, Question(url)))
      BY <2>3, <3>1 DEF ServeVM
    <3>3. Len(toClient) < BufferSize
      BY <2>2, <2>3, <2>5 DEF ServeVM, FateOfReply, FateIs
    <3>4. Head(toServer) \in Requests /\ Head(toServer).type = "ReqVMEDump"
      BY <1>1, <2>3, Taken DEF ServeVM
    <3>5. Question(url) \in Questions
      BY <2>3, <3>4 DEF Requests
    <3> DEFINE m == Error(e, Question(url))
    <3>6. m \in Answers /\ m.type = "Error" /\ m.question = Question(url)
      BY <3>5 DEF Answers, Error
    <3>7. toClient' = Append(toClient, m)
      BY <3>2, <3>3 DEF Reply
    <3> HIDE DEF m
    <3> QED BY <3>6, <3>7, LastAppended DEF LastRefusal, PipeInv
  <2>6. url' = url
    BY <1>1
  <2>7. LastRefusal(toClient', url') = LastRefusal(toClient', url)
    BY <2>6 DEF LastRefusal, Question
  <2> QED BY <1>1, <1>7, <2>1, <2>4, <2>5, <2>6, <2>7 DEF RefusalInv, Refused
<1>8. CASE fate = "asked" /\ url.page = "vm" /\ Len(toServer) # 1
  <2>1. Len(toServer) \in 2 .. Len(toServer) /\ toServer[Len(toServer)] = Request(url)
    BY <1>5, <1>8 DEF RefusalInv
  <2>2. ~Latest
    BY <1>6, <2>1 DEF Latest, Asks
  <2>3. toServer' # <<>> /\ toServer'[Len(toServer')] = Request(url)
    <3> DEFINE t == Tail(toServer)
    <3>1. Len(t) = Len(toServer) - 1 /\ t[Len(toServer) - 1] = toServer[Len(toServer)]
      BY <1>5, <2>1
    <3>2. Len(t) # 0
      BY <1>5, <1>8, <3>1
    <3> HIDE DEF t
    <3>3. t # <<>> /\ t[Len(t)] = Request(url)
      BY <2>1, <3>1, <3>2
    <3> QED BY <1>1, <3>3 DEF t
  <2>4. fate' = "asked" /\ url' = url
    BY <1>1, <1>4, <1>8, <2>2
  <2>5. Request(url') = Request(url)
    BY <2>4 DEF Request, Question
  <2> QED BY <2>3, <2>4, <2>5 DEF RefusalInv, Refused
<1>9. CASE fate = "asked" /\ url.page # "vm"
  <2>1. fate' \in {"asked", "answered", "lost", "unanswered"}
    <3>1. CASE Latest /\ (ServeVM \/ ServeView)
      <4>1. \A j \in 2 .. Len(toServer) : ~Asks(toServer[j])
        BY <3>1 DEF Latest, Asks
      <4>2. Head(toServer) = Request(url)
        BY <1>1, <1>9, <4>1, AskedServed DEF FateInv
      <4>3. ServeView
        BY <1>9, <3>1, <4>2 DEF ServeVM, Request
      <4> QED BY <3>1, <4>3 DEF ServeView, FateOfReply, FateIs
    <3>2. CASE fate' = fate
      BY <1>9, <3>2
    <3> QED BY <1>4, <3>1, <3>2
  <2> QED BY <1>1, <1>9, <2>1 DEF RefusalInv, Refused
<1>10. CASE fate # "asked"
  BY <1>2, <1>4, <1>10 DEF RefusalInv, Refused
<1> QED BY <1>7, <1>8, <1>9, <1>10

\* A message is delivered. The page hears of its refusal, and no other error is behind it.
LEMMA RefusalDelivered ==
    ASSUME PipeInv, RefusalInv, CleanupsKnown, ErrorsKnown, Receive
    PROVE  RefusalInv'
<1> DEFINE m == Head(toClient)
           own == {a \in Answers : a.question = Question(url)}
<1>1. m \in Answers /\ toClient # <<>> /\ toClient' = Tail(toClient) /\ toClient \in Seq(Answers)
  BY Taken DEF Receive, Deliver, PipeInv
<1>2. status = "Connected" /\ UNCHANGED <<url, toServer>>
  BY <1>1 DEF PipeInv, Receive
<1>3. \/ ~Heard(m) /\ UNCHANGED <<errors, fate>>
      \/ ReceiveError(m)
      \/ m.type # "Error" /\ UNCHANGED <<errors, fate>>
  BY DEF Receive, ReceiveDump, ReceiveCapture, ReceiveEntries, ReceiveView
<1>4. m \in own <=> m.question = Question(url)
  BY <1>1
<1> HIDE DEF m, own
<1>5. /\ LastRefusal(toClient, url) =>
            \/ LastRefusal(toClient', url)
            \/ NoneOf(toClient', "Error") /\ m.type = "Error" /\ m \in own
      /\ NoneOf(toClient, "Error") => NoneOf(toClient', "Error") /\ m.type # "Error"
  <2>1. /\ LastOf(toClient, "Error", own) =>
              \/ LastOf(Tail(toClient), "Error", own)
              \/ NoneOf(Tail(toClient), "Error") /\ m.type = "Error" /\ m \in own
        /\ NoneOf(toClient, "Error") => NoneOf(Tail(toClient), "Error") /\ m.type # "Error"
    BY <1>1, LastStill DEF m
  <2> QED BY <1>1, <2>1 DEF LastRefusal, own
<1>6. LastRefusal(toClient', url') = LastRefusal(toClient', url) /\ Request(url') = Request(url)
  BY <1>2 DEF LastRefusal, Request, Question
<1>7. CASE m.type # "Error"
  <2>1. UNCHANGED <<errors, fate>>
    BY <1>3, <1>7 DEF ReceiveError
  <2> QED BY <1>2, <1>5, <1>6, <1>7, <2>1 DEF RefusalInv
<1>8. CASE m.type = "Error"
  <2>1. ReceiveError(m)
    BY <1>1, <1>2, <1>3, <1>8, ErrorHeard
  <2>2. errors'.indexMoved /\ fate' = IF fate \in Refused THEN RefusedThen(m) ELSE fate
    BY <2>1 DEF ReceiveError, ErrorsKnown, ErrorFields
  <2>3. CASE fate \notin Refused
    BY <1>2, <1>6, <2>2, <2>3 DEF RefusalInv, Refused
  <2>4. CASE fate \in Refused /\ m.question = Question(url)
    <3>1. fate' = "heard"
      BY <2>2, <2>4 DEF RefusedThen
    <3>2. LastRefusal(toClient', url) \/ NoneOf(toClient', "Error")
      BY <1>5, <2>4 DEF RefusalInv, Refused
    <3> QED BY <1>2, <1>6, <2>2, <2>4, <3>1, <3>2 DEF RefusalInv, Refused
  <2>5. CASE fate \in Refused /\ m.question # Question(url)
    <3>1. fate' = IF fate = "heard" THEN "overtaken" ELSE fate
      BY <2>2, <2>5 DEF RefusedThen
    <3>2. LastRefusal(toClient', url)
      BY <1>4, <1>5, <1>8, <2>5 DEF RefusalInv, Refused
    <3> QED BY <1>2, <1>6, <2>5, <3>1, <3>2 DEF RefusalInv, Refused
  <2> QED BY <2>3, <2>4, <2>5
<1> QED BY <1>7, <1>8

\* Nothing of this changes.
LEMMA RefusalKept ==
    ASSUME RefusalInv, UNCHANGED <<url, errors, toServer, toClient, fate>>
    PROVE  RefusalInv'
  BY DEF RefusalInv, LastRefusal, Request, Question

LEMMA RefusalStep ==
    /\ PipeInv /\ PageInv /\ FateInv /\ RefusalInv /\ CleanupsKnown /\ ErrorsKnown
    /\ url' \in Urls /\ [Next]_vars
    => RefusalInv'
<1> SUFFICES ASSUME PipeInv, PageInv, FateInv, RefusalInv, CleanupsKnown, ErrorsKnown,
                    url' \in Urls, [Next]_vars
             PROVE  RefusalInv'
  OBVIOUS
<1> USE DEF pipes
<1>1. CASE Open
  <2>1. CASE Ask(url, "open", "Connected")
    BY <1>1, <2>1, RefusalAsked DEF Open, PipeInv
  <2>2. CASE url.page = "proctree" /\ UNCHANGED <<toServer, fate>>
    BY <1>1, <2>2, RefusalKept DEF Open
  <2> QED BY <1>1, <2>1, <2>2 DEF Open
<1>2. CASE Close \/ Reconnect
  <2>1. /\ toServer' = <<>> /\ toClient' = <<>> /\ UNCHANGED <<url, errors>>
        /\ fate' \in {Lost, "dropped"}
    BY <1>2 DEF Close, Reconnect
  <2>2. NoneOf(toClient', "Error")
    BY <2>1 DEF NoneOf
  <2>3. fate' \notin {"asked", "refused", "overtaken"} /\ (fate' \in Refused => fate' = fate)
    BY <2>1 DEF Lost, Refused
  <2> QED BY <2>1, <2>2, <2>3 DEF RefusalInv, Refused
<1>3. CASE Receive
  BY <1>3, RefusalDelivered
<1>4. CASE Serve
  BY <1>4, RefusalServed
<1>5. CASE Dump
  <2>1. PICK t \in Trees : Reply([type |-> "ProctreeDump", tree |-> t])
    BY <1>5 DEF Dump
  <2> DEFINE m == [type |-> "ProctreeDump", tree |-> t]
  <2>2. m \in Answers /\ m.type # "Error"
    BY DEF Answers
  <2> HIDE DEF m
  <2>3. toClient' = toClient \/ toClient' = Append(toClient, m)
    BY <2>1, <2>2, ReplyKnown DEF PipeInv, m
  <2>4. /\ LastRefusal(toClient, url) => LastRefusal(toClient', url)
        /\ NoneOf(toClient, "Error") => NoneOf(toClient', "Error")
    <3> DEFINE own == {a \in Answers : a.question = Question(url)}
    <3> HIDE DEF own
    <3>1. toClient \in Seq(Answers)
      BY DEF PipeInv
    <3>2. /\ LastOf(toClient, "Error", own) => LastOf(Append(toClient, m), "Error", own)
          /\ NoneOf(toClient, "Error") => NoneOf(Append(toClient, m), "Error")
      BY <2>2, <3>1, LastBefore
    <3> QED BY <2>3, <3>2 DEF LastRefusal, own
  <2>5. UNCHANGED <<url, errors, toServer, fate>>
    BY <1>5 DEF Dump
  <2>6. LastRefusal(toClient', url') = LastRefusal(toClient', url) /\ Request(url') = Request(url)
    BY <2>5 DEF LastRefusal, Request, Question
  <2> QED BY <2>4, <2>5, <2>6 DEF RefusalInv
<1>6. CASE Follow \/ Jump
  BY <1>6, RefusalWent DEF Follow, Jump, GoTo
<1>7. CASE TogglePause \/ Capture
  <2>1. url.page # "vm" /\ UNCHANGED <<url, fate>>
    BY <1>7 DEF TogglePause, Capture
  <2> QED BY <2>1 DEF RefusalInv, Refused
<1>8. CASE ShowErrors
  <2>1. /\ fate' = IF fate = "heard" THEN "told" ELSE fate
        /\ UNCHANGED <<url, toServer, toClient>>
    BY <1>8 DEF ShowErrors
  <2>2. LastRefusal(toClient', url') = LastRefusal(toClient, url) /\ Request(url') = Request(url)
    BY <2>1 DEF LastRefusal, Request, Question
  <2> QED BY <2>1, <2>2 DEF RefusalInv, Refused, NoneOf
<1>9. ASSUME NEW id \in DOMAIN viewer.nodes, Toggle(id) PROVE RefusalInv'
  BY <1>9, RefusalKept DEF Toggle
<1>10. ASSUME NEW moved \in Moves, NEW id \in DOMAIN moved, Drag(id, moved) PROVE RefusalInv'
  BY <1>10, RefusalKept DEF Drag
<1>11. ASSUME NEW moved \in Moves, Nudge(moved) PROVE RefusalInv'
  BY <1>11, RefusalKept DEF Nudge
<1>12. CASE UNCHANGED vars
  BY <1>12, RefusalKept DEF vars
<1> QED
  BY <1>1, <1>2, <1>3, <1>4, <1>5, <1>6, <1>7, <1>8, <1>9, <1>10, <1>11, <1>12 DEF Next

----------------------------------------------------------------------------
(* Theorems about the messages and the pages.                              *)

ClientInv ==
    /\ PipeInv /\ PageInv /\ FateInv /\ RefusalInv /\ ErrorsKnown
    /\ CleanupsKnown /\ ViewerKnown(viewer, held, strayed)
    /\ listeners \in [Channels -> Nat] /\ cleanups \subseteq Channels

LEMMA ListenersStep ==
    ASSUME CleanupsKnown, CleanupsKnown', listeners \in [Channels -> Nat], [Next]_vars
    PROVE  listeners' \in [Channels -> Nat] /\ cleanups' \subseteq Channels
<1>1. cleanups' \subseteq Channels
  BY DEF CleanupsKnown
<1>2. \A c \in Channels : listeners'[c] \in Nat
  BY DEF CleanupsKnown, OneListener
<1>3. listeners' = listeners \/ RunEffects
  BY DEF Next, vars, Open, Close, Reconnect, Receive, ShowErrors, Serve, Dump, Follow, Jump,
         GoTo, TogglePause, Capture, Toggle, Drag, Nudge
<1>4. listeners' = [c \in Channels |-> listeners'[c]]
  BY <1>3 DEF RunEffects
<1> QED BY <1>1, <1>2, <1>4

LEMMA ClientCorrect == Spec => []ClientInv
<1>1. Init => ClientInv
  <2> SUFFICES ASSUME Init PROVE ClientInv
    OBVIOUS
  <2>1. listeners \in [Channels -> Nat] /\ cleanups \subseteq Channels /\ viewer = InitialViewer
        /\ held = NoMap /\ strayed = {}
    BY DEF Init
  <2>2. ErrorsKnown
    BY DEF Init, ErrorsKnown, ErrorFields
  <2> QED
    BY <2>1, <2>2, PipeInit, PageInit, FateInit, RefusalInit, SubscriptionsInit, InitialKnown
       DEF ClientInv
<1>2. ClientInv /\ [Next]_vars => ClientInv'
  <2> SUFFICES ASSUME ClientInv, [Next]_vars PROVE ClientInv'
    OBVIOUS
  <2>1. url' \in Urls
    BY UrlStep DEF ClientInv
  <2>2. CleanupsKnown' /\ ViewerKnown(viewer, held, strayed)'
    BY SubscriptionsStep, DrawingStep DEF ClientInv
  <2>3. PipeInv' /\ PageInv' /\ FateInv'
    BY <2>1, PipeStep, PageStep, FateStep DEF ClientInv
  <2>4. listeners' \in [Channels -> Nat] /\ cleanups' \subseteq Channels
    BY <2>2, ListenersStep DEF ClientInv
  <2>5. RefusalInv' /\ ErrorsKnown'
    BY <2>1, RefusalStep, ErrorsStep DEF ClientInv
  <2> QED BY <2>2, <2>3, <2>4, <2>5 DEF ClientInv
<1> QED BY <1>1, <1>2, PTL DEF Spec

\* Whatever the user and the bridge do, each variable keeps its shape: every link leads to a
\* location and the channel is never over its capacity.
THEOREM TypeCorrect == Spec => []TypeOK
<1>1. ClientInv => TypeOK
  BY DEF ClientInv, PipeInv, PageInv, FateInv, ViewerKnown, TypeOK
<1> QED BY <1>1, ClientCorrect, PTL

\* No message of the bridge is dropped by the guard of its handler, and no field that is
\* read of it is missing.
THEOREM FieldsArrive == Spec => []ReadFieldsArrive
<1>1. ClientInv => ReadFieldsArrive
  <2> SUFFICES ASSUME ClientInv, NEW k \in DOMAIN toClient
               PROVE  LET type == toClient[k].type
                          data == Envelope(type, Nonempty(toClient[k]))
                      IN  /\ isWSMessage(data)
                          /\ Accepts(type, Get(data, "payload"))
                          /\ ReadsArrive(type, Get(data, "payload"))
    BY DEF ReadFieldsArrive
  <2>1. toClient[k] \in Answers
    BY DEF ClientInv, PipeInv
  <2>2. toClient[k].type \in Channels /\ Nonempty(toClient[k]) \in BOOLEAN
    BY <2>1, AnswerTypes, NonemptyKnown
  <2> QED BY <2>2, GuardsPass
<1> QED BY <1>1, ClientCorrect, PTL

\* However links are followed, answers come and the connection is lost: when nothing is on
\* its way the page shows the answer to the question of its location, or the question
\* met a fate by which the code leaves it without; and it does not link below the
\* last level.
THEOREM ShownAnswers == Spec => []ShownAnswersUrl
<1>1. ClientInv => ShownAnswersUrl
  <2> SUFFICES ASSUME ClientInv, TaskPage(url), toServer = <<>>, toClient = <<>>,
                      fate \notin {"heard", "told", "lost", "dropped", "unanswered", "missed"}
               PROVE  /\ fate = "answered"
                      /\ url.page = "view" => viewData = url.task
                      /\ url.page = "vm" =>
                            /\ entries.answers = Question(url)
                            /\ \A u \in EntryLinks : Len(u.parts) < Levels
    BY DEF ShownAnswersUrl, TaskPage
  <2>1. ~LastAsked(toServer, url) /\ ~LastReplied(toClient, url)
    BY DEF LastAsked, LastReplied, LastOf
  <2>0. fate \notin {"refused", "overtaken"}
    BY DEF ClientInv, RefusalInv, LastRefusal, LastOf
  <2>2. fate = "answered" /\ ShowsReply
    BY <2>0, <2>1 DEF ClientInv, FateInv, Fates, Refused
  <2>3. ASSUME url.page = "vm", NEW i \in Index, entries.table[i] = "table"
        PROVE  Len(VmUrl(url.task, Append(toIndices(toPathObj(url.parts)), i)).parts) < Levels
    <3> DEFINE s == toIndices(toPathObj(url.parts))
    <3>1. s = toIndices(entries.answers.path)
      BY <2>2, <2>3 DEF ShowsReply, Question
    <3>2. Len(s) < Levels - 1
      BY <2>3, <3>1 DEF ClientInv, PageInv, Fits
    <3>3. PICK n \in 0 .. Levels + 1 : url.parts \in [1 .. n -> Index]
      BY Shape DEF ClientInv, PageInv
    <3> DEFINE depth == IF n <= Levels THEN n ELSE Levels - 1
    <3>4. depth \in Nat /\ n \in Nat /\ depth <= n
      BY <3>3, LevelsAssumption
    <3>5. s = [k \in 1 .. depth |-> url.parts[k]]
      BY <3>3, <3>4, Indices
    <3> HIDE DEF s, depth
    <3>6. s \in Seq(Index)
      BY <3>3, <3>4, <3>5
    <3>7. Len(Append(s, i)) = Len(s) + 1 /\ Len(s) \in Nat
      BY <3>6
    <3> QED BY <3>2, <3>7, LevelsAssumption DEF VmUrl, s
  <2> QED BY <2>2, <2>3 DEF ShowsReply, EntryLinks
<1> QED BY <1>1, ClientCorrect, PTL

\* Whatever questions were asked before, of this task or of others, and whatever errors
\* they and the captures got: once nothing is on its way and the toasts have caught
\* up, the refusal of the table that the location names has had its toast.
THEOREM RefusalToldAlways == Spec => []RefusalTold
<1>1. ClientInv => RefusalTold
  <2> SUFFICES ASSUME ClientInv, toClient = <<>>, ~ErrorPending
               PROVE  fate \notin {"refused", "heard", "overtaken"}
    BY DEF RefusalTold
  <2>1. ~LastRefusal(toClient, url)
    BY DEF LastRefusal, LastOf
  <2> QED BY <2>1 DEF ClientInv, RefusalInv, ErrorPending
<1> QED BY <1>1, ClientCorrect, PTL

----------------------------------------------------------------------------
(* Least elements: of numbers, and of a finite set in a strict order.      *)

Lesser == OpToRel(<, Nat)

LEMMA LesserIs == \A m, n \in Nat : <<n, m>> \in Lesser <=> n < m
BY DEF OpToRel, Lesser

LEMMA Smallest ==
    ASSUME NEW S \in SUBSET Nat, S # {}
    PROVE  \E m \in S : \A n \in S : m <= n
<1>1. IsWellFoundedOn(Lesser, Nat)
  BY NatLessThanWellFounded DEF Lesser
<1>2. PICK m \in S : \A n \in S : ~(<<n, m>> \in Lesser)
  BY <1>1, WFMin, Zenon
<1>3. \A n \in S : ~(n < m)
  BY <1>2, LesserIs
<1> QED BY <1>3

\* The one with the fewest others before it.
LEMMA First ==
    ASSUME NEW S, IsFiniteSet(S), S # {}, NEW R,
           \A i \in S : <<i, i>> \notin R,
           \A i, j \in S : i = j \/ <<i, j>> \in R \/ <<j, i>> \in R,
           \A i, j, k \in S : <<i, j>> \in R /\ <<j, k>> \in R => <<i, k>> \in R
    PROVE  \E i \in S : \A j \in S : j = i \/ <<i, j>> \in R
<1> DEFINE before(i) == {j \in S : <<j, i>> \in R}
           size == [i \in S |-> Cardinality(before(i))]
           sizes == {size[i] : i \in S}
<1>1. ASSUME NEW i \in S
      PROVE  IsFiniteSet(before(i)) /\ Cardinality(before(i)) \in Nat
  <2>1. before(i) \in SUBSET S
    OBVIOUS
  <2> HIDE DEF before
  <2> QED BY <2>1, FS_Subset, FS_CardinalityType
<1>2. \A i \in S : size[i] = Cardinality(before(i)) /\ size[i] \in Nat
  <2> HIDE DEF before
  <2> QED BY <1>1
<1>3. PICK n \in sizes : \A m \in sizes : n <= m
  <2>1. sizes \in SUBSET Nat /\ sizes # {}
    <3> HIDE DEF size
    <3>1. \A m \in sizes : m \in Nat
      BY <1>2
    <3>2. \A i \in S : size[i] \in sizes
      OBVIOUS
    <3> QED BY <3>1, <3>2
  <2> HIDE DEF sizes
  <2> QED BY <2>1, Smallest
<1>4. PICK i \in S : \A j \in S : size[i] <= size[j]
  <2> HIDE DEF size
  <2> QED BY <1>3
<1>5. ASSUME NEW j \in S, j # i, <<i, j>> \notin R PROVE FALSE
  <2>1. j \in before(i) /\ j \notin before(j)
    BY <1>5
  <2>2. before(j) \in SUBSET before(i)
    BY <1>5
  <2> HIDE DEF before, size
  <2>3. Cardinality(before(i)) <= Cardinality(before(j))
    BY <1>2, <1>4
  <2>4. /\ Cardinality(before(j)) <= Cardinality(before(i))
        /\ Cardinality(before(i)) = Cardinality(before(j)) => before(i) = before(j)
    BY <1>1, <2>2, FS_Subset
  <2> QED BY <1>1, <2>1, <2>3, <2>4
<1> QED BY <1>5

----------------------------------------------------------------------------
(* The timeline.                                                           *)

LEMMA Captured ==
    ASSUME NEW c \in Seq(Switch)
    PROVE  /\ IsFiniteSet(DOMAIN c) /\ DOMAIN c \subseteq Nat
           /\ \A i \in DOMAIN c : c[i] \in Switch /\ c[i].timestamp \in Nat
<1>1. Len(c) \in Nat /\ DOMAIN c = 1 .. Len(c) /\ \A i \in 1 .. Len(c) : c[i] \in Switch
  OBVIOUS
<1>2. IsFiniteSet(1 .. Len(c))
  BY <1>1, FS_Interval
<1> QED BY <1>1, <1>2 DEF Switch

\* Of some events of a capture there is one that precedes all others, and one that all
\* others precede.
LEMMA Sorted ==
    ASSUME NEW c \in Seq(Switch), NEW S \in SUBSET DOMAIN c, S # {}
    PROVE  /\ \E i \in S : \A j \in S : j = i \/ Precedes(c, i, j)
           /\ \E i \in S : \A j \in S : j = i \/ Precedes(c, j, i)
<1> DEFINE R == {p \in S \X S : Precedes(c, p[1], p[2])}
           Q == {p \in S \X S : Precedes(c, p[2], p[1])}
<1>1. \A i \in S : c[i].timestamp \in Nat /\ i \in Nat
  BY Captured
<1>2. IsFiniteSet(S)
  BY Captured, FS_Subset
<1>3. \A i, j \in S : /\ <<i, j>> \in R <=> Precedes(c, i, j)
                      /\ <<i, j>> \in Q <=> Precedes(c, j, i)
  OBVIOUS
<1>4. /\ \A i \in S : ~Precedes(c, i, i)
      /\ \A i, j \in S : i = j \/ Precedes(c, i, j) \/ Precedes(c, j, i)
      /\ \A i, j, k \in S : Precedes(c, i, j) /\ Precedes(c, j, k) => Precedes(c, i, k)
  BY <1>1 DEF Precedes
<1> HIDE DEF R, Q
<1>5. \E i \in S : \A j \in S : j = i \/ <<i, j>> \in R
  <2>1. /\ \A i \in S : <<i, i>> \notin R
        /\ \A i, j \in S : i = j \/ <<i, j>> \in R \/ <<j, i>> \in R
        /\ \A i, j, k \in S : <<i, j>> \in R /\ <<j, k>> \in R => <<i, k>> \in R
    BY <1>3, <1>4, Zenon
  <2> QED BY <1>2, <2>1, First, Zenon
<1>6. \E i \in S : \A j \in S : j = i \/ <<i, j>> \in Q
  <2>1. /\ \A i \in S : <<i, i>> \notin Q
        /\ \A i, j \in S : i = j \/ <<i, j>> \in Q \/ <<j, i>> \in Q
        /\ \A i, j, k \in S : <<i, j>> \in Q /\ <<j, k>> \in Q => <<i, k>> \in Q
    BY <1>3, <1>4, Zenon
  <2> QED BY <1>2, <2>1, First, Zenon
<1> QED BY <1>3, <1>5, <1>6, Zenon

LEMMA Followed ==
    ASSUME NEW c \in Seq(Switch), NEW i \in DOMAIN c, Later(c, i) # {}
    PROVE  LET s == Successor(c, i)
           IN  /\ s \in DOMAIN c /\ c[s].cpu = c[i].cpu /\ Precedes(c, i, s)
               /\ \A k \in Later(c, i) : k = s \/ Precedes(c, s, k)
<1>1. Later(c, i) \in SUBSET DOMAIN c
  BY DEF Later, byCPU
<1>2. \E j \in Later(c, i) : \A k \in Later(c, i) : k = j \/ Precedes(c, j, k)
  BY <1>1, Sorted, Zenon
<1>3. /\ Successor(c, i) \in Later(c, i)
      /\ \A k \in Later(c, i) : k = Successor(c, i) \/ Precedes(c, Successor(c, i), k)
  BY <1>2, Zenon DEF Successor
<1> QED BY <1>3, Zenon DEF Later, byCPU

\* The events that an interval begins with.
Beginning(c) == {i \in DOMAIN c : Later(c, i) # {}}

LEMMA Items ==
    ASSUME NEW c \in Seq(Switch)
    PROVE  LET items == toDataItems(toSchedEvents(c))
               zero == Earliest(Intervals(c))
           IN  /\ DOMAIN Intervals(c) = Beginning(c) /\ DOMAIN items = Beginning(c)
               /\ toGroupItems(toSchedEvents(c)) = {c[i].cpu : i \in Beginning(c)}
               /\ \A i \in Beginning(c) :
                     /\ Intervals(c)[i].start = c[i].timestamp
                     /\ items[i] =
                          [group |-> c[i].cpu, content |-> c[i].next,
                           start |-> c[i].timestamp - zero,
                           end |-> c[Successor(c, i)].timestamp - zero,
                           className |-> IF c[i].next = Idle THEN "yellow"
                                         ELSE IF c[i].kthread THEN "red" ELSE "blue"]
<1> DEFINE zero == Earliest(Intervals(c))
           interval(i) == toSchedTask(c[i], c[Successor(c, i)])
           event(i) == [task |-> c[i].next, cpu |-> c[i].cpu, kthread |-> c[i].kthread,
                        startNorm |-> c[i].timestamp - zero,
                        endNorm |-> c[Successor(c, i)].timestamp - zero]
<1>1. Intervals(c) = [i \in Beginning(c) |-> interval(i)]
  BY DEF Intervals, Beginning
<1>2. \A i : /\ interval(i).task = c[i].next /\ interval(i).cpu = c[i].cpu
             /\ interval(i).start = c[i].timestamp
             /\ interval(i).end = c[Successor(c, i)].timestamp
             /\ interval(i).kthread = c[i].kthread
  BY DEF toSchedTask
<1> HIDE DEF zero, interval
<1>3. toSchedEvents(c) = [i \in Beginning(c) |-> event(i)]
  BY <1>1, <1>2 DEF toSchedEvents, zero
<1>4. toGroupItems(toSchedEvents(c)) = {c[i].cpu : i \in Beginning(c)}
  BY <1>3 DEF toGroupItems
<1>5. \A i : /\ event(i).task = c[i].next /\ event(i).cpu = c[i].cpu
             /\ event(i).kthread = c[i].kthread
             /\ event(i).startNorm = c[i].timestamp - zero
             /\ event(i).endNorm = c[Successor(c, i)].timestamp - zero
  OBVIOUS
<1> HIDE DEF event
<1>6. toDataItems(toSchedEvents(c)) =
        [i \in Beginning(c) |->
            [group |-> event(i).cpu, content |-> event(i).task, start |-> event(i).startNorm,
             end |-> event(i).endNorm, className |-> toClassName(event(i))]]
  BY <1>3 DEF toDataItems
<1>7. \A i : toClassName(event(i)) = IF c[i].next = Idle THEN "yellow"
                                    ELSE IF c[i].kthread THEN "red" ELSE "blue"
  BY <1>5 DEF toClassName
<1> DEFINE items == toDataItems(toSchedEvents(c))
<1>8. DOMAIN Intervals(c) = Beginning(c) /\ DOMAIN items = Beginning(c)
  BY <1>1, <1>6
<1>9. ASSUME NEW i \in Beginning(c)
      PROVE  /\ Intervals(c)[i].start = c[i].timestamp
             /\ items[i] = [group |-> c[i].cpu, content |-> c[i].next,
                            start |-> c[i].timestamp - zero,
                            end |-> c[Successor(c, i)].timestamp - zero,
                            className |-> IF c[i].next = Idle THEN "yellow"
                                          ELSE IF c[i].kthread THEN "red" ELSE "blue"]
  <2>1. Intervals(c)[i].start = c[i].timestamp
    BY <1>1, <1>2
  <2>2. items[i] = [group |-> event(i).cpu, content |-> event(i).task,
                    start |-> event(i).startNorm, end |-> event(i).endNorm,
                    className |-> toClassName(event(i))]
    BY <1>6
  <2> HIDE DEF items
  <2> QED BY <1>5, <1>7, <2>1, <2>2
<1> HIDE DEF items
<1>10. /\ DOMAIN Intervals(c) = Beginning(c) /\ DOMAIN items = Beginning(c)
       /\ toGroupItems(toSchedEvents(c)) = {c[i].cpu : i \in Beginning(c)}
       /\ \A i \in Beginning(c) :
             /\ Intervals(c)[i].start = c[i].timestamp
             /\ items[i] = [group |-> c[i].cpu, content |-> c[i].next,
                            start |-> c[i].timestamp - zero,
                            end |-> c[Successor(c, i)].timestamp - zero,
                            className |-> IF c[i].next = Idle THEN "yellow"
                                          ELSE IF c[i].kthread THEN "red" ELSE "blue"]
  BY <1>4, <1>8, <1>9, Zenon
<1> QED BY <1>10, Zenon DEF items, zero

\* A CPU that switches at least twice: its first and its last switch.
LEMMA Bounds ==
    ASSUME NEW c \in Seq(Switch), NEW cpu \in Covered(c)
    PROVE  /\ \E i \in On(c, cpu) : i \in Beginning(c) /\ FirstSwitch(c, cpu) = c[i].timestamp
           /\ \E i \in On(c, cpu) : LastSwitch(c, cpu) = c[i].timestamp
           /\ \A i \in On(c, cpu) :
                 /\ FirstSwitch(c, cpu) <= c[i].timestamp
                 /\ c[i].timestamp <= LastSwitch(c, cpu)
<1> DEFINE S == On(c, cpu)
           times == {c[i].timestamp : i \in S}
<1>1. /\ S \in SUBSET DOMAIN c /\ \A i \in S : c[i].cpu = cpu /\ c[i].timestamp \in Nat
      /\ \E i, j \in S : i # j
  BY Captured DEF On, Covered
<1>2. PICK first \in S : \A i \in S : i = first \/ Precedes(c, first, i)
  <2> HIDE DEF S
  <2> QED BY <1>1, Sorted, Zenon
<1>3. PICK last \in S : \A i \in S : i = last \/ Precedes(c, i, last)
  <2> HIDE DEF S
  <2> QED BY <1>1, Sorted, Zenon
<1>4. \A i \in S : c[first].timestamp <= c[i].timestamp /\ c[i].timestamp <= c[last].timestamp
  BY <1>1, <1>2, <1>3 DEF Precedes
<1>5. first \in Beginning(c)
  <2>1. PICK i \in S : i # first
    BY <1>1
  <2>2. i \in Later(c, first)
    BY <1>1, <1>2, <2>1 DEF Later, byCPU, On
  <2> QED BY <1>1, <2>2 DEF Beginning
<1>6. FirstSwitch(c, cpu) = c[first].timestamp
  <2>1. \A t \in times : (\A i \in S : t <= c[i].timestamp) <=> t = c[first].timestamp
    BY <1>1, <1>4
  <2>2. c[first].timestamp \in times
    OBVIOUS
  <2>3. FirstSwitch(c, cpu) = CHOOSE t \in times : \A i \in S : t <= c[i].timestamp
    BY DEF FirstSwitch
  <2> HIDE DEF times, S
  <2> QED BY <2>1, <2>2, <2>3
<1>7. LastSwitch(c, cpu) = c[last].timestamp
  <2>1. \A t \in times : (\A i \in S : t >= c[i].timestamp) <=> t = c[last].timestamp
    BY <1>1, <1>4
  <2>2. c[last].timestamp \in times
    OBVIOUS
  <2>3. LastSwitch(c, cpu) = CHOOSE t \in times : \A i \in S : t >= c[i].timestamp
    BY DEF LastSwitch
  <2> HIDE DEF times, S
  <2> QED BY <2>1, <2>2, <2>3
<1> QED BY <1>4, <1>5, <1>6, <1>7

\* An interval begins on a CPU that switches at least twice, and on each of these one does.
LEMMA Rows ==
    ASSUME NEW c \in Seq(Switch)
    PROVE  Covered(c) = {c[i].cpu : i \in Beginning(c)}
<1>1. ASSUME NEW cpu \in Covered(c) PROVE cpu \in {c[i].cpu : i \in Beginning(c)}
  BY Bounds DEF On
<1>2. ASSUME NEW i \in Beginning(c) PROVE c[i].cpu \in Covered(c)
  <2>1. PICK j \in DOMAIN c : c[j].cpu = c[i].cpu /\ Precedes(c, i, j)
    BY DEF Beginning, Later, byCPU
  <2>2. i # j /\ i \in DOMAIN c
    BY <2>1, Captured DEF Precedes, Beginning
  <2> QED BY <2>1, <2>2 DEF Covered, On
<1> QED BY <1>1, <1>2

LEMMA Zero ==
    ASSUME NEW c \in Seq(Switch), HasInterval(c)
    PROVE  LET zero == Earliest(Intervals(c))
           IN  /\ zero \in Nat /\ \A i \in Beginning(c) : zero <= c[i].timestamp
               /\ zero = CHOOSE t \in {FirstSwitch(c, d) : d \in Covered(c)} :
                            \A d \in Covered(c) : t <= FirstSwitch(c, d)
<1> DEFINE zero == Earliest(Intervals(c))
           B == Beginning(c)
           starts == {c[i].timestamp : i \in B}
           firsts == {FirstSwitch(c, d) : d \in Covered(c)}
<1>1. Covered(c) # {} /\ B # {} /\ \A i \in B : i \in DOMAIN c /\ c[i].timestamp \in Nat
  BY Rows, Captured DEF HasInterval, Beginning
<1>2. zero = CHOOSE t \in starts : \A i \in B : t <= c[i].timestamp
  <2>1. DOMAIN Intervals(c) = B /\ \A i \in B : Intervals(c)[i].start = c[i].timestamp
    BY Items
  <2>2. {Intervals(c)[i].start : i \in DOMAIN Intervals(c)} = starts
    BY <2>1
  <2> HIDE DEF B, starts
  <2> QED BY <2>1, <2>2 DEF Earliest
<1>3. PICK m \in starts : \A t \in starts : m <= t
  <2>1. starts \in SUBSET Nat /\ starts # {}
    BY <1>1
  <2> HIDE DEF starts
  <2> QED BY <2>1, Smallest
<1>4. m \in Nat /\ \A i \in B : m <= c[i].timestamp
  BY <1>1, <1>3
<1>5. zero = m
  <2>1. \A t \in starts : (\A i \in B : t <= c[i].timestamp) <=> t = m
    BY <1>1, <1>3, <1>4
  <2> HIDE DEF starts, B, zero
  <2> QED BY <1>2, <2>1
<1>6. \A d \in Covered(c) : m <= FirstSwitch(c, d) /\ FirstSwitch(c, d) \in Nat
  BY <1>1, <1>4, Bounds
<1>7. m \in firsts
  <2>1. PICK i \in B : m = c[i].timestamp
    OBVIOUS
  <2>2. c[i].cpu \in Covered(c) /\ i \in On(c, c[i].cpu)
    BY <1>1, Rows DEF On
  <2>3. FirstSwitch(c, c[i].cpu) <= m
    BY <2>1, <2>2, Bounds
  <2>4. FirstSwitch(c, c[i].cpu) = m
    BY <1>4, <1>6, <2>2, <2>3
  <2> QED BY <2>2, <2>4
<1>8. m = CHOOSE t \in firsts : \A d \in Covered(c) : t <= FirstSwitch(c, d)
  <2>1. \A t \in firsts : (\A d \in Covered(c) : t <= FirstSwitch(c, d)) <=> t = m
    BY <1>4, <1>6, <1>7
  <2> HIDE DEF firsts
  <2> QED BY <1>7, <2>1
<1> QED BY <1>4, <1>5, <1>8

\* The event that tells what runs on a CPU at t, and the interval that it begins.
LEMMA RunningIs ==
    ASSUME NEW c \in Seq(Switch), NEW cpu \in Covered(c),
           NEW t \in FirstSwitch(c, cpu) .. LastSwitch(c, cpu) - 1
    PROVE  LET run == Running(c, cpu, t)
           IN  /\ run \in Beginning(c)
               /\ \A i \in Beginning(c) :
                     /\ c[i].cpu = cpu /\ c[i].timestamp <= t
                     /\ t < c[Successor(c, i)].timestamp
                     <=> i = run
<1> DEFINE S == On(c, cpu)
           past == {i \in S : c[i].timestamp <= t}
           run == Running(c, cpu, t)
           best(i) == \A j \in S : c[j].timestamp <= t =>
                          \/ c[j].timestamp < c[i].timestamp
                          \/ c[j].timestamp = c[i].timestamp /\ j <= i
<1>1. /\ S \in SUBSET DOMAIN c /\ \A i \in S : i \in Nat /\ c[i].timestamp \in Nat
      /\ \A i \in DOMAIN c : i \in S <=> c[i].cpu = cpu
  BY Captured DEF On
<1>2. PICK first \in S : FirstSwitch(c, cpu) = c[first].timestamp
  BY Bounds
<1>3. PICK last \in S : LastSwitch(c, cpu) = c[last].timestamp
  BY Bounds
<1>4. t \in Nat /\ c[first].timestamp <= t /\ t < c[last].timestamp
  BY <1>1, <1>2, <1>3
<1>5. run \in S /\ c[run].timestamp <= t /\ best(run)
  <2>1. past \in SUBSET DOMAIN c /\ past # {}
    BY <1>1, <1>4
  <2>2. PICK i \in past : \A j \in past : j = i \/ Precedes(c, j, i)
    <3> HIDE DEF past
    <3> QED BY <2>1, Sorted, Zenon
  <2>3. best(i)
    BY <1>1, <2>2 DEF Precedes
  <2>4. run = CHOOSE k \in S : c[k].timestamp <= t /\ best(k)
    BY DEF Running
  <2> HIDE DEF best, S, run
  <2> QED BY <2>2, <2>3, <2>4
<1> HIDE DEF run
<1>6. run \in Beginning(c)
  <2>1. last \in Later(c, run)
    BY <1>1, <1>4, <1>5 DEF Later, byCPU, Precedes
  <2> QED BY <1>1, <1>5, <2>1 DEF Beginning
<1>7. ASSUME NEW i \in Beginning(c), c[i].cpu = cpu
      PROVE  LET s == Successor(c, i)
             IN  /\ i \in S /\ s \in S /\ Precedes(c, i, s)
                 /\ \A k \in S : Precedes(c, i, k) => k = s \/ Precedes(c, s, k)
  <2>1. i \in DOMAIN c /\ Later(c, i) # {}
    BY DEF Beginning
  <2>2. /\ Successor(c, i) \in DOMAIN c /\ c[Successor(c, i)].cpu = c[i].cpu
        /\ Precedes(c, i, Successor(c, i))
        /\ \A k \in Later(c, i) : k = Successor(c, i) \/ Precedes(c, Successor(c, i), k)
    BY <2>1, Followed, Zenon
  <2>3. \A k \in S : Precedes(c, i, k) => k \in Later(c, i)
    BY <1>1, <1>7, <2>1 DEF Later, byCPU
  <2> QED BY <1>1, <1>7, <2>1, <2>2, <2>3
<1>8. c[run].cpu = cpu
  BY <1>1, <1>5
<1>9. t < c[Successor(c, run)].timestamp
  BY <1>1, <1>4, <1>5, <1>6, <1>7, <1>8 DEF Precedes
<1>10. ASSUME NEW i \in Beginning(c), c[i].cpu = cpu, c[i].timestamp <= t,
              t < c[Successor(c, i)].timestamp
       PROVE  i = run
  <2>1. /\ i \in S /\ Successor(c, i) \in S
        /\ Precedes(c, i, run) => run = Successor(c, i) \/ Precedes(c, Successor(c, i), run)
    BY <1>5, <1>7, <1>10
  <2> QED BY <1>1, <1>4, <1>5, <1>10, <2>1 DEF Precedes
<1> QED BY <1>5, <1>6, <1>8, <1>9, <1>10 DEF run

LEMMA TimelineOf ==
    ASSUME NEW c \in Seq(Switch), HasInterval(c)
    PROVE  ShowsCapture(toSchedEvents(c), c)
<1> DEFINE items == toDataItems(toSchedEvents(c))
           zero == CHOOSE t \in {FirstSwitch(c, d) : d \in Covered(c)} :
                       \A d \in Covered(c) : t <= FirstSwitch(c, d)
           at(cpu, t) == {i \in DOMAIN items :
                             items[i].group = cpu /\ items[i].start <= t /\ t < items[i].end}
           color(next, kthread) == IF next = Idle THEN "yellow"
                                   ELSE IF kthread THEN "red" ELSE "blue"
<1>1. /\ zero \in Nat /\ zero = Earliest(Intervals(c))
      /\ \A i \in Beginning(c) : zero <= c[i].timestamp
  BY Zero
<1>2. /\ DOMAIN items = Beginning(c)
      /\ toGroupItems(toSchedEvents(c)) = {c[i].cpu : i \in Beginning(c)}
  BY Items
<1>3. ASSUME NEW i \in Beginning(c)
      PROVE  /\ items[i].group = c[i].cpu /\ items[i].content = c[i].next
             /\ items[i].start = c[i].timestamp - zero
             /\ items[i].end = c[Successor(c, i)].timestamp - zero
             /\ items[i].className = color(c[i].next, c[i].kthread)
  <2>1. items[i] = [group |-> c[i].cpu, content |-> c[i].next,
                    start |-> c[i].timestamp - Earliest(Intervals(c)),
                    end |-> c[Successor(c, i)].timestamp - Earliest(Intervals(c)),
                    className |-> color(c[i].next, c[i].kthread)]
    BY Items
  <2> HIDE DEF items, zero, color
  <2> QED BY <1>1, <2>1
<1> HIDE DEF items, zero
<1>4. ASSUME NEW i \in Beginning(c)
      PROVE  /\ c[i].timestamp \in Nat /\ c[Successor(c, i)].timestamp \in Nat
             /\ c[i].timestamp <= c[Successor(c, i)].timestamp
             /\ c[i].cpu \in Covered(c)
             /\ c[Successor(c, i)].timestamp <= LastSwitch(c, c[i].cpu)
  <2>1. i \in DOMAIN c /\ Later(c, i) # {}
    BY DEF Beginning
  <2>2. /\ Successor(c, i) \in DOMAIN c /\ c[Successor(c, i)].cpu = c[i].cpu
        /\ Precedes(c, i, Successor(c, i))
    BY <2>1, Followed, Zenon
  <2>3. c[i].cpu \in Covered(c)
    BY Rows
  <2>4. Successor(c, i) \in On(c, c[i].cpu)
    BY <2>2 DEF On
  <2>5. c[Successor(c, i)].timestamp <= LastSwitch(c, c[i].cpu)
    BY <2>3, <2>4, Bounds
  <2>6. c[i].timestamp \in Nat /\ c[Successor(c, i)].timestamp \in Nat
    BY <2>1, <2>2, Captured
  <2> QED BY <2>2, <2>3, <2>5, <2>6 DEF Precedes
<1>5. ASSUME NEW cpu \in Covered(c),
             NEW t \in FirstSwitch(c, cpu) .. LastSwitch(c, cpu) - 1
      PROVE  LET run == c[Running(c, cpu, t)]
             IN  \E i \in DOMAIN items :
                   /\ at(cpu, t - zero) = {i}
                   /\ items[i].content = run.next
                   /\ items[i].className = color(run.next, run.kthread)
  <2> DEFINE run == Running(c, cpu, t)
  <2>1. /\ run \in Beginning(c)
        /\ \A i \in Beginning(c) :
              /\ c[i].cpu = cpu /\ c[i].timestamp <= t
              /\ t < c[Successor(c, i)].timestamp
              <=> i = run
    BY RunningIs
  <2>2. t \in Nat
    BY Bounds, Captured DEF On
  <2> HIDE DEF run, color
  <2>3. ASSUME NEW i \in Beginning(c) PROVE i \in at(cpu, t - zero) <=> i = run
    <3>1. /\ items[i].group = c[i].cpu /\ items[i].start = c[i].timestamp - zero
          /\ items[i].end = c[Successor(c, i)].timestamp - zero
      BY <1>3
    <3>2. /\ c[i].timestamp \in Nat /\ c[Successor(c, i)].timestamp \in Nat /\ zero \in Nat
      BY <1>1, <1>4
    <3>3. /\ items[i].start <= t - zero <=> c[i].timestamp <= t
          /\ t - zero < items[i].end <=> t < c[Successor(c, i)].timestamp
      BY <2>2, <3>1, <3>2
    <3>4. i \in at(cpu, t - zero)
            <=> c[i].cpu = cpu /\ c[i].timestamp <= t /\ t < c[Successor(c, i)].timestamp
      BY <1>2, <3>1, <3>3
    <3> QED BY <2>1, <3>4
  <2>4. at(cpu, t - zero) = {run}
    BY <1>2, <2>1, <2>3
  <2> QED BY <1>2, <1>3, <2>1, <2>4 DEF run
<1>6. ASSUME NEW i \in DOMAIN items
      PROVE  /\ items[i].start \in 0 .. items[i].end
             /\ items[i].end <= LastSwitch(c, items[i].group) - zero
  <2>1. i \in Beginning(c)
    BY <1>2
  <2>2. LastSwitch(c, c[i].cpu) \in Nat
    BY <1>4, <2>1, Bounds, Captured DEF On
  <2>3. /\ items[i].group = c[i].cpu /\ items[i].start = c[i].timestamp - zero
        /\ items[i].end = c[Successor(c, i)].timestamp - zero
    BY <1>3, <2>1
  <2>4. /\ c[i].timestamp \in Nat /\ c[Successor(c, i)].timestamp \in Nat
        /\ zero \in Nat /\ zero <= c[i].timestamp
        /\ c[i].timestamp <= c[Successor(c, i)].timestamp
        /\ c[Successor(c, i)].timestamp <= LastSwitch(c, c[i].cpu)
    BY <1>1, <1>4, <2>1
  <2> QED BY <2>2, <2>3, <2>4
<1>7. toGroupItems(toSchedEvents(c)) = Covered(c)
  BY <1>2, Rows
<1> QED BY <1>5, <1>6, <1>7, Zenon DEF ShowsCapture, items, zero, color

----------------------------------------------------------------------------
(* The timeline on the page.                                               *)

LEMMA NoItems == toSchedEvents(<<>>) = <<>>
<1>1. Intervals(<<>>) = [i \in {} |-> toSchedTask(<<>>[i], <<>>[Successor(<<>>, i)])]
  BY DEF Intervals
<1>2. DOMAIN Intervals(<<>>) = {}
  BY <1>1
<1>3. toSchedEvents(<<>>) \in [{} -> {}]
  BY <1>2 DEF toSchedEvents
<1>4. \A f \in [{} -> {}] : f = <<>>
  OBVIOUS
<1> QED BY <1>3, <1>4

\* A capture that has events and no two on one CPU is the one that throws.
LEMMA ThrowsWithout ==
    ASSUME NEW c \in Seq(Switch)
    PROVE  Throws(c) <=> c # <<>> /\ ~HasInterval(c)
<1>1. DOMAIN Intervals(c) = Beginning(c)
  BY Items
<1>2. HasInterval(c) <=> Beginning(c) # {}
  <2>1. Covered(c) = {c[i].cpu : i \in Beginning(c)}
    BY Rows
  <2> QED BY <2>1, Zenon DEF HasInterval
<1> QED BY <1>1, <1>2 DEF Throws

TimelineInv ==
    IF captured = <<>> THEN events = <<>>
    ELSE captured \in Captures /\ HasInterval(captured) /\ events = toSchedEvents(captured)

LEMMA CaptureShown ==
    ASSUME TimelineInv, NEW m \in Answers, ReceiveCapture(m)
    PROVE  TimelineInv'
<1>1. m.type = "SchedhookCap"
  BY DEF ReceiveCapture
<1>2. m.events \in Captures /\ m.events \in Seq(Switch)
  BY <1>1, CapturesAssumption DEF Answers
<1>3. CASE m.events = <<>>
  <2>1. captured' = <<>>
    BY <1>3 DEF ReceiveCapture
  <2>2. events' = <<>>
    BY <1>3, NoItems DEF ReceiveCapture, Throws
  <2> QED BY <2>1, <2>2 DEF TimelineInv
<1>4. CASE m.events # <<>> /\ ~HasInterval(m.events)
  <2>1. captured' = captured /\ events' = events
    BY <1>2, <1>4, ThrowsWithout DEF ReceiveCapture
  <2> QED BY <2>1 DEF TimelineInv
<1>5. CASE m.events # <<>> /\ HasInterval(m.events)
  <2>1. captured' = m.events /\ events' = toSchedEvents(m.events)
    BY <1>2, <1>5, ThrowsWithout DEF ReceiveCapture
  <2> QED BY <1>2, <1>5, <2>1 DEF TimelineInv
<1> QED BY <1>3, <1>4, <1>5

LEMMA TimelineStep == PipeInv /\ TimelineInv /\ [Next]_vars => TimelineInv'
<1> SUFFICES ASSUME PipeInv, TimelineInv, [Next]_vars PROVE TimelineInv'
  OBVIOUS
<1> USE DEF pageVars
<1>1. CASE Receive
  <2>1. UNCHANGED <<events, captured>> \/ ReceiveCapture(Head(toClient))
    BY <1>1 DEF Receive, ReceiveError, ReceiveDump, ReceiveEntries, ReceiveView
  <2>2. Head(toClient) \in Answers
    BY <1>1, Taken DEF PipeInv, Receive, Deliver
  <2>3. CASE UNCHANGED <<events, captured>>
    BY <2>3 DEF TimelineInv
  <2> QED BY <2>1, <2>2, <2>3, CaptureShown
<1>2. CASE Follow \/ Jump
  <2>1. UNCHANGED <<events, captured>> \/ Unmount
    BY <1>2 DEF Follow, Jump, GoTo
  <2> QED BY <2>1 DEF Unmount, TimelineInv
<1>3. CASE ~(Receive \/ Follow \/ Jump)
  <2>1. UNCHANGED <<events, captured>>
    BY <1>3 DEF Next, vars, Open, Close, Reconnect, ShowErrors, Serve, Dump, TogglePause,
                Capture, Toggle, Drag, Nudge
  <2> QED BY <2>1 DEF TimelineInv
<1> QED BY <1>1, <1>2, <1>3

\* Whatever was captured, on however many CPUs, in whatever order the events come and with
\* equal timestamps or without: at each instant between the first and the last switch of
\* a CPU the timeline on the page has one item, for the task that ran; and what it
\* shows is the last capture that tells of an interval.
THEOREM TimelineAlways == Spec => []TimelineTrue
<1>1. Init => TimelineInv
  BY DEF Init, TimelineInv
<1>2. TimelineInv => TimelineTrue
  BY TimelineOf, CapturesAssumption DEF TimelineInv, TimelineTrue
<1>3. ClientInv => PipeInv
  BY DEF ClientInv
<1> QED BY <1>1, <1>2, <1>3, TimelineStep, ClientCorrect, PTL DEF Spec
=============================================================================
