----------------------------- MODULE TreeViewer -----------------------------
(***************************************************************************)
(* The drawing of the process tree: which thread groups are shown, where   *)
(* they are suggested to be, where the user has dragged them and when a    *)
(* dragged one is put back (webapp/src/components/proctree/Viewer.tsx,     *)
(* LeaderNode.tsx, SubNode.tsx, helpers/flextree.ts, adapters/proctree.ts).*)
(*                                                                         *)
(* A tree is what toTreeNodes() (ProctreeView) makes of an answer: for     *)
(* each group the groups below it and its other threads, in order. The     *)
(* layout of d3-flextree is external: here each group is centred over the  *)
(* groups below it, and these are beside each other.                       *)
(***************************************************************************)
EXTENDS Integers, Sequences, SequencesExt

kernelId == 0

LEADER_BASE_WIDTH == 300
LEADER_BASE_HEIGHT == 50
SUB_NODE_HEIGHT == 30
SUB_NODES_GAP == 10
MIN_VERTICAL_SPACE_BETWEEN_NODES == 50
HORIZONTAL_SPACE_BETWEEN_NODES == 50
VERTICAL_SPACE_GROWTH_CAP == 15
NODE_POS_EQUALITY_THRESHOLD == 5

Least(a, b) == IF a < b THEN a ELSE b
Distance(a, b) == IF a < b THEN b - a ELSE a - b

\* leaderDims(): the height of a group with n further threads. The width is the same
\* for all.
leaderHeight(n) ==
    LEADER_BASE_HEIGHT + n * SUB_NODE_HEIGHT + 2 * SUB_NODES_GAP * Least(1, n)

verticalSpacer(n) == MIN_VERTICAL_SPACE_BETWEEN_NODES * Least(VERTICAL_SPACE_GROWTH_CAP, n)

\* Where toFlowNodes() puts the thread of a rank, from 0, inside of its group.
subNodeY(rank) == LEADER_BASE_HEIGHT + SUB_NODES_GAP + rank * SUB_NODE_HEIGHT

----------------------------------------------------------------------------
\* bfsExpandedNodes(): the groups that hang on the root by expanded ones.
Drawn(tree, expanded) ==
    LET shown[id \in DOMAIN tree] ==
            \/ id = kernelId
            \/ \E p \in expanded \cap DOMAIN tree :
                  id \in ToSet(tree[p].children) /\ shown[p]
    IN  {id \in DOMAIN tree : shown[id]}

\* getLayout() of the drawn groups: the upper left corner of each.
Layout(tree, drawn) ==
    LET below(id) == SelectSeq(tree[id].children, LAMBDA c : c \in drawn)
        above(id) == CHOOSE p \in drawn : id \in ToSet(below(p))
        breadth[id \in drawn] ==
            IF below(id) = <<>> THEN 1
            ELSE FoldLeft(+, 0, [k \in DOMAIN below(id) |-> breadth[below(id)[k]]])
        left[id \in drawn] ==
            IF id = kernelId THEN 0
            ELSE LET siblings == below(above(id))
                     rank == SelectInSeq(siblings, LAMBDA c : c = id)
                 IN  left[above(id)] +
                     FoldLeft(+, 0, [k \in 1 .. rank - 1 |-> breadth[siblings[k]]])
        top[id \in drawn] ==
            IF id = kernelId THEN 0
            ELSE LET p == above(id)
                 IN  top[p] + leaderHeight(Len(tree[p].subNodes)) + verticalSpacer(Len(below(p)))
        column == LEADER_BASE_WIDTH + HORIZONTAL_SPACE_BETWEEN_NODES
    IN  [id \in drawn |->
            [x |-> ((2 * left[id] + breadth[id]) * column - LEADER_BASE_WIDTH) \div 2,
             y |-> top[id]]]

\* withinThreshold(): of the suggestion for id before and now.
withinThreshold(before, now, id) ==
    /\ id \in DOMAIN before /\ id \in DOMAIN now
    /\ Distance(before[id].x, now[id].x) < NODE_POS_EQUALITY_THRESHOLD
    /\ Distance(before[id].y, now[id].y) < NODE_POS_EQUALITY_THRESHOLD

----------------------------------------------------------------------------
(* The state of a Viewer: the tree, the ids that are expanded, the last    *)
(* suggested layout, the positions that the user has given, and the        *)
(* position of each node that is drawn.                                    *)

NoMap == [id \in {} |-> 0]

InitialViewer ==
    [tree |-> NoMap, expanded |-> {kernelId}, prevSuggestedLayout |-> NoMap,
     userDefinedLayout |-> NoMap, nodes |-> NoMap]

\* Mutant of Relayout: the suggestions for nodes that are not drawn any more are kept.
RelayoutMerging(v) ==
    LET now == Layout(v.tree, Drawn(v.tree, v.expanded))
        before == v.prevSuggestedLayout
        user == v.userDefinedLayout
        kept == {id \in DOMAIN user : withinThreshold(before, now, id)}
    IN  [v EXCEPT
            !.nodes = [id \in DOMAIN now |-> IF id \in kept THEN user[id] ELSE now[id]],
            !.userDefinedLayout = [id \in DOMAIN user \ (DOMAIN now \ kept) |-> user[id]],
            !.prevSuggestedLayout =
                [id \in DOMAIN before \cup DOMAIN now |->
                    IF id \in DOMAIN now THEN now[id] ELSE before[id]]]

\* The effect that runs when the tree or the expanded ids change, with
\* getFinalLayout(). The user's positions of nodes that are not drawn are kept.
Relayout(v) ==
    LET now == Layout(v.tree, Drawn(v.tree, v.expanded))
        user == v.userDefinedLayout
        kept == {id \in DOMAIN user : withinThreshold(v.prevSuggestedLayout, now, id)}
    IN  [v EXCEPT
            !.nodes = [id \in DOMAIN now |-> IF id \in kept THEN user[id] ELSE now[id]],
            !.userDefinedLayout = [id \in DOMAIN user \ (DOMAIN now \ kept) |-> user[id]],
            !.prevSuggestedLayout = now]

\* setNodes() of the hook, and the effect.
ShowTree(v, tree) == Relayout([v EXCEPT !.tree = tree])

\* data.hasChildren: whether a LeaderNode has the handle to be expanded by.
CanToggle(v, id) == id \in DOMAIN v.nodes /\ v.tree[id].children # <<>>

\* toggleExpand(), and the effect.
ToggleExpand(v, id) ==
    Relayout([v EXCEPT !.expanded = IF id \in @ THEN @ \ {id} ELSE @ \cup {id}])

\* onNodesChange(): React Flow moves nodes, all that are selected at once; moved[id] is
\* where id gets to. Threads are not draggable. By the arrow keys or the box around a
\* selection nothing else happens.
MoveNodes(v, moved) ==
    [v EXCEPT !.nodes = [id \in DOMAIN @ |-> IF id \in DOMAIN moved THEN moved[id] ELSE @[id]]]

\* handleNodeDragStop(), after the nodes have been moved: of the node that was grabbed
\* the position is noted, and of no other.
DragStop(v, id, moved) ==
    LET user == v.userDefinedLayout
    IN  [MoveNodes(v, moved) EXCEPT
            !.userDefinedLayout =
                [i \in DOMAIN user \cup {id} |-> IF i = id THEN moved[id] ELSE user[i]]]

\* The tasks with a link to their view: LeaderNode has it but for the root, SubNode
\* always; and those with a link to their page tables.
ViewLinks(v) ==
    (DOMAIN v.nodes \ {kernelId}) \cup UNION {ToSet(v.tree[id].subNodes) : id \in DOMAIN v.nodes}
VmLinks(v) == DOMAIN v.nodes \ {kernelId}
=============================================================================
