---------------------------- MODULE ProctreeView ----------------------------
(***************************************************************************)
(* What of the tree is drawn for the groups that the user has expanded     *)
(* (webapp/src/helpers/flextree.ts).                                       *)
(***************************************************************************)
EXTENDS ProctreeTree

IdsOf(groups) == {groups[i].id : i \in DOMAIN groups}

\* idToNode.get(id) of an id that is there. In a Map the last entry for a key counts.
IdToNode(tree, id) == tree[Max({i \in DOMAIN tree : tree[i].id = id})]

\* ids.map(idToNode.get), without those that are undefined.
Lookup(tree, ids) ==
    LET known == Filtered(ids, {i \in DOMAIN ids : ids[i] \in IdsOf(tree)})
    IN  [i \in 1 .. Len(known) |-> IdToNode(tree, known[i])]

\* A turn of the loop of bfsExpandedNodes().
Turn(tree, expanded, s) ==
    IF s.queue = <<>> THEN s
    ELSE LET node == Head(s.queue)
             more == IF node.id \in expanded THEN Lookup(tree, node.childTreeNodeIds)
                     ELSE <<>>
         IN  [queue |-> Tail(s.queue) \o more, result |-> Append(s.result, node)]

\* The queue and the result after each turn. A search that draws nothing twice is over after
\* as many turns as there are nodes.
Search(tree, expanded) ==
    LET after[n \in 0 .. Len(tree)] ==
            IF n = 0 THEN [queue |-> <<tree[1]>>, result |-> <<>>]
            ELSE Turn(tree, expanded, after[n - 1])
    IN  after

bfsExpandedNodes(tree, expanded) == Search(tree, expanded)[Len(tree)].result

\* The ids that toNestedNode() comes to from the root down, among the nodes it is given: those
\* that are n levels below the root. getLayout() gives them a position.
Nested(drawn) ==
    LET below[n \in 0 .. Len(drawn)] ==
            IF n = 0 THEN {drawn[1].id}
            ELSE {id \in IdsOf(drawn) :
                     \E p \in below[n - 1] : id \in Range(IdToNode(drawn, p).childTreeNodeIds)}
    IN  below

\* toFlowNodes(): a node for each group and for each thread that is drawn inside of it, by
\* their places, and the edges, by the place of the group they lead to.
FlowNodes(drawn) ==
    [at \in UNION {{<<i, k>> : k \in 0 .. Len(drawn[i].subNodes)} : i \in DOMAIN drawn} |->
        IF at[2] = 0 THEN drawn[at[1]].id ELSE drawn[at[1]].subNodes[at[2]]]

FlowEdges(drawn) ==
    [i \in {i \in DOMAIN drawn : drawn[i].id # kernelId} |->
        [source |-> drawn[i].parentId, target |-> drawn[i].id]]

----------------------------------------------------------------------------
(* Properties.                                                             *)

\* Whatever is expanded, the search ends, nothing is drawn twice, the nesting ends and
\* gives each group a position, and each edge begins at a node that is drawn, be
\* it a thread inside of another one's.
DrawingConsistent ==
    pc = "answered" =>
        \A expanded \in SUBSET Ids :
            LET drawn == bfsExpandedNodes(Tree, expanded)
                ids == FlowNodes(drawn)
                edges == FlowEdges(drawn)
                nested == Nested(drawn)
            IN  /\ Search(Tree, expanded)[Len(Tree)].queue = <<>>
                /\ IsInjective(ids)
                /\ nested[Len(drawn)] = {}
                /\ UNION {nested[n] : n \in 0 .. Len(drawn)} = IdsOf(drawn)
                /\ \A i \in DOMAIN edges : edges[i].source \in Range(ids)

\* The tasks that hang on the kernel through tasks that are all in the answer: a thread on its
\* leader, a leader on its parent.
Hanging ==
    LET given == {received[i].self : i \in DOMAIN received} \cup {Kernel}
        above(n) == IF n.leader # n.self THEN n.leader ELSE n.real
        closed(S) == /\ Kernel \in S
                     /\ \A i \in DOMAIN received :
                           above(received[i]) \in S => received[i].self \in S
    IN  {t \in given : \A S \in SUBSET given : closed(S) => t \in S}

\* With everything expanded, exactly the tasks that hang on the kernel are drawn, threads
\* inside of their process.
AllDrawn ==
    pc = "answered" => Range(FlowNodes(bfsExpandedNodes(Tree, Ids))) = Hanging
=============================================================================
