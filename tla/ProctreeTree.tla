---------------------------- MODULE ProctreeTree ----------------------------
(***************************************************************************)
(* What the web application makes of an answer: the tree of thread groups  *)
(* (webapp/src/adapters/proctree.ts). An id is the number of a task, that  *)
(* is its pid and start time.                                              *)
(***************************************************************************)
EXTENDS ProctreeRead, FiniteSetsExt

kernelId == Kernel

isGroupLeader(n) == n.self = n.leader

\* Lists that come of a list of nodes by filter() keep its order and are named by the indices
\* of what is in them.
Filtered(ns, I) ==
    LET nth(n) == CHOOSE i \in I : Cardinality({j \in I : j <= i}) = n
    IN  [n \in 1 .. Cardinality(I) |-> ns[nth(n)]]

SelfIds(ns, I) == [n \in 1 .. Cardinality(I) |-> Filtered(ns, I)[n].self]

groupLeaders(ns) == {i \in DOMAIN ns : isGroupLeader(ns[i])}
childThreads(ns) == {i \in DOMAIN ns : ~isGroupLeader(ns[i])}

\* Mutant of ToTgid: the parent is taken for a group leader.
ToTgidSame(ns, id) == id

\* tidToTgid.get(id) || id. In a Map the last entry for a key counts.
ToTgid(ns, id) ==
    LET at == {i \in DOMAIN ns : ns[i].self = id}
    IN  IF at = {} THEN id ELSE ns[Max(at)].leader

\* Mutant of ChildIds: the children are grouped by the thread that is their parent.
ChildIdsOfThread(ns, id) == SelfIds(ns, {i \in groupLeaders(ns) : ns[i].real = id})

\* tgidToChildTgids.get(id) || []
ChildIds(ns, id) == SelfIds(ns, {i \in groupLeaders(ns) : ToTgid(ns, ns[i].real) = id})

\* Mutant of SubNodes: mapTgidToNodes() is given all nodes.
SubNodesWithLeader(ns, id) == SelfIds(ns, {i \in DOMAIN ns : ns[i].leader = id})

\* tgidToNodes.get(id) || []
SubNodes(ns, id) == SelfIds(ns, {i \in childThreads(ns) : ns[i].leader = id})

\* toTreeNodes(). The parents of the kernel's node are "", which no other node has.
toTreeNodes(ns) ==
    LET leaders == Filtered(ns, groupLeaders(ns))
        kernelNode == [id |-> kernelId, parentId |-> kernelId,
                       parentTreeNodeId |-> kernelId, subNodes |-> <<>>,
                       childTreeNodeIds |-> ChildIds(ns, kernelId)]
        mainNode(n) == [id |-> n.self, parentId |-> n.real,
                        parentTreeNodeId |-> ToTgid(ns, n.real),
                        subNodes |-> SubNodes(ns, n.self),
                        childTreeNodeIds |-> ChildIds(ns, n.self)]
    IN  <<kernelNode>> \o [i \in 1 .. Len(leaders) |-> mainNode(leaders[i])]

----------------------------------------------------------------------------
(* Properties.                                                             *)

Tree == toTreeNodes(received)
Ids == {Tree[i].id : i \in 1 .. Len(Tree)}

\* The parent of each group in the tree is in the tree, but for a parent that was
\* cloned while the walk was past its process: the truncation, which leaves
\* children out, never leaves out the parent of one that is in.
OrphansOfLateThreads ==
    pc = "answered" =>
        \A i \in 1 .. Len(Tree) :
            LET p == Tree[i].parentTreeNodeId
            IN  p \in Ids \/ (p > before /\ leader[p] # p)

\* webapp/src/types/ui/proctree.ts: "parentTreeNodeId always points to a TreeNode".
ParentsInTree ==
    pc = "answered" => \A i \in 1 .. Len(Tree) : Tree[i].parentTreeNodeId \in Ids
=============================================================================
