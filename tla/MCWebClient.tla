---------------------------- MODULE MCWebClient ----------------------------
(* The instance of the web application for TLC. *)
EXTENDS WebClient

Group(children, subNodes) == [children |-> children, subNodes |-> subNodes]

\* 1 hangs on the kernel. It has the child 2, a thread 3 as well, or neither.
MCTrees ==
    {[id \in {0, 1, 2} |-> Group(IF id = 2 THEN <<>> ELSE <<id + 1>>, <<>>)],
     [id \in {0, 1, 2} |-> Group(IF id = 2 THEN <<>> ELSE <<id + 1>>,
                                 IF id = 1 THEN <<3>> ELSE <<>>)],
     [id \in {0, 1} |-> Group(IF id = 1 THEN <<>> ELSE <<1>>, <<>>)]}

SwitchTo(cpu, t, next) == [cpu |-> cpu, timestamp |-> t, next |-> next, kthread |-> next = 2]

\* No event, one event, one event on each CPU, two CPUs that do not take turns and of which
\* one has its events out of order and two at once, and one that idles.
MCCaptures ==
    {<<>>,
     <<SwitchTo(0, 5, 1)>>,
     <<SwitchTo(0, 5, 1), SwitchTo(1, 6, 2)>>,
     <<SwitchTo(1, 4, 1), SwitchTo(0, 7, 2), SwitchTo(1, 6, 0), SwitchTo(0, 5, 1), SwitchTo(0, 9, 1),
       SwitchTo(0, 7, 0)>>,
     <<SwitchTo(1, 3, 0), SwitchTo(0, 2, 1), SwitchTo(1, 5, 2)>>}

Spot(id) == [x |-> 1000 * id, y |-> 1000]

\* One node, or two that are selected.
MCMoves == {[id \in {1} |-> Spot(id)], [id \in {1, 2} |-> Spot(id)]}
=============================================================================
