--------------------------- MODULE NodeAllocator ---------------------------
(***************************************************************************)
(* What a parser relies on when it asks for a node: it is given one that   *)
(* it does not have yet, or none, until all are taken back at once.        *)
(***************************************************************************)
CONSTANTS Nodes, NULL

VARIABLES nodes,  \* the nodes that the parser has
          given   \* what it was given last

Init == nodes = {} /\ given = NULL

Allocate == \E n \in Nodes \ nodes : nodes' = nodes \cup {n} /\ given' = n
Refuse == given' = NULL /\ UNCHANGED nodes
TakeBack == nodes' = {} /\ UNCHANGED given

Next == Allocate \/ Refuse \/ TakeBack

Spec == Init /\ [][Next]_<<nodes, given>>
=============================================================================
