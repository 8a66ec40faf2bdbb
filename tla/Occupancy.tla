------------------------------ MODULE Occupancy ------------------------------
(***************************************************************************)
(* The occupancy half of ReservationTable (Shared/ReservationTable.hpp):   *)
(* which AGV stands on a node and which AGV rides an edge right now.  Four *)
(* hash maps keep it: resource -> AGV and AGV -> resource, for nodes and   *)
(* for edges.  A key that is absent from a C++ map is bound to NONE here.  *)
(*                                                                         *)
(* The module is the state and its operations; the modules that drive the  *)
(* robots (Traffic) use the operations as parts of their actions.          *)
(***************************************************************************)
EXTENDS Naturals, Sequences

CONSTANTS
  Nodes,   \* the node ids of the map
  Agvs,    \* the network ids of the AGVs
  NONE     \* "no entry in the map"

(* MakeEdgeKey orders the two ids, so a->b and b->a share one key: an edge *)
(* is the unordered pair of its ends.                                      *)
Edge(from, to) == {from, to}
Edges == {Edge(pair[1], pair[2]) : pair \in Nodes \X Nodes}

ASSUME NoneAssumption == NONE \notin Agvs \cup Nodes \cup Edges

VARIABLES
  nodeOcc,   \* m_NodeOccupancy : node -> the AGV that stands on it
  edgeOcc,   \* m_EdgeOccupancy : edge -> the AGV that rides it
  agvNode,   \* m_AgvCurrentNode: AGV -> the node it stands on
  agvEdge    \* m_AgvCurrentEdge: AGV -> the edge it rides

occVars == <<nodeOcc, edgeOcc, agvNode, agvEdge>>

OccTypeOK ==
  /\ nodeOcc \in [Nodes -> Agvs \cup {NONE}]
  /\ edgeOcc \in [Edges -> Agvs \cup {NONE}]
  /\ agvNode \in [Agvs -> Nodes \cup {NONE}]
  /\ agvEdge \in [Agvs -> Edges \cup {NONE}]

(* All four maps are empty at start: HandleReadyMap_Packet places the AGVs *)
(* on their home nodes without calling OccupyNode.                         *)
OccInit ==
  /\ nodeOcc = [n \in Nodes |-> NONE]
  /\ edgeOcc = [e \in Edges |-> NONE]
  /\ agvNode = [a \in Agvs |-> NONE]
  /\ agvEdge = [a \in Agvs |-> NONE]

(* Mutant: only the node ahead is looked at.                               *)
NodeClearForExecution(a, from, to) == nodeOcc[to] \in {NONE, a}

(* Mutant: only the edge is looked at.                                     *)
EdgeClearForExecution(a, from, to) == edgeOcc[Edge(from, to)] \in {NONE, a}

(* Both tests look at the resource -> AGV maps only.                       *)
IsResourceClearForExecution(a, from, to) ==
  /\ edgeOcc[Edge(from, to)] \in {NONE, a}
  /\ nodeOcc[to] \in {NONE, a}

(* The AGV reports that it reached node n.  Neither erase checks that the  *)
(* entry it removes, nor the entry it overwrites, belongs to a.            *)
OccupyNode(a, n) ==
  /\ edgeOcc' = [e \in Edges |-> IF e = agvEdge[a] THEN NONE ELSE edgeOcc[e]]
  /\ agvEdge' = [agvEdge EXCEPT ![a] = NONE]
  /\ nodeOcc' = [m \in Nodes |-> IF m = n THEN a
                                 ELSE IF m = agvNode[a] THEN NONE
                                 ELSE nodeOcc[m]]
  /\ agvNode' = [agvNode EXCEPT ![a] = n]

(* Mutant: the node that is left stays closed.                             *)
OccupyEdgeOnly(a, from, to) ==
  /\ edgeOcc' = [edgeOcc EXCEPT ![Edge(from, to)] = a]
  /\ agvEdge' = [agvEdge EXCEPT ![a] = Edge(from, to)]
  /\ UNCHANGED <<nodeOcc, agvNode>>

(* The AGV leaves node "from" for node "to".  The entry of the node is     *)
(* erased whoever owns it; an older edge of a is not released.             *)
OccupyEdge(a, from, to) ==
  /\ nodeOcc' = [nodeOcc EXCEPT ![from] = NONE]
  /\ agvNode' = [agvNode EXCEPT ![a] = NONE]
  /\ edgeOcc' = [edgeOcc EXCEPT ![Edge(from, to)] = a]
  /\ agvEdge' = [agvEdge EXCEPT ![a] = Edge(from, to)]

=============================================================================
