------------------------------- MODULE RoadMap -------------------------------
(***************************************************************************)
(* The links of the map with their lengths, as the path search and its     *)
(* distance oracle see them.  Every link of Shared/MapData.json has its    *)
(* reverse and is straight, so a road is a pair of nodes and has one       *)
(* length, which may as well be counted in the time it takes to drive it.  *)
(***************************************************************************)
EXTENDS Integers, FiniteSets, FactoryMap

CONSTANTS
  Length,  \* the length of every road: {from, to} -> Nat
  Goal,    \* the node that searches are for
  Far,     \* 999999, the oracle's answer "cut off"
  NONE

Roads == DOMAIN Length
Neighbours(m) == {n \in Nodes : {m, n} \in Roads}

ASSUME MapAssumption ==
  /\ IsFiniteSet(Nodes)
  /\ Goal \in Nodes
  /\ \A l \in Roads : \E m, n \in Nodes : m # n /\ l = {m, n}
  /\ \A l \in Roads : Length[l] \in Nat \ {0}
  /\ Far \notin Nat
  /\ NONE \notin Nodes \cup Nat \cup {Far}

=============================================================================
