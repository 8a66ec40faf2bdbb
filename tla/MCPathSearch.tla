---------------------------- MODULE MCPathSearch ----------------------------
(***************************************************************************)
(* The path search on a corner of a map like Shared/MapData.json, with its *)
(* four lengths of links: 4, 5.66, 8 and 8.94 m.  One unit of time is a    *)
(* fortieth of a second, so the constants of PathFinder.cpp are exact but  *)
(* for a shorter window, and four times share a slot.                      *)
(***************************************************************************)
EXTENDS PathSearch, TLC

CONSTANTS goal, n1, n2, n3, n4, n5, a1, a2

(* goal (4, 8), n1 (4, 4), n2 (8, 0), n3 (12, 4), n4 (0, 0), n5 (8, 4)    *)
MCLength ==
  ({goal, n1} :> 40) @@ ({goal, n5} :> 57) @@ ({n1, n5} :> 40) @@ ({n1, n2} :> 57)
    @@ ({n1, n4} :> 57) @@ ({n2, n3} :> 57) @@ ({n3, n5} :> 40) @@ ({n4, n5} :> 89)

Booked(at, start, end) ==
  [at |-> at, agv |-> a2, start |-> start, end |-> end, type |-> "Normal", checked |-> TRUE]

(* The road is free; all around goal is taken; an AGV comes the other way, *)
(* and this one has a booking of its own; no road is left from n2.         *)
MCLedgers ==
  { {},
    {Booked(goal, 0, 1800), Booked(n5, 115, 1800), Booked(n1, 85, 1800)},
    {Booked(goal, 120, 180), Booked({goal, n1}, 80, 144), Booked(n1, 0, 100),
     [Booked(n5, 0, 180) EXCEPT !.agv = a1]},
    {Booked(at, 0, 600) : at \in {n2, {n1, n2}, {n2, n3}}} }

=============================================================================
