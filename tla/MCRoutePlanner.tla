--------------------------- MODULE MCRoutePlanner ---------------------------
(***************************************************************************)
(* RoutePlanner on a map of three nodes in a line.  One unit of time is    *)
(* half a second.                                                          *)
(***************************************************************************)
EXTENDS RoutePlanner, Kinematics, TLC

CONSTANTS n1, n2, n3, a1, a2, Wait

Line == {{n1, n2}, {n2, n3}}

MCTables == TimeTables(Nodes, Line, [e \in Line |-> 2], Wait, Window)

MCHome == (a1 :> n1) @@ (a2 :> n3)

(* The line is the same from both ends, and so are the two homes.          *)
Mirror ==
  {(n1 :> n3) @@ (n2 :> n2) @@ (n3 :> n1) @@ (a1 :> a2) @@ (a2 :> a1)}

=============================================================================
