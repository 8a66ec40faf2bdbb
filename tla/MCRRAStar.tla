----------------------------- MODULE MCRRAStar -----------------------------
(***************************************************************************)
(* The oracle on a map with a short and a long way round, a spur behind    *)
(* them and a node that is cut off.                                        *)
(***************************************************************************)
EXTENDS RRAStar, TLC

CONSTANTS goal, n1, n2, n3, n4, cut

(* goal (0, 0), n1 (3, 0), n2 (0, 4), n3 (6, 4), n4 (7, 4)                 *)
MCLength ==
  ({goal, n1} :> 3) @@ ({goal, n2} :> 4) @@ ({n1, n2} :> 5) @@ ({n1, n3} :> 5)
    @@ ({n2, n3} :> 6) @@ ({n3, n4} :> 1)

=============================================================================
