------------------------------ MODULE MCMission ------------------------------
(***************************************************************************)
(* Mission with one load node and one drop node for all AGVs.              *)
(***************************************************************************)
EXTENDS Mission, TLC

CONSTANTS load, drop, home, way, a1, a2

(* As on the map of the build: no load node, drop node or home is next to *)
(* one of another kind.                                                    *)
MCLinks == {<<m, n>> \in Nodes \X Nodes : way \in {m, n}}

AgvSymmetry == Permutations(Agvs)

=============================================================================
