----------------------------- MODULE FactoryMap -----------------------------
(***************************************************************************)
(* The places of the map that MapManager loads once (Shared/Map.hpp); what *)
(* needs the links takes them from RoadMap, routes or time tables.         *)
(***************************************************************************)

CONSTANT Nodes

=============================================================================
