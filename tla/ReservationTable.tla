-------------------------- MODULE ReservationTable --------------------------
(***************************************************************************)
(* The reservation half of ReservationTable (Shared/ReservationTable.hpp): *)
(* who has booked which node or edge for which time.                       *)
(*                                                                         *)
(* m_NodeReservations and m_EdgeReservations hold one list of TimeInterval *)
(* per resource and treat it the same way, so a ledger here is one set of  *)
(* entries, each with the resource it is for.  The lists are sorted by     *)
(* start, which no operation depends on.  Times are integers: the code's   *)
(* floats counted in one small unit.  Entries are never removed because    *)
(* their time is over.                                                     *)
(***************************************************************************)
EXTENDS Integers, FactoryMap

CONSTANT Agvs

Edge(from, to) == {from, to}
Edges == {Edge(pair[1], pair[2]) : pair \in Nodes \X Nodes}

(* "checked" is not in the code: it remembers whether the entry was        *)
(* written by TryReservePathTransaction, which looks before it writes, or  *)
(* by a bare ReserveNode.                                                  *)
Entries ==
  [at : Nodes \cup Edges, agv : Agvs, start : Int, end : Int,
   type : {"Normal", "Goal"}, checked : BOOLEAN]

(* Mutant: only the start of the new interval is compared.                 *)
StartsInside(e, start, end) == e.start <= start /\ start < e.end

(* TimeInterval::Overlaps: intervals that only touch do not overlap.       *)
Overlaps(e, start, end) == ~(end <= e.start \/ start >= e.end)

(* IsNodeFree and IsEdgeFree: an AGV's own entries are never in its way.   *)
IsFree(ledger, at, start, end, a) ==
  \A e \in ledger : e.at = at /\ e.agv # a => ~Overlaps(e, start, end)

(* The test by which ReserveNode and ReserveEdge take an entry for one     *)
(* that is already there; the ends of the two are not compared.            *)
SameBooking(e, f) ==
  /\ e.at = f.at
  /\ e.agv = f.agv
  /\ e.start = f.start
  /\ e.type = f.type

(* ReserveNode and ReserveEdge for a set of entries, no two of which are   *)
(* the same booking.                                                       *)
Reserve(ledger, new) ==
  ledger \cup {e \in new : \A f \in ledger : ~SameBooking(e, f)}

(* OverrideFutureReservations: what AGV a booked beyond the cut-off is     *)
(* given up, what reaches beyond it is cut and stops being a goal.         *)
CutAt(e, cutoff) ==
  IF e.end > cutoff THEN [e EXCEPT !.end = cutoff, !.type = "Normal"] ELSE e

OverrideFutureReservations(ledger, a, cutoff) ==
  {e \in ledger : e.agv # a}
    \cup {CutAt(e, cutoff) : e \in {f \in ledger : f.agv = a /\ f.start <= cutoff}}

=============================================================================
