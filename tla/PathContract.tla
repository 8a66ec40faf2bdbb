---------------------------- MODULE PathContract ----------------------------
(***************************************************************************)
(* What PathFinder::FindPath promises the planner: time tables whose moves *)
(* and waits were free in the reservation ledger.  RoutePlanner uses it in *)
(* place of the search; PathSearch is the search that has to keep it.      *)
(***************************************************************************)
EXTENDS ReservationTable, Sequences

CONSTANTS
  Clearance,  \* CLEARANCE_TIME
  Window      \* WINDOW_TIME

Horizon == 3 * Window   \* LONG_TERM_HORIZON

Steps == [node : Nodes, arr : Nat, dep : Nat]

(* Tables start at time 0; these are the times of one that starts at t.    *)
Arr(p, i, t) == t + p[i].arr
Dep(p, i, t) == t + p[i].dep

Links(p) == 1..(Len(p) - 1)
LinkEdge(p, i) == Edge(p[i].node, p[i + 1].node)
LinkLeave(p, i, t) == Arr(p, i + 1, t) + Clearance

(* FindPath visits no node twice, and a move takes longer than the         *)
(* clearance: the links of the map are at least 4 m long (AGV_SPEED 4 m/s).*)
Timely(p) ==
  /\ p \in Seq(Steps) /\ Len(p) >= 2 /\ p[1].arr = 0
  /\ \A i \in 1..Len(p) : p[i].arr <= p[i].dep
  /\ \A i, j \in 1..Len(p) :
       i < j => p[i].dep + Clearance < p[j].arr /\ p[i].node # p[j].node

(* FindPath: each move found its edge and the node behind it free, each    *)
(* wait found its node free for the whole stay, and the search stopped at  *)
(* the target or at the end of the window.  The start node is looked at    *)
(* only if the AGV waits there.                                            *)
Found(ledger, a, p, from, target, t) ==
  LET last == Len(p) IN
  /\ p[1].node = from
  /\ \/ p[last].node = target /\ p[last].dep = p[last].arr
     \/ p[last].node # target /\ p[last].dep >= Window
  /\ \A i \in Links(p) :
       /\ p[i].node # target
       /\ p[i].dep < Window
       /\ IsFree(ledger, LinkEdge(p, i), Dep(p, i, t), LinkLeave(p, i, t), a)
       /\ IsFree(ledger, p[i + 1].node, Arr(p, i + 1, t),
                 Arr(p, i + 1, t) + (IF p[i + 1].node = target
                                     THEN Horizon ELSE Clearance), a)
  /\ \A i \in 1..last :
       p[i].arr < p[i].dep =>
         IsFree(ledger, p[i].node, Arr(p, i, t), Dep(p, i, t) + Clearance, a)

=============================================================================
