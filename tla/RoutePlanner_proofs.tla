------------------------- MODULE RoutePlanner_proofs -------------------------
(***************************************************************************)
(* Proofs about RoutePlanner, for every map, fleet, choice of the times    *)
(* and run length: the state keeps its types, the bookings of two AGVs     *)
(* never overlap, the way ahead of a plan stays backed by bookings and an  *)
(* AGV that waits for a route keeps its node booked, for every AGV that    *)
(* was neither rerouted nor adrift, and a fresh plan is refused by the     *)
(* ledger only over the node its AGV stands on.                            *)
(***************************************************************************)
EXTENDS RoutePlanner, TLAPS

-----------------------------------------------------------------------------
(* Lemmas about the ledger's operations.                                   *)

(* What an override leaves of an entry lies within the entry.              *)
LEMMA CutShrinks ==
  ASSUME NEW e \in Entries, NEW c \in Int
  PROVE  /\ CutAt(e, c) \in Entries
         /\ CutAt(e, c).at = e.at /\ CutAt(e, c).agv = e.agv
         /\ CutAt(e, c).checked = e.checked
         /\ CutAt(e, c).start = e.start /\ CutAt(e, c).end <= e.end
<1>1. CASE e.end > c
  <2>1. CutAt(e, c) = [e EXCEPT !.end = c, !.type = "Normal"]
    BY <1>1 DEF CutAt
  <2> DEFINE d == [e EXCEPT !.end = c]
  <2>2. /\ d \in Entries
        /\ d.at = e.at /\ d.agv = e.agv /\ d.checked = e.checked /\ d.start = e.start
        /\ d.end = c
    BY DEF Entries
  <2> HIDE DEF d
  <2> DEFINE f == [d EXCEPT !.type = "Normal"]
  <2>3. /\ f \in Entries
        /\ f.at = d.at /\ f.agv = d.agv /\ f.checked = d.checked /\ f.start = d.start
        /\ f.end = d.end
    BY <2>2 DEF Entries
  <2>4. CutAt(e, c) = f
    BY <2>1 DEF d
  <2> HIDE DEF f
  <2>5. c \in Int /\ e.end \in Int
    BY DEF Entries
  <2>6. QED
    BY <1>1, <2>2, <2>3, <2>4, <2>5
<1>2. CASE ~(e.end > c)
  BY <1>2 DEF CutAt, Entries
<1>3. QED
  BY <1>1, <1>2

(* An override adds nothing: every entry it leaves lies within an entry    *)
(* that was there, and those of the other AGVs are unchanged.              *)
LEMMA OverrideShrinks ==
  ASSUME NEW L, L \subseteq Entries, NEW a \in Agvs, NEW c \in Int,
         NEW x \in OverrideFutureReservations(L, a, c)
  PROVE  /\ x \in Entries
         /\ x.agv # a => x \in L
         /\ \E e \in L : /\ x.at = e.at /\ x.agv = e.agv /\ x.checked = e.checked
                         /\ x.start = e.start /\ x.end <= e.end
<1>1. CASE x \in {e \in L : e.agv # a}
  BY <1>1 DEF Entries
<1>2. CASE x \in {CutAt(e, c) : e \in {f \in L : f.agv = a /\ f.start <= c}}
  <2>1. PICK e \in L : e.agv = a /\ x = CutAt(e, c)
    BY <1>2
  <2>2. QED
    BY <2>1, CutShrinks
<1>3. QED
  BY <1>1, <1>2 DEF OverrideFutureReservations

(* Reserving only adds entries from the set that is asked for.             *)
LEMMA ReserveAdds ==
  ASSUME NEW L, NEW new, NEW x \in Reserve(L, new)
  PROVE  x \in L \/ x \in new
BY DEF Reserve

(* BookingsApart of any ledger.                                            *)
ApartIn(L) ==
  \A e, f \in L :
    e.checked /\ f.checked /\ e.at = f.at /\ e.agv # f.agv => Apart(e, f)

LEMMA OverrideKeepsApart ==
  ASSUME NEW L, L \subseteq Entries, ApartIn(L), NEW a \in Agvs, NEW c \in Int
  PROVE  ApartIn(OverrideFutureReservations(L, a, c))
<1> DEFINE M == OverrideFutureReservations(L, a, c)
<1>1. ASSUME NEW x \in M, NEW y \in M, x.checked, y.checked, x.at = y.at, x.agv # y.agv
      PROVE  Apart(x, y)
  <2>1. PICK e \in L : /\ x.at = e.at /\ x.agv = e.agv /\ x.checked = e.checked
                       /\ x.start = e.start /\ x.end <= e.end
    BY OverrideShrinks
  <2>2. PICK f \in L : /\ y.at = f.at /\ y.agv = f.agv /\ y.checked = f.checked
                       /\ y.start = f.start /\ y.end <= f.end
    BY OverrideShrinks
  <2>3. Apart(e, f)
    BY <1>1, <2>1, <2>2 DEF ApartIn
  <2>4. /\ e.start \in Int /\ e.end \in Int /\ f.start \in Int /\ f.end \in Int
        /\ x.end \in Int /\ y.end \in Int
    BY OverrideShrinks DEF Entries
  <2>5. QED
    BY <2>1, <2>2, <2>3, <2>4 DEF Apart
<1>2. QED
  BY <1>1 DEF ApartIn

(* Checked entries of a that are free in the old ledger may be reserved    *)
(* after the override.                                                     *)
LEMMA ReserveKeepsApart ==
  ASSUME NEW L, L \subseteq Entries, ApartIn(L), NEW a \in Agvs, NEW c \in Int,
         NEW new, new \subseteq Entries,
         \A e \in new : e.agv = a /\ (e.checked => IsFree(L, e.at, e.start, e.end, a))
  PROVE  ApartIn(Reserve(OverrideFutureReservations(L, a, c), new))
<1> DEFINE M == OverrideFutureReservations(L, a, c)
<1> DEFINE R == Reserve(M, new)
<1>1. ApartIn(M)
  BY OverrideKeepsApart
<1>2. ASSUME NEW x \in new, NEW y \in M, x.checked, x.at = y.at, x.agv # y.agv
      PROVE  Apart(x, y) /\ Apart(y, x)
  <2>1. y \in L /\ y.agv # a
    BY <1>2, OverrideShrinks
  <2>2. ~Overlaps(y, x.start, x.end)
    BY <1>2, <2>1 DEF IsFree
  <2>3. x.start \in Int /\ x.end \in Int /\ y.start \in Int /\ y.end \in Int
    BY <2>1 DEF Entries
  <2>4. QED
    BY <2>2, <2>3 DEF Overlaps, Apart
<1>3. ASSUME NEW x \in R, NEW y \in R, x.checked, y.checked, x.at = y.at, x.agv # y.agv
      PROVE  Apart(x, y)
  <2>1. (x \in M \/ x \in new) /\ (y \in M \/ y \in new)
    BY ReserveAdds
  <2>2. CASE x \in M /\ y \in M
    BY <1>1, <1>3, <2>2 DEF ApartIn
  <2>3. CASE x \in new /\ y \in M
    BY <1>2, <1>3, <2>3
  <2>4. CASE x \in M /\ y \in new
    BY <1>2, <1>3, <2>4
  <2>5. CASE x \in new /\ y \in new
    BY <1>3, <2>5
  <2>6. QED
    BY <2>1, <2>2, <2>3, <2>4, <2>5
<1>4. QED
  BY <1>3 DEF ApartIn

-----------------------------------------------------------------------------
(* What CreateRoute does to the ledger.                                    *)

LEMMA EdgeOfNodes ==
  ASSUME NEW f \in Nodes, NEW t \in Nodes
  PROVE  Edge(f, t) \in Edges
<1>1. <<f, t>> \in Nodes \X Nodes /\ <<f, t>>[1] = f /\ <<f, t>>[2] = t
  OBVIOUS
<1>2. QED
  BY <1>1, Zenon DEF Edges

(* The types of a table's steps and times.                                 *)
LEMMA TableTypes ==
  ASSUME NEW p \in Tables, NEW t \in Int, NEW target \in Nodes
  PROVE  /\ Len(p) \in Nat /\ Len(p) >= 2
         /\ \A i \in 1..Len(p) : /\ p[i] \in Steps /\ p[i].node \in Nodes
                                 /\ Arr(p, i, t) \in Int /\ Dep(p, i, t) \in Int
                                 /\ Leave(p, i, t, target) \in Int
         /\ \A i \in Links(p) : /\ i \in 1..Len(p) /\ i + 1 \in 1..Len(p)
                                /\ LinkEdge(p, i) \in Edges
                                /\ LinkLeave(p, i, t) \in Int
<1>1. p \in Seq(Steps) /\ Len(p) >= 2
  BY TablesAssumption DEF Timely
<1>2. ASSUME NEW i \in 1..Len(p)
      PROVE  /\ p[i] \in Steps /\ p[i].node \in Nodes
             /\ Arr(p, i, t) \in Int /\ Dep(p, i, t) \in Int
             /\ Leave(p, i, t, target) \in Int
  <2>1. p[i] \in Steps
    BY <1>1
  <2>2. p[i].node \in Nodes /\ Arr(p, i, t) \in Int /\ Dep(p, i, t) \in Int
    BY <2>1 DEF Steps, Arr, Dep
  <2>3. Horizon \in Int /\ Clearance \in Int
    BY TimesAssumption DEF Horizon
  <2>4. QED
    BY <2>1, <2>2, <2>3 DEF Leave
<1>3. ASSUME NEW i \in Links(p)
      PROVE  /\ i \in 1..Len(p) /\ i + 1 \in 1..Len(p)
             /\ LinkEdge(p, i) \in Edges
             /\ LinkLeave(p, i, t) \in Int
  <2>1. i \in 1..Len(p) /\ i + 1 \in 1..Len(p)
    BY <1>1 DEF Links
  <2>2. LinkEdge(p, i) \in Edges
    BY <1>2, <2>1, EdgeOfNodes DEF LinkEdge
  <2>3. Arr(p, i + 1, t) \in Int /\ Clearance \in Int
    BY <1>2, <2>1, TimesAssumption
  <2>4. QED
    BY <2>1, <2>2, <2>3 DEF LinkLeave
<1>4. QED
  BY <1>1, <1>2, <1>3

(* Everything that the transaction writes was found free.                  *)
LEMMA PathEntriesFree ==
  ASSUME NEW a \in Agvs, NEW p \in Tables, NEW target \in Nodes, NEW t \in Int,
         PathFree(a, p, target, t), NEW e \in PathEntries(a, p, target, t)
  PROVE  e \in Entries /\ e.agv = a /\ IsFree(ledger, e.at, e.start, e.end, a)
<1>1. CASE \E i \in 1..Len(p) :
             e = Entry(p[i].node, a, Arr(p, i, t), Leave(p, i, t, target),
                       IF p[i].node = target THEN "Goal" ELSE "Normal", TRUE)
  <2>1. PICK i \in 1..Len(p) :
             e = Entry(p[i].node, a, Arr(p, i, t), Leave(p, i, t, target),
                       IF p[i].node = target THEN "Goal" ELSE "Normal", TRUE)
    BY <1>1
  <2>2. /\ p[i].node \in Nodes
        /\ Arr(p, i, t) \in Int /\ Leave(p, i, t, target) \in Int
    BY TableTypes
  <2>3. e \in Entries /\ e.agv = a /\ e.at = p[i].node /\ e.start = Arr(p, i, t)
        /\ e.end = Leave(p, i, t, target)
    BY <2>1, <2>2 DEF Entry, Entries
  <2>4. QED
    BY <2>3 DEF PathFree
<1>2. CASE \E i \in Links(p) :
             e = Entry(LinkEdge(p, i), a, Dep(p, i, t), LinkLeave(p, i, t), "Normal", TRUE)
  <2>1. PICK i \in Links(p) :
             e = Entry(LinkEdge(p, i), a, Dep(p, i, t), LinkLeave(p, i, t), "Normal", TRUE)
    BY <1>2
  <2>2. /\ LinkEdge(p, i) \in Edges
        /\ Dep(p, i, t) \in Int /\ LinkLeave(p, i, t) \in Int
    BY TableTypes
  <2>3. e \in Entries /\ e.agv = a /\ e.at = LinkEdge(p, i) /\ e.start = Dep(p, i, t)
        /\ e.end = LinkLeave(p, i, t)
    BY <2>1, <2>2 DEF Entry, Entries
  <2>4. QED
    BY <2>3 DEF PathFree
<1>3. QED
  BY <1>1, <1>2 DEF PathEntries

(* CreateRoute, whatever its outcome, leaves a well-typed ledger with      *)
(* checked bookings apart.                                                 *)
LEMMA CreateRouteLedger ==
  ASSUME ledger \subseteq Entries, ApartIn(ledger),
         NEW a \in Agvs, NEW from \in Nodes, NEW target \in Nodes, NEW t \in Int,
         NEW plans, CreateRoute(a, from, target, t, plans)
  PROVE  ledger' \subseteq Entries /\ ApartIn(ledger')
<1> DEFINE cutoff == t + Clearance
<1> DEFINE cut == OverrideFutureReservations(ledger, a, cutoff)
<1>0. /\ cutoff \in Int /\ Horizon \in Int /\ Penalty + Grace \in Int
      /\ t + Horizon \in Int /\ t + Penalty + Grace \in Int
  BY TimesAssumption DEF Horizon
<1>1. cut \subseteq Entries
  BY <1>0, OverrideShrinks
<1>2. CASE AlreadyThere(a, from, target, t, plans)
  <2> DEFINE e == Entry(from, a, t, t + Horizon, "Goal", FALSE)
  <2>1. ledger' = Reserve(cut, {e})
    BY <1>2 DEF AlreadyThere
  <2>2. e \in Entries /\ e.agv = a /\ ~e.checked
    BY <1>0 DEF Entry, Entries
  <2>3. ApartIn(ledger')
    BY <1>0, <2>1, <2>2, ReserveKeepsApart
  <2>4. QED
    BY <1>1, <2>1, <2>2, <2>3, ReserveAdds
<1>3. CASE RouteFound(a, from, target, t, plans)
  <2>1. PICK p \in Tables : TryReservePathTransaction(a, p, target, t)
    BY <1>3 DEF RouteFound
  <2>2. ledger' = Reserve(cut, PathEntries(a, p, target, t)) /\ PathFree(a, p, target, t)
    BY <2>1 DEF TryReservePathTransaction
  <2>3. PathEntries(a, p, target, t) \subseteq Entries
        /\ \A e \in PathEntries(a, p, target, t) :
             e.agv = a /\ IsFree(ledger, e.at, e.start, e.end, a)
    BY <2>2, PathEntriesFree
  <2>4. ApartIn(ledger')
    BY <1>0, <2>2, <2>3, ReserveKeepsApart
  <2>5. QED
    BY <1>1, <2>2, <2>3, <2>4, ReserveAdds
<1>4. CASE RouteFailed(a, from, target, t, plans)
  <2> DEFINE e == Entry(from, a, t, t + Penalty + Grace, "Normal", FALSE)
  <2>1. ledger' = Reserve(ledger, {e})
    BY <1>4 DEF RouteFailed
  <2>2. e \in Entries /\ e.checked = FALSE
    BY <1>0 DEF Entry, Entries
  <2>3. \A x \in ledger' : x \in Entries /\ (x.checked => x \in ledger)
    BY <2>1, <2>2, ReserveAdds
  <2>4. QED
    BY <2>3 DEF ApartIn
<1>5. QED
  BY <1>2, <1>3, <1>4 DEF CreateRoute

-----------------------------------------------------------------------------
(* The inductive invariant.                                                *)

(* The retry loop only visits AGVs with a pending route, and is over when  *)
(* the events of the next frame are handled.                               *)
DueArePending ==
  /\ \A a \in due : pending[a] # NONE
  /\ phase = "events" => due = {}

(* A plan in force has a next step, and so has a ride.                     *)
PlanAhead ==
  \A a \in Agvs : /\ plan[a] # NONE => plan[a].index < Len(plan[a].table)
                  /\ drive[a] # NONE => drive[a].index < Len(drive[a].table)

(* The queue is handled to the end before the retries.                     *)
HandEmpty == phase = "retry" => inHand = NONE

IInv == TypeOK /\ DueArePending /\ PlanAhead /\ HandEmpty /\ BookingsApart

(* What CreateRoute does to the plans, the robots and the retry list.      *)
LEMMA CreateRouteType ==
  ASSUME TypeOK, PlanAhead, NEW a \in Agvs, NEW from \in Nodes, NEW target \in Nodes,
         NEW t \in Int, NEW plans \in [Agvs -> Plans \cup {NONE}],
         \A b \in Agvs : plans[b] # NONE => plans[b].index < Len(plans[b].table),
         CreateRoute(a, from, target, t, plans)
  PROVE  /\ plan' \in [Agvs -> Plans \cup {NONE}]
         /\ drive' \in [Agvs -> Drives \cup {NONE}]
         /\ PlanAhead'
         /\ pending' \in [Agvs -> Retries \cup {NONE}]
         /\ \A b \in Agvs \ {a} : pending'[b] = pending[b] /\ drive'[b] = drive[b]
<1>1. CASE AlreadyThere(a, from, target, t, plans)
  BY <1>1 DEF AlreadyThere, TypeOK, PlanAhead
<1>2. CASE RouteFound(a, from, target, t, plans)
  <2>1. PICK p \in Tables :
          /\ plan' = [plans EXCEPT ![a] =
                        [table |-> p, from |-> t, index |-> 1, target |-> target]]
          /\ drive' = [drive EXCEPT ![a] = [table |-> p, from |-> t, index |-> 1]]
    BY <1>2 DEF RouteFound
  <2> DEFINE new == [table |-> p, from |-> t, index |-> 1, target |-> target]
  <2> DEFINE ride == [table |-> p, from |-> t, index |-> 1]
  <2>2. new \in Plans /\ new.index < Len(new.table)
    BY TablesAssumption DEF Plans, Timely
  <2>3. ride \in Drives /\ ride.index < Len(ride.table)
    BY TablesAssumption DEF Drives, Timely
  <2> HIDE DEF new, ride
  <2>4. plan' = [plans EXCEPT ![a] = new] /\ drive' = [drive EXCEPT ![a] = ride]
    BY <2>1 DEF new, ride
  <2>5. /\ plan' \in [Agvs -> Plans \cup {NONE}]
        /\ \A b \in Agvs : plan'[b] # NONE => plan'[b].index < Len(plan'[b].table)
    BY <2>2, <2>4
  <2>6. /\ drive' \in [Agvs -> Drives \cup {NONE}]
        /\ \A b \in Agvs : drive'[b] # NONE => drive'[b].index < Len(drive'[b].table)
        /\ \A b \in Agvs \ {a} : drive'[b] = drive[b]
    BY <2>3, <2>4 DEF TypeOK, PlanAhead
  <2>7. QED
    BY <1>2, <2>5, <2>6 DEF RouteFound, TypeOK, PlanAhead
<1>3. CASE RouteFailed(a, from, target, t, plans)
  <2>1. [target |-> target, timer |-> Penalty] \in Retries
    BY TimesAssumption DEF Retries
  <2>2. QED
    BY <1>3, <2>1 DEF RouteFailed, TypeOK, PlanAhead
<1>4. QED
  BY <1>1, <1>2, <1>3 DEF CreateRoute

(* A plan and the time at which its successor starts.                      *)
LEMMA NextStartType ==
  ASSUME TypeOK, NEW a \in Agvs, plan[a] # NONE
  PROVE  /\ plan[a] \in Plans /\ plan[a].target \in Nodes
         /\ NextStart(a) \in Int
<1>1. plan[a] \in Plans
  BY DEF TypeOK
<1>2. plan[a].target \in Nodes /\ plan[a].table \in Tables /\ plan[a].from \in Int
  BY <1>1 DEF Plans
<1>3. plan[a].table \in Seq(Steps) /\ Len(plan[a].table) >= 2
  BY <1>2, TablesAssumption DEF Timely
<1>4. plan[a].table[Len(plan[a].table)] \in Steps
  BY <1>3
<1>5. QED
  BY <1>1, <1>2, <1>4 DEF NextStart, TypeOK, Steps

(* The step that a robot drives towards.                                   *)
LEMMA AheadType ==
  ASSUME TypeOK, PlanAhead, NEW a \in Agvs, drive[a] # NONE
  PROVE  /\ drive[a] \in Drives /\ drive[a].index \in Nat \ {0}
         /\ drive[a].table \in Tables /\ drive[a].from \in Int
         /\ Len(drive[a].table) \in Nat /\ drive[a].index < Len(drive[a].table)
         /\ Ahead(a) \in Steps /\ Ahead(a).node \in Nodes
<1>1. /\ drive[a] \in Drives /\ drive[a].index \in Nat \ {0}
      /\ drive[a].table \in Tables /\ drive[a].from \in Int
      /\ drive[a].index < Len(drive[a].table)
  BY DEF TypeOK, PlanAhead, Drives
<1>2. drive[a].table \in Seq(Steps) /\ Len(drive[a].table) \in Nat
  BY <1>1, TablesAssumption DEF Timely
<1>3. Ahead(a) \in Steps
  BY <1>1, <1>2 DEF Ahead
<1>4. QED
  BY <1>1, <1>2, <1>3 DEF Steps

(* What a callback leaves of the event in hand.                            *)
LEMMA CallType ==
  ASSUME TypeOK, NEW a \in Agvs, Call(a)
  PROVE  /\ inHand \in Calls /\ inHand.node \in Nodes
         /\ inHand' \in Calls \cup {NONE}
         /\ inHand' # NONE => inHand'.agv = inHand.agv /\ inHand'.node = inHand.node
<1>1. inHand \in Calls
  BY DEF Call, TypeOK
<1>2. CASE inHand.calls = 1
  BY <1>1, <1>2 DEF Call, Calls
<1>3. CASE inHand.calls # 1
  <2> DEFINE left == [inHand EXCEPT !.calls = @ - 1]
  <2>1. inHand.calls \in Nat \ {0}
    BY <1>1 DEF Calls
  <2>2. left \in Calls /\ left.agv = inHand.agv /\ left.node = inHand.node
    BY <1>1, <1>3, <2>1 DEF Calls
  <2>3. inHand' = left
    BY <1>3 DEF Call
  <2> HIDE DEF left
  <2>4. QED
    BY <1>1, <2>2, <2>3 DEF Calls
<1>4. QED
  BY <1>2, <1>3

LEMMA InvInit == Init => IInv
<1> SUFFICES ASSUME Init PROVE IInv
  OBVIOUS
<1>1. ASSUME NEW e \in ledger PROVE e \in Entries /\ e.checked = FALSE
  <2>1. PICK a \in Agvs : e = Entry(Home[a], a, 0, SpawnHold, "Goal", FALSE)
    BY DEF Init
  <2>2. Home[a] \in Nodes /\ SpawnHold \in Int
    BY HomeAssumption, TimesAssumption
  <2>3. QED
    BY <2>1, <2>2 DEF Entry, Entries
<1>2. TypeOK
  <2>1. ledger \subseteq Entries
    BY <1>1
  <2>2. requests \in 0..MaxRequests /\ viewers \in 1..MaxViewers
    BY TimesAssumption DEF Init
  <2>3. QED
    BY <2>1, <2>2, HomeAssumption DEF Init, TypeOK
<1>3. BookingsApart
  BY <1>1 DEF BookingsApart
<1>4. DueArePending /\ PlanAhead /\ HandEmpty
  BY DEF Init, DueArePending, PlanAhead, HandEmpty
<1>5. QED
  BY <1>2, <1>3, <1>4 DEF IInv

(* A step that calls CreateRoute and leaves the frame as it is.            *)
LEMMA CreateRouteInv ==
  ASSUME IInv, NEW a \in Agvs, NEW from \in Nodes, NEW target \in Nodes,
         NEW t \in Int, NEW plans \in [Agvs -> Plans \cup {NONE}],
         \A b \in Agvs : plans[b] # NONE => plans[b].index < Len(plans[b].table),
         CreateRoute(a, from, target, t, plans),
         curNode' \in [Agvs -> Nodes], requests' \in 0..MaxRequests,
         rerouted' \subseteq Agvs, adrift' \subseteq Agvs,
         stale' \in [Agvs -> Nodes \cup {NONE}], inHand' \in Calls \cup {NONE},
         viewers' = viewers, HandEmpty',
         now' = now, phase' = phase, due' \subseteq due, a \notin due'
  PROVE  IInv'
<1>1. ledger' \subseteq Entries /\ ApartIn(ledger')
  BY CreateRouteLedger DEF IInv, TypeOK, BookingsApart, ApartIn
<1>2. /\ plan' \in [Agvs -> Plans \cup {NONE}] /\ PlanAhead'
      /\ drive' \in [Agvs -> Drives \cup {NONE}]
      /\ pending' \in [Agvs -> Retries \cup {NONE}]
      /\ \A b \in Agvs \ {a} : pending'[b] = pending[b]
  BY CreateRouteType DEF IInv
<1>3. TypeOK'
  BY <1>1, <1>2 DEF IInv, TypeOK
<1>4. BookingsApart'
  BY <1>1 DEF BookingsApart, ApartIn
<1>5. DueArePending'
  BY <1>2 DEF IInv, TypeOK, DueArePending
<1>6. QED
  BY <1>2, <1>3, <1>4, <1>5 DEF IInv

LEMMA InvStep == IInv /\ [Next]_vars => IInv'
<1> SUFFICES ASSUME IInv, [Next]_vars PROVE IInv'
  OBVIOUS
<1>0. TypeOK /\ DueArePending /\ PlanAhead /\ HandEmpty /\ BookingsApart
  BY DEF IInv
<1>1. CASE Update
  <2>1. ASSUME NEW a \in Waiting
        PROVE  pending'[a] \in Retries
    <3>1. pending[a] \in Retries /\ a \in Agvs
      BY <1>0 DEF TypeOK, Waiting
    <3>2. [pending[a] EXCEPT !.timer = @ - 1] \in Retries
      BY <3>1 DEF Retries
    <3>3. pending'[a] = [pending[a] EXCEPT !.timer = @ - 1]
      BY <1>1, <2>1, <3>1 DEF Update
    <3>4. QED
      BY <3>2, <3>3
  <2>2. pending' \in [Agvs -> Retries \cup {NONE}]
    BY <1>1, <2>1 DEF Update
  <2>3. TypeOK'
    BY <1>0, <1>1, <2>2 DEF TypeOK, Update, Waiting, robotVars, history
  <2>4. DueArePending'
    BY <1>1, <2>1, NoneAssumption DEF DueArePending, Update
  <2>5. PlanAhead' /\ HandEmpty' /\ BookingsApart'
    BY <1>0, <1>1 DEF PlanAhead, HandEmpty, BookingsApart, Update, robotVars
  <2>6. QED
    BY <2>3, <2>4, <2>5 DEF IInv
<1>2. CASE Tick
  <2>a. viewers' \in 1..MaxViewers
    BY <1>0, <1>2, TimesAssumption DEF TypeOK, Tick
  <2>1. TypeOK'
    BY <1>0, <1>2, <2>a DEF TypeOK, Tick, planVars, robotVars, history
  <2>2. DueArePending' /\ PlanAhead' /\ HandEmpty' /\ BookingsApart'
    BY <1>0, <1>2 DEF HandEmpty, DueArePending, PlanAhead, BookingsApart, Tick, planVars, robotVars
  <2>3. QED
    BY <2>1, <2>2 DEF IInv
<1>3. ASSUME NEW a \in Agvs, Request(a) PROVE IInv'
  <2>1. PICK target \in Nodes, t \in {now - 1, now} :
          CreateRoute(a, curNode[a], target, t, plan)
    BY <1>3 DEF Request
  <2>2. /\ curNode[a] \in Nodes /\ t \in Int /\ plan \in [Agvs -> Plans \cup {NONE}]
        /\ requests' \in 0..MaxRequests /\ curNode' \in [Agvs -> Nodes]
        /\ rerouted' \subseteq Agvs /\ adrift' \subseteq Agvs
        /\ inHand' \in Calls \cup {NONE} /\ viewers' = viewers /\ HandEmpty'
    BY <1>0, <1>3, TimesAssumption DEF TypeOK, Request, HandEmpty
  <2>3. stale' \in [Agvs -> Nodes \cup {NONE}]
    BY <1>0, <1>3, AheadType DEF Request, Arrived, TypeOK
  <2>4. now' = now /\ phase' = phase /\ due' = {} /\ due' = due
    BY <1>0, <1>3 DEF Request, DueArePending
  <2>5. QED
    BY <1>0, <2>1, <2>2, <2>3, <2>4, CreateRouteInv DEF PlanAhead
<1>4. ASSUME NEW a \in Agvs, PopEvent(a) PROVE IInv'
  <2>1. /\ inHand' \in Calls
        /\ stale' \in [Agvs -> Nodes \cup {NONE}]
        /\ drive' \in [Agvs -> Drives \cup {NONE}]
        /\ \A b \in Agvs : drive'[b] # NONE => drive'[b].index < Len(drive'[b].table)
    <3>0. viewers \in Nat \ {0}
      BY <1>0 DEF TypeOK
    <3>1. CASE /\ stale[a] # NONE
               /\ inHand' = [agv |-> a, node |-> stale[a], calls |-> viewers]
               /\ stale' = [stale EXCEPT ![a] = NONE]
               /\ UNCHANGED drive
      BY <1>0, <3>0, <3>1 DEF TypeOK, Calls, PlanAhead
    <3>2. CASE /\ Arrived(a)
               /\ inHand' = [agv |-> a, node |-> Ahead(a).node, calls |-> viewers]
               /\ drive' = [drive EXCEPT ![a] = DriveOn(@)]
               /\ UNCHANGED stale
      <4>1. /\ drive[a] \in Drives /\ drive[a].index \in Nat \ {0}
            /\ drive[a].table \in Tables /\ Len(drive[a].table) \in Nat
            /\ drive[a].index < Len(drive[a].table) /\ Ahead(a).node \in Nodes
        BY <1>0, <3>2, AheadType DEF Arrived
      <4>2. inHand' \in Calls
        BY <3>0, <3>2, <4>1 DEF Calls
      <4> DEFINE on == [drive[a] EXCEPT !.index = @ + 1]
      <4>3. on \in Drives /\ on.index = drive[a].index + 1 /\ on.table = drive[a].table
        BY <4>1 DEF Drives
      <4>4. drive' = [drive EXCEPT ![a] = IF drive[a].index + 1 = Len(drive[a].table)
                                          THEN NONE ELSE on]
        BY <3>2 DEF DriveOn
      <4> HIDE DEF on
      <4>5. drive[a].index + 1 # Len(drive[a].table) => on.index < Len(on.table)
        BY <4>1, <4>3
      <4>6. /\ drive' \in [Agvs -> Drives \cup {NONE}]
            /\ \A b \in Agvs : drive'[b] # NONE => drive'[b].index < Len(drive'[b].table)
        BY <1>0, <4>3, <4>4, <4>5 DEF TypeOK, PlanAhead
      <4>7. QED
        BY <1>0, <3>2, <4>2, <4>6 DEF TypeOK
    <3>3. QED
      BY <1>4, <3>1, <3>2 DEF PopEvent
  <2>2. TypeOK'
    BY <1>0, <1>4, <2>1 DEF TypeOK, PopEvent, planVars, history
  <2>3. DueArePending' /\ PlanAhead' /\ HandEmpty' /\ BookingsApart'
    BY <1>0, <1>4, <2>1 DEF DueArePending, PlanAhead, BookingsApart, PopEvent, planVars, HandEmpty
  <2>4. QED
    BY <2>2, <2>3 DEF IInv
<1>5. ASSUME NEW a \in Agvs, StepCompleted(a), UNCHANGED <<ledger, pending, drive, adrift>>,
             \/ ~PlanExhausted(plan[a]) /\ plan' = [plan EXCEPT ![a].index = @ + 1]
             \/ plan' = [plan EXCEPT ![a] = NONE]
      PROVE  IInv'
  <2>1. plan[a] \in Plans /\ inHand.node \in Nodes /\ inHand' \in Calls \cup {NONE}
    BY <1>0, <1>5, NextStartType, CallType DEF StepCompleted
  <2>2. /\ plan' \in [Agvs -> Plans \cup {NONE}]
        /\ \A b \in Agvs : plan'[b] # NONE => plan'[b].index < Len(plan'[b].table)
    <3>1. CASE ~PlanExhausted(plan[a]) /\ plan' = [plan EXCEPT ![a].index = @ + 1]
      <4> DEFINE new == [plan[a] EXCEPT !.index = @ + 1]
      <4>1. /\ plan[a].index \in Nat \ {0} /\ plan[a].table \in Tables
            /\ Len(plan[a].table) \in Nat
        BY <2>1, TablesAssumption DEF Plans, Timely
      <4>2. new \in Plans /\ new.index = plan[a].index + 1 /\ new.table = plan[a].table
        BY <2>1, <4>1 DEF Plans
      <4>3. new.index < Len(new.table)
        BY <3>1, <4>1, <4>2 DEF PlanExhausted
      <4>4. plan' = [plan EXCEPT ![a] = new]
        BY <3>1
      <4> HIDE DEF new
      <4>5. QED
        BY <1>0, <4>2, <4>3, <4>4 DEF PlanAhead, TypeOK
    <3>2. CASE plan' = [plan EXCEPT ![a] = NONE]
      BY <1>0, <3>2 DEF PlanAhead, TypeOK
    <3>3. QED
      BY <1>5, <3>1, <3>2
  <2>3. TypeOK'
    BY <1>0, <1>5, <2>1, <2>2 DEF TypeOK, StepCompleted, Call
  <2>4. DueArePending' /\ PlanAhead' /\ HandEmpty' /\ BookingsApart'
    BY <1>0, <1>5, <2>2 DEF HandEmpty, DueArePending, PlanAhead, BookingsApart, StepCompleted, Call
  <2>5. QED
    BY <2>3, <2>4 DEF IInv
<1>6. ASSUME NEW a \in Agvs, ReachWindowEnd(a) PROVE IInv'
  <2> DEFINE plans == [plan EXCEPT ![a] = NONE]
  <2>1. /\ plan[a].target \in Nodes /\ inHand.node \in Nodes /\ NextStart(a) \in Int
        /\ inHand' \in Calls \cup {NONE}
    BY <1>0, <1>6, NextStartType, CallType DEF ReachWindowEnd, StepCompleted
  <2>2. CreateRoute(a, inHand.node, plan[a].target, NextStart(a), plans)
    BY <1>6 DEF ReachWindowEnd
  <2>3. /\ plans \in [Agvs -> Plans \cup {NONE}]
        /\ \A b \in Agvs : plans[b] # NONE => plans[b].index < Len(plans[b].table)
    BY <1>0 DEF TypeOK, PlanAhead
  <2>4. /\ curNode' \in [Agvs -> Nodes] /\ requests' \in 0..MaxRequests
        /\ rerouted' \subseteq Agvs /\ adrift' \subseteq Agvs
        /\ stale' \in [Agvs -> Nodes \cup {NONE}] /\ viewers' = viewers
        /\ now' = now /\ phase' = phase /\ due' = due
    BY <1>0, <1>6, <2>1 DEF ReachWindowEnd, StepCompleted, Call, TypeOK
  <2> HIDE DEF plans
  <2>5. a \notin due' /\ HandEmpty'
    BY <1>0, <1>6, <2>4 DEF ReachWindowEnd, StepCompleted, Call, DueArePending, HandEmpty
  <2>6. QED
    BY <2>1, <2>2, <2>3, <2>4, <2>5, CreateRouteInv
<1>7. ASSUME NEW a \in Agvs, Retry(a) PROVE IInv'
  <2>1. pending[a] \in Retries
    BY <1>0, <1>7 DEF Retry, DueArePending, TypeOK
  <2>2. /\ pending[a].target \in Nodes /\ curNode[a] \in Nodes /\ now \in Int
        /\ plan \in [Agvs -> Plans \cup {NONE}]
        /\ requests' \in 0..MaxRequests /\ curNode' \in [Agvs -> Nodes]
        /\ rerouted' \subseteq Agvs /\ adrift' \subseteq Agvs
        /\ stale' \in [Agvs -> Nodes \cup {NONE}] /\ viewers' = viewers
        /\ inHand' \in Calls \cup {NONE} /\ HandEmpty'
    BY <1>0, <1>7, <2>1 DEF TypeOK, Retry, Retries, history, HandEmpty
  <2>3. /\ CreateRoute(a, curNode[a], pending[a].target, now, plan)
        /\ now' = now /\ phase' = phase /\ due' \subseteq due /\ a \notin due'
    BY <1>7 DEF Retry
  <2>4. QED
    BY <1>0, <2>2, <2>3, CreateRouteInv DEF PlanAhead
<1>8. ASSUME NEW a \in Agvs, IgnoreStep(a) PROVE IInv'
  <2>1. inHand' \in Calls \cup {NONE}
    BY <1>0, <1>8, CallType DEF IgnoreStep
  <2>2. TypeOK'
    BY <1>0, <1>8, <2>1 DEF TypeOK, IgnoreStep, Call, planVars
  <2>3. DueArePending' /\ PlanAhead' /\ HandEmpty' /\ BookingsApart'
    BY <1>0, <1>8
       DEF HandEmpty, DueArePending, PlanAhead, BookingsApart, IgnoreStep, Call, planVars
  <2>4. QED
    BY <2>2, <2>3 DEF IInv
<1>9. CASE UNCHANGED vars
  BY <1>0, <1>9
     DEF vars, planVars, robotVars, history, IInv, TypeOK, DueArePending, PlanAhead,
         HandEmpty, BookingsApart
<1>10. ASSUME NEW a \in Agvs, StepOn(a) \/ ReachTarget(a) PROVE IInv'
  BY <1>5, <1>10 DEF StepOn, ReachTarget
<1>11. QED
  BY <1>1, <1>2, <1>3, <1>4, <1>6, <1>7, <1>8, <1>9, <1>10 DEF Next

-----------------------------------------------------------------------------
(* Search and transaction.                                                 *)

(* Of a table that FindPath returned, the transaction finds every edge and *)
(* every node behind the start free.                                       *)
LEMMA FoundIsFree ==
  ASSUME ledger \subseteq Entries, NEW a \in Agvs, NEW p \in Tables,
         NEW from \in Nodes, NEW target \in Nodes, NEW t \in Int,
         Found(ledger, a, p, from, target, t)
  PROVE  /\ \A i \in 2..Len(p) :
              IsFree(ledger, p[i].node, Arr(p, i, t), Leave(p, i, t, target), a)
         /\ \A i \in Links(p) :
              IsFree(ledger, LinkEdge(p, i), Dep(p, i, t), LinkLeave(p, i, t), a)
<1>0. /\ p \in Seq(Steps) /\ Len(p) \in Nat /\ Len(p) >= 2
      /\ \A i \in 1..Len(p) : p[i].arr <= p[i].dep
      /\ Clearance \in Int /\ Horizon \in Int
  <2>1. Clearance \in Int /\ Horizon \in Int
    BY TimesAssumption DEF Horizon
  <2>2. QED
    BY <2>1, TablesAssumption DEF Timely
<1>1. ASSUME NEW i \in 2..Len(p)
      PROVE  IsFree(ledger, p[i].node, Arr(p, i, t), Leave(p, i, t, target), a)
  <2> DEFINE stay == IF p[i].node = target THEN Horizon ELSE Clearance
  <2>1. i \in 1..Len(p) /\ i - 1 \in Links(p) /\ (i - 1) + 1 = i
    BY <1>0 DEF Links
  <2>2. IsFree(ledger, p[i].node, Arr(p, i, t), Arr(p, i, t) + stay, a)
    BY <2>1 DEF Found
  <2>3. p[i].arr < p[i].dep =>
          IsFree(ledger, p[i].node, Arr(p, i, t), Dep(p, i, t) + Clearance, a)
    BY <2>1 DEF Found
  <2>4. p[i].arr \in Int /\ p[i].dep \in Int /\ p[i].arr <= p[i].dep
    <3>1. p[i] \in Steps
      BY <1>0, <2>1
    <3>2. p[i].arr <= p[i].dep
      BY <1>0, <2>1
    <3>3. QED
      BY <3>1, <3>2 DEF Steps
  <2>5. CASE p[i].node = target
    BY <2>2, <2>5 DEF Leave
  <2>6. CASE p[i].node # target /\ p[i].arr < p[i].dep
    BY <2>3, <2>6 DEF Leave
  <2>7. CASE p[i].node # target /\ p[i].arr = p[i].dep
    BY <2>2, <2>7 DEF Leave, Arr, Dep
  <2>8. QED
    BY <2>4, <2>5, <2>6, <2>7
<1>2. ASSUME NEW i \in Links(p)
      PROVE  IsFree(ledger, LinkEdge(p, i), Dep(p, i, t), LinkLeave(p, i, t), a)
  BY DEF Found
<1>3. QED
  BY <1>1, <1>2

(* If the transaction refuses the table, then over the start node.         *)
LEMMA RefusedOverStart ==
  ASSUME TypeOK, NEW a \in Agvs, NEW p \in Tables, NEW target \in Nodes,
         Found(ledger, a, p, curNode[a], target, now), ~PathFree(a, p, target, now)
  PROVE  ~IsFree(ledger, curNode[a], now, Leave(p, 1, now, target), a)
<1>1. ledger \subseteq Entries /\ curNode[a] \in Nodes /\ now \in Int
  BY DEF TypeOK
<1>2. /\ \A i \in 2..Len(p) :
           IsFree(ledger, p[i].node, Arr(p, i, now), Leave(p, i, now, target), a)
      /\ \A i \in Links(p) :
           IsFree(ledger, LinkEdge(p, i), Dep(p, i, now), LinkLeave(p, i, now), a)
  BY <1>1, FoundIsFree
<1>3. PICK i \in 1..Len(p) :
        ~IsFree(ledger, p[i].node, Arr(p, i, now), Leave(p, i, now, target), a)
  BY <1>2 DEF PathFree
<1>4. i = 1
  BY <1>2, <1>3, TableTypes, <1>1
<1>5. p[1].node = curNode[a] /\ Arr(p, 1, now) = now
  BY <1>1, TablesAssumption DEF Found, Arr, Timely
<1>6. QED
  BY <1>3, <1>4, <1>5

-----------------------------------------------------------------------------
(* What an AGV may rely on that the planner has kept track of.             *)

(* The entry the transaction writes for step i, and for the link after it. *)
NodeEntry(a, p, target, t, i) ==
  Entry(p[i].node, a, Arr(p, i, t), Leave(p, i, t, target),
        IF p[i].node = target THEN "Goal" ELSE "Normal", TRUE)
EdgeEntry(a, p, t, i) ==
  Entry(LinkEdge(p, i), a, Dep(p, i, t), LinkLeave(p, i, t), "Normal", TRUE)

(* The moment at which the plan of a is driven to its end.                 *)
LastArr(a) == Arr(plan[a].table, Len(plan[a].table), plan[a].from)

(* Node n is booked for a at moment x.                                     *)
Covered(L, a, n, x) ==
  \E e \in L : e.at = n /\ e.agv = a /\ e.start <= x /\ x < e.end

(* An AGV that waits for a retry has no plan.                              *)
OnePurpose(a) == pending[a] # NONE => plan[a] = NONE

(* An AGV without a plan has booked no edge since the last frame, one with *)
(* a plan nothing beyond the end of it.                                    *)
BookedSoFar(a) ==
  \A e \in ledger : e.agv = a =>
    /\ plan[a] = NONE /\ e.at \in Edges => e.start + 1 < now
    /\ plan[a] # NONE =>
         LET p == plan[a].table IN
         /\ \/ e.start < LastArr(a)
            \/ e = NodeEntry(a, p, plan[a].target, plan[a].from, Len(p))
         /\ e.at \in Edges => e.start < LastArr(a)

(* The whole plan stands in the ledger, but for the entry of its start,    *)
(* which may have been skipped.                                            *)
PlanBooked(a) ==
  plan[a] # NONE =>
    LET p == plan[a].table IN
    /\ \A i \in 2..Len(p) :
         NodeEntry(a, p, plan[a].target, plan[a].from, i) \in ledger
    /\ \A i \in Links(p) : EdgeEntry(a, p, plan[a].from, i) \in ledger

(* The last moment at which the next retry of a may come.                  *)
NextRetry(a) == now + pending[a].timer - (IF phase = "events" THEN 1 ELSE 0)

(* An AGV that waits for a retry has its node until then.                  *)
Footing(a) ==
  pending[a] # NONE /\ plan[a] = NONE =>
    /\ phase = "events" \/ a \notin due => pending[a].timer >= 1
    /\ \A x \in Int : x = now \/ (now <= x /\ x <= NextRetry(a)) =>
         Covered(ledger, a, curNode[a], x)

(* If an entry on the node of an AGV without a plan makes ReserveNode skip *)
(* a hold, then the node is booked for the time until the retry anyway.    *)
NoShortHold(a) ==
  plan[a] = NONE =>
    \A f \in ledger :
      f.agv = a /\ f.at = curNode[a] /\ f.type = "Normal" /\ f.start + 1 >= now =>
        \A x \in Int : now <= x /\ f.start <= x /\ x <= f.start + Penalty =>
          Covered(ledger, a, curNode[a], x)

(* An event that is in hand for a.                                         *)
InHandOf(a) == inHand # NONE /\ inHand.agv = a

(* The robot drives by the table of the plan in force, and what it reports *)
(* is the step that it has driven last: the target only at the end of the  *)
(* table, and not before it was to be there.                               *)
Aligned(a) ==
  /\ stale[a] = NONE
  /\ plan[a] = NONE => drive[a] = NONE
  /\ plan[a] # NONE =>
       LET p == plan[a].table IN
       /\ \A i \in Links(p) : p[i].node # plan[a].target
       /\ drive[a] # NONE => drive[a].table = p /\ drive[a].from = plan[a].from
       /\ InHandOf(a) =>
            IF drive[a] # NONE THEN inHand.node = p[drive[a].index].node
            ELSE inHand.node = p[Len(p)].node /\ LastArr(a) < now

Kept(a) ==
  /\ OnePurpose(a) /\ BookedSoFar(a) /\ PlanBooked(a)
  /\ Footing(a) /\ NoShortHold(a) /\ Aligned(a)

(* No goal is as short as the clearance: what an override leaves of a goal *)
(* that it cuts is none.                                                   *)
GoalsLong ==
  \A e \in ledger : e.type = "Goal" => e.end > e.start + Clearance

KInv == IInv /\ GoalsLong /\ \A a \in Undisturbed : Kept(a)

(* What an override leaves of the own entries.                             *)
LEMMA OverrideOwn ==
  ASSUME NEW L, L \subseteq Entries, NEW a \in Agvs, NEW c \in Int,
         NEW x \in OverrideFutureReservations(L, a, c), x.agv = a
  PROVE  /\ x \in Entries /\ x.start <= c /\ x.end <= c
         /\ \E e \in L : /\ e.agv = a /\ x.at = e.at /\ x.start = e.start
                         /\ x = e \/ x.type = "Normal"
<1>1. PICK e \in {f \in L : f.agv = a /\ f.start <= c} : x = CutAt(e, c)
  BY DEF OverrideFutureReservations
<1>2. x \in Entries /\ x.at = e.at /\ x.start = e.start
  BY <1>1, CutShrinks
<1>3. e.start \in Int /\ e.end \in Int
  BY DEF Entries
<1>4. CASE e.end > c
  <2> DEFINE d == [e EXCEPT !.end = c]
  <2>1. x = [d EXCEPT !.type = "Normal"]
    BY <1>1, <1>4 DEF CutAt
  <2>2. d \in Entries /\ d.end = c
    BY DEF Entries
  <2> HIDE DEF d
  <2>3. x.type = "Normal" /\ x.end = c
    BY <2>1, <2>2 DEF Entries
  <2>4. QED
    BY <1>1, <1>2, <2>3
<1>5. CASE ~(e.end > c)
  BY <1>1, <1>2, <1>3, <1>5 DEF CutAt
<1>6. QED
  BY <1>4, <1>5

(* CreateRoute for a leaves the entries of the others as they are.         *)
LEMMA OthersEntries ==
  ASSUME ledger \subseteq Entries, NEW a \in Agvs, NEW from \in Nodes,
         NEW target \in Nodes, NEW t \in Int, NEW plans,
         CreateRoute(a, from, target, t, plans)
  PROVE  \A e : e.agv # a => (e \in ledger' <=> e \in ledger)
<1> DEFINE cut == OverrideFutureReservations(ledger, a, t + Clearance)
<1>0. t + Clearance \in Int
  BY TimesAssumption
<1>1. \A e : e.agv # a => (e \in cut <=> e \in ledger)
  BY <1>0, OverrideShrinks DEF OverrideFutureReservations
<1>2. CASE AlreadyThere(a, from, target, t, plans)
  <2> DEFINE h == Entry(from, a, t, t + Horizon, "Goal", FALSE)
  <2>1. ledger' = Reserve(cut, {h}) /\ h.agv = a
    BY <1>2 DEF AlreadyThere, Entry
  <2>2. QED
    BY <1>1, <2>1 DEF Reserve
<1>3. CASE RouteFound(a, from, target, t, plans)
  <2>1. PICK p \in Tables : TryReservePathTransaction(a, p, target, t)
    BY <1>3 DEF RouteFound
  <2>2. /\ ledger' = Reserve(cut, PathEntries(a, p, target, t))
        /\ \A e \in PathEntries(a, p, target, t) : e.agv = a
    BY <2>1, PathEntriesFree DEF TryReservePathTransaction
  <2>3. QED
    BY <1>1, <2>2 DEF Reserve
<1>4. CASE RouteFailed(a, from, target, t, plans)
  <2> DEFINE h == Entry(from, a, t, t + Penalty + Grace, "Normal", FALSE)
  <2>1. ledger' = Reserve(ledger, {h}) /\ h.agv = a
    BY <1>4 DEF RouteFailed, Entry
  <2>2. QED
    BY <2>1 DEF Reserve
<1>5. QED
  BY <1>2, <1>3, <1>4 DEF CreateRoute

(* A step that leaves AGV b and its entries alone.                         *)
LEMMA OthersKept ==
  ASSUME NEW b \in Agvs, Kept(b),
         plan'[b] = plan[b], pending'[b] = pending[b], curNode'[b] = curNode[b],
         \A e : e.agv = b => (e \in ledger' <=> e \in ledger),
         drive'[b] = drive[b], stale'[b] = stale[b],
         InHandOf(b)' => InHandOf(b) /\ inHand'.node = inHand.node,
         now' = now, phase' = phase, b \in due' <=> b \in due
  PROVE  Kept(b)'
<1>1. OnePurpose(b)'
  BY DEF Kept, OnePurpose
<1>0. LastArr(b)' = LastArr(b)
  BY DEF LastArr, Arr
<1>2. BookedSoFar(b)'
  BY <1>0 DEF Kept, BookedSoFar
<1>3. PlanBooked(b)'
  <2>1. \A p, target, t, i : /\ NodeEntry(b, p, target, t, i).agv = b
                             /\ EdgeEntry(b, p, t, i).agv = b
    BY DEF NodeEntry, EdgeEntry, Entry
  <2>2. QED
    BY <2>1 DEF Kept, PlanBooked
<1>4. \A n, x : Covered(ledger, b, n, x) => Covered(ledger', b, n, x)
  BY DEF Covered
<1>5. Footing(b)'
  <2>1. NextRetry(b)' = NextRetry(b)
    BY DEF NextRetry
  <2>2. QED
    BY <1>4, <2>1 DEF Kept, Footing
<1>6. NoShortHold(b)'
  BY <1>4 DEF Kept, NoShortHold
<1>7. Aligned(b)'
  BY <1>0 DEF Kept, Aligned
<1>8. QED
  BY <1>1, <1>2, <1>3, <1>5, <1>6, <1>7 DEF Kept

(* The order of a table's times.                                           *)
LEMMA TableOrder ==
  ASSUME NEW p \in Tables, NEW t \in Int
  PROVE  /\ \A i \in 2..Len(p) : t + Clearance < Arr(p, i, t)
         /\ \A i \in 1..Len(p) : i < Len(p) => Arr(p, i, t) < Arr(p, Len(p), t)
         /\ \A i \in Links(p) : t <= Dep(p, i, t) /\ Dep(p, i, t) < Arr(p, Len(p), t)
<1>1. /\ p \in Seq(Steps) /\ Len(p) \in Nat /\ Len(p) >= 2 /\ p[1].arr = 0
      /\ \A i \in 1..Len(p) : p[i].arr <= p[i].dep
      /\ \A i, j \in 1..Len(p) : i < j => p[i].dep + Clearance < p[j].arr
      /\ Clearance \in Nat
  <2>1. Clearance \in Nat
    BY TimesAssumption
  <2>2. QED
    BY <2>1, TablesAssumption DEF Timely
<1>2. \A i \in 1..Len(p) : p[i].arr \in Nat /\ p[i].dep \in Nat
  <2>1. \A i \in 1..Len(p) : p[i] \in Steps
    BY <1>1
  <2>2. QED
    BY <2>1 DEF Steps
<1>3. 1 \in 1..Len(p) /\ Len(p) \in 1..Len(p)
  BY <1>1
<1>4. ASSUME NEW i \in 2..Len(p) PROVE t + Clearance < Arr(p, i, t)
  <2>1. i \in 1..Len(p) /\ 1 < i
    BY <1>1
  <2>2. p[1].dep + Clearance < p[i].arr /\ 0 <= p[1].dep
    BY <1>1, <1>2, <1>3, <2>1
  <2>3. QED
    BY <1>1, <1>2, <1>3, <2>1, <2>2 DEF Arr
<1>5. ASSUME NEW i \in 1..Len(p), i < Len(p) PROVE Arr(p, i, t) < Arr(p, Len(p), t)
  <2>1. p[i].dep + Clearance < p[Len(p)].arr /\ p[i].arr <= p[i].dep
    BY <1>1, <1>3, <1>5
  <2>2. p[i].arr \in Nat /\ p[i].dep \in Nat /\ p[Len(p)].arr \in Nat
    BY <1>2, <1>3
  <2>3. Clearance \in Nat
    BY <1>1
  <2>4. p[i].arr < p[Len(p)].arr
    BY <2>1, <2>2, <2>3
  <2>5. QED
    BY <2>2, <2>4 DEF Arr
<1>6. ASSUME NEW i \in Links(p)
      PROVE  t <= Dep(p, i, t) /\ Dep(p, i, t) < Arr(p, Len(p), t)
  <2>1. i \in 1..Len(p) /\ i < Len(p)
    BY <1>1 DEF Links
  <2>2. p[i].dep + Clearance < p[Len(p)].arr
    BY <1>1, <1>3, <2>1
  <2>3. p[i].dep \in Nat /\ p[Len(p)].arr \in Nat /\ Clearance \in Nat
    BY <1>1, <1>2, <1>3, <2>1
  <2>4. p[i].dep < p[Len(p)].arr
    BY <2>2, <2>3
  <2>5. t <= t + p[i].dep /\ t + p[i].dep < t + p[Len(p)].arr
    BY <2>3, <2>4
  <2>6. QED
    BY <2>5 DEF Arr, Dep
<1>7. QED
  BY <1>4, <1>5, <1>6

(* The entries that the transaction writes, and their fields.              *)
LEMMA NodeEntryFields ==
  ASSUME NEW a \in Agvs, NEW p \in Tables, NEW target \in Nodes, NEW t \in Int,
         NEW i \in 1..Len(p), NEW e, e = NodeEntry(a, p, target, t, i)
  PROVE  /\ e \in PathEntries(a, p, target, t)
         /\ e.at = p[i].node /\ e.at \in Nodes /\ e.agv = a
         /\ e.start = Arr(p, i, t) /\ e.end = Leave(p, i, t, target)
         /\ e.type = (IF p[i].node = target THEN "Goal" ELSE "Normal")
<1>1. p[i].node \in Nodes
  BY TableTypes
<1>2. e \in PathEntries(a, p, target, t)
  BY DEF NodeEntry, PathEntries
<1>3. QED
  BY <1>1, <1>2 DEF NodeEntry, Entry

LEMMA EdgeEntryFields ==
  ASSUME NEW a \in Agvs, NEW p \in Tables, NEW target \in Nodes, NEW t \in Int,
         NEW i \in Links(p), NEW e, e = EdgeEntry(a, p, t, i)
  PROVE  /\ e \in PathEntries(a, p, target, t)
         /\ e.at = LinkEdge(p, i) /\ e.at \in Edges /\ e.agv = a
         /\ e.start = Dep(p, i, t) /\ e.type = "Normal"
<1>1. LinkEdge(p, i) \in Edges
  BY TableTypes
<1>2. e \in PathEntries(a, p, target, t)
  BY DEF EdgeEntry, PathEntries
<1>3. QED
  BY <1>1, <1>2 DEF EdgeEntry, Entry

LEMMA TransactionEntries ==
  ASSUME NEW a \in Agvs, NEW p \in Tables, NEW target \in Nodes, NEW t \in Int,
         NEW e \in PathEntries(a, p, target, t)
  PROVE  /\ e.agv = a
         /\ \/ \E i \in 1..Len(p) : e = NodeEntry(a, p, target, t, i)
            \/ \E i \in Links(p) : e = EdgeEntry(a, p, t, i)
<1>1. \/ \E i \in 1..Len(p) : e = NodeEntry(a, p, target, t, i)
      \/ \E i \in Links(p) : e = EdgeEntry(a, p, t, i)
  BY DEF PathEntries, NodeEntry, EdgeEntry
<1>2. QED
  BY <1>1 DEF NodeEntry, EdgeEntry, Entry

(* A transaction whose AGV has booked no edge from t on writes every entry *)
(* but perhaps that of the start: what the override leaves of the AGV's    *)
(* own starts no later than the clearance, and no node behind the start is *)
(* reached by then.                                                        *)
LEMMA TransactionBooks ==
  ASSUME ledger \subseteq Entries, NEW a \in Agvs, NEW p \in Tables,
         NEW target \in Nodes, NEW t \in Int,
         TryReservePathTransaction(a, p, target, t),
         \A e \in ledger : e.agv = a /\ e.at \in Edges => e.start < t
  PROVE  /\ \A i \in 2..Len(p) : NodeEntry(a, p, target, t, i) \in ledger'
         /\ \A i \in Links(p) : EdgeEntry(a, p, t, i) \in ledger'
         /\ \A e \in ledger' : e.agv = a =>
              /\ \/ e.start < Arr(p, Len(p), t)
                 \/ e = NodeEntry(a, p, target, t, Len(p))
              /\ e.at \in Edges => e.start < Arr(p, Len(p), t)
<1> DEFINE cut == OverrideFutureReservations(ledger, a, t + Clearance)
<1> DEFINE new == PathEntries(a, p, target, t)
<1>0. /\ t + Clearance \in Int /\ t <= t + Clearance
      /\ Len(p) \in Nat /\ Len(p) >= 2
      /\ \A i \in 1..Len(p) : Arr(p, i, t) \in Int /\ Dep(p, i, t) \in Int
  <2>1. t + Clearance \in Int /\ t <= t + Clearance
    BY TimesAssumption
  <2>2. QED
    BY <2>1, TableTypes
<1>1. ledger' = Reserve(cut, new)
  BY DEF TryReservePathTransaction
<1>2. \A f \in cut : f.agv = a => /\ f.start \in Int /\ f.start <= t + Clearance
                                  /\ f.at \in Edges => f.start < t
  <2>1. \A f \in cut : f.agv = a => f \in Entries /\ f.start <= t + Clearance
    BY <1>0, OverrideOwn
  <2>2. \A f \in cut : f.agv = a => (f.at \in Edges => f.start < t)
    BY <1>0, OverrideOwn
  <2>3. QED
    BY <2>1, <2>2 DEF Entries
<1> HIDE DEF cut
<1>3. ASSUME NEW i \in 2..Len(p) PROVE NodeEntry(a, p, target, t, i) \in ledger'
  <2> DEFINE e == NodeEntry(a, p, target, t, i)
  <2>1. i \in 1..Len(p)
    BY <1>0
  <2>2. e \in new /\ e.agv = a /\ e.start = Arr(p, i, t)
    BY <2>1, NodeEntryFields
  <2>3. t + Clearance < Arr(p, i, t) /\ Arr(p, i, t) \in Int
    BY <1>0, <2>1, TableOrder
  <2> HIDE DEF e
  <2>4. \A f \in cut : ~SameBooking(e, f)
    BY <1>0, <1>2, <2>2, <2>3 DEF SameBooking
  <2>5. e \in ledger'
    BY <1>1, <2>2, <2>4 DEF Reserve
  <2>6. QED
    BY <2>5 DEF e
<1>4. ASSUME NEW i \in Links(p) PROVE EdgeEntry(a, p, t, i) \in ledger'
  <2> DEFINE e == EdgeEntry(a, p, t, i)
  <2>1. e \in new /\ e.agv = a /\ e.at \in Edges /\ e.start = Dep(p, i, t)
    BY EdgeEntryFields
  <2>2. t <= Dep(p, i, t) /\ Dep(p, i, t) \in Int
    BY <1>0, TableTypes, TableOrder
  <2> HIDE DEF e
  <2>3. \A f \in cut : ~SameBooking(e, f)
    BY <1>0, <1>2, <2>1, <2>2 DEF SameBooking
  <2>4. e \in ledger'
    BY <1>1, <2>1, <2>3 DEF Reserve
  <2>5. QED
    BY <2>4 DEF e
<1>5. ASSUME NEW e \in ledger', e.agv = a
      PROVE  /\ \/ e.start < Arr(p, Len(p), t)
                \/ e = NodeEntry(a, p, target, t, Len(p))
             /\ e.at \in Edges => e.start < Arr(p, Len(p), t)
  <2>0. t + Clearance < Arr(p, Len(p), t) /\ Arr(p, Len(p), t) \in Int
    BY <1>0, TableOrder
  <2>1. CASE e \in cut
    BY <1>0, <1>2, <1>5, <2>0, <2>1
  <2>2. CASE \E i \in 1..Len(p) : e = NodeEntry(a, p, target, t, i)
    <3>1. PICK i \in 1..Len(p) : e = NodeEntry(a, p, target, t, i)
      BY <2>2
    <3>2. e.at \notin Edges /\ e.start = Arr(p, i, t)
      BY <3>1, NodeEntryFields, PlacesAssumption
    <3>3. i < Len(p) => Arr(p, i, t) < Arr(p, Len(p), t)
      BY TableOrder
    <3>4. i < Len(p) \/ i = Len(p)
      BY <1>0
    <3>5. QED
      BY <3>1, <3>2, <3>3, <3>4
  <2>3. CASE \E i \in Links(p) : e = EdgeEntry(a, p, t, i)
    <3>1. PICK i \in Links(p) : e = EdgeEntry(a, p, t, i)
      BY <2>3
    <3>2. e.start = Dep(p, i, t)
      BY <3>1, EdgeEntryFields
    <3>3. Dep(p, i, t) \in Int
      BY <1>0, TableTypes
    <3>4. Dep(p, i, t) < Arr(p, Len(p), t)
      BY TableOrder
    <3>5. QED
      BY <2>0, <3>2, <3>3, <3>4
  <2>4. e \in cut \/ e \in new
    BY <1>1, ReserveAdds
  <2>5. QED
    BY <2>1, <2>2, <2>3, <2>4, TransactionEntries
<1>6. QED
  BY <1>3, <1>4, <1>5

(* A route that was found: the plan stands in the ledger.                  *)
LEMMA FoundKept ==
  ASSUME TypeOK, NEW a \in Agvs, NEW from \in Nodes, NEW target \in Nodes,
         NEW t \in Int, NEW plans \in [Agvs -> Plans \cup {NONE}],
         RouteFound(a, from, target, t, plans), stale'[a] = NONE,
         InHandOf(a)' => inHand'.node = from,
         \A e \in ledger : e.agv = a /\ e.at \in Edges => e.start < t
  PROVE  Kept(a)'
<1>1. PICK p \in Tables :
        /\ Found(ledger, a, p, from, target, t)
        /\ TryReservePathTransaction(a, p, target, t)
        /\ plan' = [plans EXCEPT ![a] =
                      [table |-> p, from |-> t, index |-> 1, target |-> target]]
        /\ drive' = [drive EXCEPT ![a] = [table |-> p, from |-> t, index |-> 1]]
  BY DEF RouteFound
<1> DEFINE new == [table |-> p, from |-> t, index |-> 1, target |-> target]
<1> DEFINE ride == [table |-> p, from |-> t, index |-> 1]
<1>2. /\ new \in Plans /\ new.table = p /\ new.from = t /\ new.target = target
      /\ ride \in Drives /\ ride.table = p /\ ride.from = t /\ ride.index = 1
  BY DEF Plans, Drives
<1>3. plan'[a] = new /\ drive'[a] = ride
  BY <1>1 DEF TypeOK
<1> HIDE DEF new, ride
<1>4. plan'[a] # NONE /\ drive'[a] # NONE /\ pending'[a] = NONE
  BY <1>2, <1>3, NoneAssumption DEF RouteFound, TypeOK
<1>5. /\ \A i \in 2..Len(p) : NodeEntry(a, p, target, t, i) \in ledger'
      /\ \A i \in Links(p) : EdgeEntry(a, p, t, i) \in ledger'
      /\ \A e \in ledger' : e.agv = a =>
           /\ \/ e.start < Arr(p, Len(p), t)
              \/ e = NodeEntry(a, p, target, t, Len(p))
           /\ e.at \in Edges => e.start < Arr(p, Len(p), t)
  BY <1>1, TransactionBooks DEF TypeOK
<1>6. LastArr(a)' = Arr(p, Len(p), t)
  BY <1>2, <1>3 DEF LastArr, Arr
<1>7. BookedSoFar(a)'
  BY <1>2, <1>3, <1>4, <1>5, <1>6 DEF BookedSoFar
<1>8. PlanBooked(a)'
  BY <1>2, <1>3, <1>5 DEF PlanBooked
<1>9. OnePurpose(a)' /\ Footing(a)' /\ NoShortHold(a)'
  BY <1>4 DEF OnePurpose, Footing, NoShortHold
<1>10. Aligned(a)'
  <2>1. p[1].node = from /\ \A i \in Links(p) : p[i].node # target
    BY <1>1 DEF Found
  <2>2. QED
    BY <1>2, <1>3, <1>4, <2>1 DEF Aligned
<1>11. QED
  BY <1>7, <1>8, <1>9, <1>10 DEF Kept

(* An order for the node that the AGV is on: the goal is booked, because   *)
(* an entry that stands in its way would be a goal that was cut, and a cut *)
(* goal is none.                                                           *)
LEMMA ThereKept ==
  ASSUME TypeOK, GoalsLong, NEW a \in Agvs, Kept(a), plan[a] = NONE,
         NEW t \in {now - 1, now},
         NEW target \in Nodes, AlreadyThere(a, curNode[a], target, t, plan),
         stale'[a] = NONE, curNode' = curNode, now' = now
  PROVE  Kept(a)'
<1> DEFINE cut == OverrideFutureReservations(ledger, a, t + Clearance)
<1> DEFINE h == Entry(curNode[a], a, t, t + Horizon, "Goal", FALSE)
<1>0. /\ now \in Int /\ t \in Int /\ t <= now /\ t + Clearance \in Int
      /\ ledger \subseteq Entries /\ curNode[a] \in Nodes
      /\ Clearance \in Nat /\ Penalty \in Nat /\ Horizon \in Int
      /\ Clearance + Penalty < Horizon
  BY TimesAssumption DEF TypeOK, Horizon
<1>1. /\ ledger' = Reserve(cut, {h}) /\ plan'[a] = NONE /\ pending'[a] = NONE
      /\ drive' = drive
  BY DEF AlreadyThere, TypeOK
<1>2. /\ h.at = curNode[a] /\ h.agv = a /\ h.start = t /\ h.end = t + Horizon
      /\ h.type = "Goal"
  BY DEF Entry
<1> HIDE DEF h
<1>3. \A f \in cut : f.agv = a =>
        /\ f \in Entries /\ f.start <= t + Clearance /\ f.end <= t + Clearance
        /\ \E e \in ledger : /\ e.agv = a /\ f.at = e.at /\ f.start = e.start
                             /\ f = e \/ f.type = "Normal"
  BY <1>0, OverrideOwn
<1> HIDE DEF cut
<1>4. h \in ledger'
  <2>1. ASSUME NEW f \in cut, SameBooking(h, f) PROVE FALSE
    <3>1. f.agv = a /\ f.type = "Goal" /\ f.start = t
      BY <1>2, <2>1 DEF SameBooking
    <3>2. f \in ledger /\ f.end <= t + Clearance /\ f \in Entries
      BY <1>3, <3>1
    <3>3. f.end > t + Clearance
      BY <3>1, <3>2 DEF GoalsLong
    <3>4. QED
      BY <1>0, <3>2, <3>3 DEF Entries
  <2>2. QED
    BY <1>1, <2>1 DEF Reserve
<1>5. \A x \in Int : t <= x /\ x < t + Horizon => Covered(ledger', a, curNode[a], x)
  BY <1>2, <1>4 DEF Covered
<1>6. \A f \in ledger' : f.agv = a /\ f # h => f \in cut
  BY <1>1, ReserveAdds
<1>7. BookedSoFar(a)'
  <2>1. ASSUME NEW f \in ledger', f.agv = a, f.at \in Edges PROVE f.start + 1 < now
    <3>1. f # h
      BY <1>0, <1>2, <2>1, PlacesAssumption
    <3>2. PICK e \in ledger : e.agv = a /\ f.at = e.at /\ f.start = e.start
      BY <1>3, <1>6, <2>1, <3>1
    <3>3. QED
      BY <2>1, <3>2 DEF Kept, BookedSoFar
  <2>2. QED
    BY <1>1, <2>1 DEF BookedSoFar
<1>8. NoShortHold(a)'
  <2>1. ASSUME NEW f \in ledger', f.agv = a, f.type = "Normal",
               NEW x \in Int, now <= x, f.start <= x, x <= f.start + Penalty
        PROVE  Covered(ledger', a, curNode[a], x)
    <3>1. f \in cut
      BY <1>2, <1>6, <2>1
    <3>2. f.start <= t + Clearance /\ f.start \in Int
      BY <1>3, <2>1, <3>1 DEF Entries
    <3>3. t <= x /\ x < t + Horizon
      BY <1>0, <2>1, <3>2
    <3>4. QED
      BY <1>5, <3>3
  <2>2. QED
    BY <2>1 DEF NoShortHold
<1>9. OnePurpose(a)' /\ PlanBooked(a)' /\ Footing(a)'
  BY <1>1 DEF OnePurpose, PlanBooked, Footing
<1>10. Aligned(a)'
  BY <1>1 DEF Kept, Aligned
<1>11. QED
  BY <1>7, <1>8, <1>9, <1>10 DEF Kept

(* No route: the hold is written, or an entry that makes ReserveNode skip  *)
(* it keeps the node for the AGV anyway.                                   *)
LEMMA FailedKept ==
  ASSUME TypeOK, NEW a \in Agvs, NEW from \in Nodes, NEW target \in Nodes,
         NEW t \in Int, now <= t \/ (now <= t + 1 /\ phase' = "events"),
         NEW plans \in [Agvs -> Plans \cup {NONE}],
         plans[a] = NONE, RouteFailed(a, from, target, t, plans),
         curNode'[a] = from, now' = now, stale'[a] = NONE, drive[a] = NONE,
         \A e \in ledger : e.agv = a /\ e.at \in Edges => e.start + 1 < now,
         \A x \in Int : now <= x /\ x < t => Covered(ledger, a, from, x),
         \A f \in ledger :
           f.agv = a /\ f.at = from /\ f.type = "Normal" /\ f.start >= t =>
             \A x \in Int : now <= x /\ f.start <= x /\ x <= f.start + Penalty =>
               Covered(ledger, a, from, x)
  PROVE  Kept(a)'
<1> DEFINE h == Entry(from, a, t, t + Penalty + Grace, "Normal", FALSE)
<1>0. /\ now \in Int /\ ledger \subseteq Entries
      /\ Penalty \in Nat /\ Grace \in Nat /\ Penalty > 0 /\ Grace > 0
  BY TimesAssumption DEF TypeOK
<1>1. /\ ledger' = Reserve(ledger, {h}) /\ plan'[a] = NONE
      /\ pending'[a] = [target |-> target, timer |-> Penalty]
      /\ drive'[a] = NONE
  BY DEF RouteFailed, TypeOK
<1>2. /\ h.at = from /\ h.agv = a /\ h.start = t /\ h.end = t + Penalty + Grace
      /\ h.type = "Normal"
  BY DEF Entry
<1> HIDE DEF h
<1>3. \A x : Covered(ledger, a, from, x) => Covered(ledger', a, from, x)
  BY <1>1 DEF Covered, Reserve
<1>4. \A x \in Int : now <= x /\ x <= t + Penalty => Covered(ledger', a, from, x)
  <2>1. ASSUME NEW x \in Int, now <= x, t <= x, x <= t + Penalty
        PROVE  Covered(ledger', a, from, x)
    <3>1. CASE h \in ledger'
      BY <1>0, <1>2, <2>1, <3>1 DEF Covered
    <3>2. CASE h \notin ledger'
      <4>1. PICK f \in ledger : SameBooking(h, f)
        BY <1>1, <3>2 DEF Reserve
      <4>2. f.agv = a /\ f.at = from /\ f.type = "Normal" /\ f.start = t
        BY <1>2, <4>1 DEF SameBooking
      <4>3. t >= t
        OBVIOUS
      <4>4. Covered(ledger, a, from, x)
        BY <2>1, <4>2, <4>3
      <4>5. QED
        BY <1>3, <4>4
    <3>3. QED
      BY <3>1, <3>2
  <2>2. ASSUME NEW x \in Int, now <= x, x < t
        PROVE  Covered(ledger', a, from, x)
    BY <1>3, <2>2
  <2>3. QED
    BY <2>1, <2>2
<1>5. BookedSoFar(a)'
  <2>1. ASSUME NEW e \in ledger', e.agv = a, e.at \in Edges PROVE e.start + 1 < now
    <3>1. e # h
      BY <1>2, <2>1, PlacesAssumption
    <3>2. e \in ledger
      BY <1>1, <3>1, ReserveAdds
    <3>3. QED
      BY <2>1, <3>2
  <2>2. QED
    BY <1>1, <2>1 DEF BookedSoFar
<1>6. Footing(a)'
  <2>1. pending'[a].timer = Penalty
    BY <1>1
  <2>2. NextRetry(a)' <= t + Penalty /\ NextRetry(a)' \in Int /\ now <= t + Penalty
    BY <1>0, <2>1 DEF NextRetry
  <2>3. ASSUME NEW x \in Int, x = now \/ (now <= x /\ x <= NextRetry(a)')
        PROVE  Covered(ledger', a, from, x)
    <3>1. now <= x /\ x <= t + Penalty
      BY <1>0, <2>2, <2>3
    <3>2. QED
      BY <1>4, <3>1
  <2>4. QED
    BY <1>0, <2>1, <2>3 DEF Footing
<1>7. NoShortHold(a)'
  <2>1. ASSUME NEW f \in ledger', f.agv = a, f.at = from, f.type = "Normal",
               NEW x \in Int, now <= x, f.start <= x, x <= f.start + Penalty
        PROVE  Covered(ledger', a, from, x)
    <3>1. CASE f \in ledger /\ f.start >= t
      BY <1>3, <2>1, <3>1
    <3>2. CASE f = h \/ (f \in ledger /\ ~(f.start >= t))
      <4>1. f.start \in Int
        BY <1>0, <1>2, <3>2 DEF Entries
      <4>2. x <= t + Penalty
        BY <1>0, <1>2, <2>1, <3>2, <4>1
      <4>3. QED
        BY <1>4, <2>1, <4>2
    <3>3. QED
      BY <1>1, <3>1, <3>2, ReserveAdds
  <2>2. QED
    BY <2>1 DEF NoShortHold
<1>8. OnePurpose(a)' /\ PlanBooked(a)' /\ Aligned(a)'
  BY <1>1 DEF OnePurpose, PlanBooked, Aligned
<1>9. QED
  BY <1>5, <1>6, <1>7, <1>8 DEF Kept

(* CreateRoute writes long goals only, and cut goals are none.             *)
LEMMA GoalsStayLong ==
  ASSUME TypeOK, GoalsLong, NEW a \in Agvs, NEW from \in Nodes, NEW target \in Nodes,
         NEW t \in Int, NEW plans, CreateRoute(a, from, target, t, plans)
  PROVE  GoalsLong'
<1> DEFINE cut == OverrideFutureReservations(ledger, a, t + Clearance)
<1>0. /\ t + Clearance \in Int /\ ledger \subseteq Entries
      /\ Horizon \in Int /\ Clearance \in Int /\ Clearance < Horizon
  BY TimesAssumption DEF TypeOK, Horizon
<1>1. ASSUME NEW e \in cut, e.type = "Goal" PROVE e.end > e.start + Clearance
  <2>1. e.agv = a => e \in ledger
    BY <1>0, <1>1, OverrideOwn
  <2>2. e.agv # a => e \in ledger
    BY <1>0, OverrideShrinks
  <2>3. QED
    BY <1>1, <2>1, <2>2 DEF GoalsLong
<1> HIDE DEF cut
<1>2. CASE AlreadyThere(a, from, target, t, plans)
  <2> DEFINE h == Entry(from, a, t, t + Horizon, "Goal", FALSE)
  <2>1. ledger' = Reserve(cut, {h})
    BY <1>2 DEF AlreadyThere, cut
  <2>2. h.end > h.start + Clearance
    BY <1>0 DEF Entry
  <2>3. QED
    BY <1>1, <2>1, <2>2, ReserveAdds DEF GoalsLong
<1>3. CASE RouteFound(a, from, target, t, plans)
  <2>1. PICK p \in Tables : TryReservePathTransaction(a, p, target, t)
    BY <1>3 DEF RouteFound
  <2>2. ledger' = Reserve(cut, PathEntries(a, p, target, t))
    BY <2>1 DEF TryReservePathTransaction, cut
  <2>3. ASSUME NEW e \in PathEntries(a, p, target, t), e.type = "Goal"
        PROVE  e.end > e.start + Clearance
    <3>1. CASE \E i \in 1..Len(p) : e = NodeEntry(a, p, target, t, i)
      <4>1. PICK i \in 1..Len(p) : e = NodeEntry(a, p, target, t, i)
        BY <3>1
      <4>2. /\ e.start = Arr(p, i, t) /\ e.end = Leave(p, i, t, target)
            /\ e.type = (IF p[i].node = target THEN "Goal" ELSE "Normal")
        BY <4>1, NodeEntryFields
      <4>3. Arr(p, i, t) \in Int
        BY TableTypes
      <4>4. QED
        BY <1>0, <2>3, <4>2, <4>3 DEF Leave
    <3>2. CASE \E i \in Links(p) : e = EdgeEntry(a, p, t, i)
      BY <2>3, <3>2, EdgeEntryFields
    <3>3. QED
      BY <3>1, <3>2, TransactionEntries
  <2>4. QED
    BY <1>1, <2>2, <2>3, ReserveAdds DEF GoalsLong
<1>4. CASE RouteFailed(a, from, target, t, plans)
  <2> DEFINE h == Entry(from, a, t, t + Penalty + Grace, "Normal", FALSE)
  <2>1. ledger' = Reserve(ledger, {h}) /\ h.type = "Normal"
    BY <1>4 DEF RouteFailed, Entry
  <2> HIDE DEF h
  <2>2. QED
    BY <2>1, ReserveAdds DEF GoalsLong
<1>5. QED
  BY <1>2, <1>3, <1>4 DEF CreateRoute

(* A step of AGV a that calls CreateRoute: what the others may rely on.    *)
LEMMA CreateRouteOthersKept ==
  ASSUME TypeOK, NEW a \in Agvs, NEW from \in Nodes, NEW target \in Nodes,
         NEW t \in Int, NEW plans \in [Agvs -> Plans \cup {NONE}],
         CreateRoute(a, from, target, t, plans),
         NEW b \in Agvs, b # a, Kept(b), plans[b] = plan[b],
         curNode'[b] = curNode[b], stale'[b] = stale[b],
         InHandOf(b)' => InHandOf(b) /\ inHand'.node = inHand.node,
         now' = now, phase' = phase, b \in due' <=> b \in due
  PROVE  Kept(b)'
<1>1. \A e : e.agv = b => (e \in ledger' <=> e \in ledger)
  BY OthersEntries DEF TypeOK
<1>2. plan'[b] = plan[b] /\ pending'[b] = pending[b] /\ drive'[b] = drive[b]
  BY DEF CreateRoute, AlreadyThere, RouteFound, RouteFailed, TypeOK
<1>3. QED
  BY <1>1, <1>2, OthersKept

(* CreateRoute for an AGV without a plan, on the node it is on, now or as  *)
(* of the last frame.                                                      *)
LEMMA CreateRouteNowKept ==
  ASSUME TypeOK, GoalsLong, NEW a \in Agvs, Kept(a), plan[a] = NONE,
         NEW t \in {now - 1, now}, t = now \/ phase' = "events",
         NEW target \in Nodes, CreateRoute(a, curNode[a], target, t, plan),
         stale'[a] = NONE, ~InHandOf(a)', curNode' = curNode, now' = now
  PROVE  Kept(a)'
<1>0. /\ now \in Int /\ t \in Int /\ curNode[a] \in Nodes
      /\ plan \in [Agvs -> Plans \cup {NONE}]
      /\ now <= t \/ (now <= t + 1 /\ phase' = "events")
      /\ t <= now /\ now <= t + 1
  BY DEF TypeOK
<1>1. \A e \in ledger : e.agv = a /\ e.at \in Edges => e.start + 1 < now
  BY DEF Kept, BookedSoFar
<1>2. CASE AlreadyThere(a, curNode[a], target, t, plan)
  BY <1>2, ThereKept
<1>3. CASE RouteFound(a, curNode[a], target, t, plan)
  <2>1. \A e \in ledger : e.agv = a /\ e.at \in Edges => e.start < t
    BY <1>0, <1>1 DEF TypeOK, Entries
  <2>2. QED
    BY <1>0, <1>3, <2>1, FoundKept
<1>4. CASE RouteFailed(a, curNode[a], target, t, plan)
  <2>1. \A f \in ledger :
           f.agv = a /\ f.at = curNode[a] /\ f.type = "Normal" /\ f.start >= t =>
             \A x \in Int : now <= x /\ f.start <= x /\ x <= f.start + Penalty =>
               Covered(ledger, a, curNode[a], x)
    <3>1. \A f \in ledger : f.start >= t => f.start + 1 >= now
      BY <1>0 DEF TypeOK, Entries
    <3>2. QED
      BY <3>1 DEF Kept, NoShortHold
  <2>2. \A x \in Int : now <= x /\ x < t => Covered(ledger, a, curNode[a], x)
    BY <1>0
  <2>3. drive[a] = NONE
    BY DEF Kept, Aligned
  <2>4. curNode'[a] = curNode[a]
    OBVIOUS
  <2>5. QED
    BY <1>0, <1>1, <1>4, <2>1, <2>2, <2>3, <2>4, FailedKept
<1>5. QED
  BY <1>2, <1>3, <1>4 DEF CreateRoute

(* The plan of an AGV whose event is in hand, and its last entry.          *)
LEMMA LastStep ==
  ASSUME TypeOK, NEW a \in Agvs, plan[a] # NONE
  PROVE  /\ plan[a].table \in Tables /\ plan[a].from \in Int /\ plan[a].target \in Nodes
         /\ Len(plan[a].table) \in Nat /\ Len(plan[a].table) >= 2
         /\ plan[a].table[Len(plan[a].table)] \in Steps
         /\ LastArr(a) \in Int
         /\ LET e == NodeEntry(a, plan[a].table, plan[a].target, plan[a].from,
                               Len(plan[a].table))
            IN  /\ e.at = plan[a].table[Len(plan[a].table)].node /\ e.agv = a
                /\ e.start = LastArr(a)
                /\ e.end = Leave(plan[a].table, Len(plan[a].table), plan[a].from,
                                 plan[a].target)
                /\ e.type = (IF plan[a].table[Len(plan[a].table)].node = plan[a].target
                             THEN "Goal" ELSE "Normal")
<1> DEFINE p == plan[a].table
<1> DEFINE t == plan[a].from
<1> DEFINE target == plan[a].target
<1> DEFINE e == NodeEntry(a, p, target, t, Len(p))
<1>1. p \in Tables /\ t \in Int /\ target \in Nodes
  BY DEF TypeOK, Plans
<1>2. LastArr(a) = Arr(p, Len(p), t)
  BY DEF LastArr
<1> HIDE DEF p, t, target
<1>3. p \in Seq(Steps) /\ Len(p) \in Nat /\ Len(p) >= 2 /\ Len(p) \in 1..Len(p)
  BY <1>1, TablesAssumption DEF Timely
<1>4. p[Len(p)] \in Steps /\ Arr(p, Len(p), t) \in Int
  BY <1>1, <1>3, TableTypes
<1>5. /\ e.at = p[Len(p)].node /\ e.agv = a /\ e.start = Arr(p, Len(p), t)
      /\ e.end = Leave(p, Len(p), t, target)
      /\ e.type = (IF p[Len(p)].node = target THEN "Goal" ELSE "Normal")
  BY <1>1, <1>3, NodeEntryFields
<1>6. QED
  BY <1>1, <1>2, <1>3, <1>4, <1>5 DEF p, t, target

(* The target is reported only when the robot is there, and its bookings   *)
(* are all behind it then but for the goal.                                *)
LEMMA ReachTargetKept ==
  ASSUME TypeOK, PlanAhead, NEW a \in Agvs, Kept(a), ReachTarget(a)
  PROVE  Kept(a)'
<1> DEFINE p == plan[a].table
<1> DEFINE e == NodeEntry(a, p, plan[a].target, plan[a].from, Len(p))
<1>1. /\ plan[a] # NONE /\ InHandOf(a) /\ inHand.node = plan[a].target
      /\ plan'[a] = NONE /\ pending'[a] = NONE /\ ledger' = ledger /\ now' = now
      /\ drive' = drive /\ stale' = stale /\ curNode'[a] = inHand.node
  BY DEF ReachTarget, StepCompleted, Call, TypeOK, Kept, OnePurpose, InHandOf
<1>2. /\ LastArr(a) \in Int /\ now \in Int /\ Len(p) \in Nat
      /\ \A f \in ledger : f.start \in Int
  BY <1>1, LastStep DEF TypeOK, Entries
<1>3. drive[a] = NONE
  <2>1. SUFFICES ASSUME drive[a] # NONE PROVE FALSE
    OBVIOUS
  <2>2. drive[a].index \in Nat \ {0} /\ drive[a].index < Len(drive[a].table)
    BY <2>1, AheadType
  <2>3. drive[a].table = p /\ inHand.node = p[drive[a].index].node
    BY <1>1, <2>1 DEF Kept, Aligned
  <2>4. drive[a].index \in Links(p)
    BY <1>2, <2>2, <2>3 DEF Links
  <2>5. p[drive[a].index].node # plan[a].target
    BY <1>1, <2>4 DEF Kept, Aligned
  <2>6. QED
    BY <1>1, <2>3, <2>5
<1>4. inHand.node = p[Len(p)].node /\ LastArr(a) < now
  BY <1>1, <1>3 DEF Kept, Aligned
<1>5. e.type = "Goal"
  BY <1>1, <1>4, LastStep
<1>6. \A f \in ledger : f.agv = a =>
        /\ f.start < LastArr(a) \/ f = e
        /\ f.at \in Edges => f.start < LastArr(a)
  BY <1>1 DEF Kept, BookedSoFar
<1> HIDE DEF e
<1>7. BookedSoFar(a)'
  <2>1. \A f \in ledger : f.agv = a /\ f.at \in Edges => f.start + 1 < now
    BY <1>2, <1>4, <1>6
  <2>2. QED
    BY <1>1, <2>1 DEF BookedSoFar
<1>8. NoShortHold(a)'
  <2>1. \A f \in ledger : f.agv = a /\ f.type = "Normal" => ~(f.start + 1 >= now)
    BY <1>2, <1>4, <1>5, <1>6
  <2>2. QED
    BY <1>1, <2>1 DEF NoShortHold
<1>9. OnePurpose(a)' /\ PlanBooked(a)' /\ Footing(a)'
  BY <1>1 DEF OnePurpose, PlanBooked, Footing
<1>10. Aligned(a)'
  BY <1>1, <1>3 DEF Kept, Aligned
<1>11. QED
  BY <1>7, <1>8, <1>9, <1>10 DEF Kept

(* The time from which a window end plans on, between the clock and the    *)
(* departure from the last node of the plan.                               *)
LEMMA WindowEnds ==
  ASSUME NEW f \in Int, NEW arr \in Int, NEW dep \in Int, arr <= dep,
         NEW clock \in Int, NEW l, l = f + arr,
         NEW t, t = IF f + dep > clock THEN f + dep ELSE clock
  PROVE  clock <= t /\ l <= t /\ (clock < t => t = f + dep)
OBVIOUS

(* The end of the plan short of the target: with a route, it is kept; if   *)
(* there is no way on and the robot is at the end of its ride, then the    *)
(* entry of the last step keeps the node until the moment from which it is *)
(* held.                                                                   *)
LEMMA ReachWindowEndKept ==
  ASSUME TypeOK, PlanAhead, NEW a \in Agvs, Kept(a), ReachWindowEnd(a), a \notin adrift'
  PROVE  Kept(a)'
<1> DEFINE p == plan[a].table
<1> DEFINE last == Len(p)
<1> DEFINE from == inHand.node
<1> DEFINE target == plan[a].target
<1> DEFINE plans == [plan EXCEPT ![a] = NONE]
<1> DEFINE t == NextStart(a)
<1> DEFINE e == NodeEntry(a, p, target, plan[a].from, last)
<1>1. /\ StepCompleted(a) /\ plan[a] # NONE /\ InHandOf(a) /\ from # target
      /\ CreateRoute(a, from, target, t, plans)
      /\ curNode'[a] = from /\ now' = now /\ stale' = stale
  BY DEF ReachWindowEnd, StepCompleted, Call, InHandOf, TypeOK
<1>2. /\ from \in Nodes /\ target \in Nodes /\ t \in Int /\ now \in Int
      /\ ledger \subseteq Entries
      /\ InHandOf(a)' => inHand'.node = from
  BY <1>1, NextStartType, CallType DEF TypeOK, StepCompleted, InHandOf
<1>3. /\ p \in Tables /\ plan[a].from \in Int /\ last \in Nat /\ last >= 2
      /\ p[last] \in Steps /\ LastArr(a) \in Int
      /\ e.at = p[last].node /\ e.agv = a /\ e.start = LastArr(a)
      /\ e.end = Leave(p, last, plan[a].from, target)
  BY <1>1, LastStep
<1>4. e \in ledger /\ stale'[a] = NONE
  <2>1. last \in 2..last
    BY <1>3
  <2>2. QED
    BY <1>1, <2>1 DEF Kept, PlanBooked, Aligned
<1>5. /\ p[last].arr \in Int /\ p[last].dep \in Int /\ p[last].arr <= p[last].dep
      /\ LastArr(a) = plan[a].from + p[last].arr
      /\ t = IF plan[a].from + p[last].dep > now THEN plan[a].from + p[last].dep ELSE now
  <2>1. last \in 1..last
    BY <1>3
  <2>2. p[last].arr <= p[last].dep
    BY <1>3, <2>1, TablesAssumption DEF Timely
  <2>3. QED
    BY <1>3, <2>2 DEF Steps, LastArr, Arr, NextStart
<1>6. \A f \in ledger : f.agv = a =>
        /\ f.start \in Int
        /\ f.start < LastArr(a) \/ f = e
        /\ f.at \in Edges => f.start < LastArr(a)
  BY <1>1, <1>2 DEF Kept, BookedSoFar, Entries
<1>7. plans \in [Agvs -> Plans \cup {NONE}] /\ plans[a] = NONE
  BY DEF TypeOK
<1>8. now <= t /\ LastArr(a) <= t /\ (now < t => t = plan[a].from + p[last].dep)
  <2>1. plan[a].from \in Int /\ now \in Int
    BY <1>2, <1>3
  <2> HIDE DEF p, last, t
  <2>2. QED
    BY <1>5, <2>1, WindowEnds
<1>9. CASE RouteFound(a, from, target, t, plans)
  <2>1. \A f \in ledger : f.agv = a /\ f.at \in Edges => f.start < t
    BY <1>2, <1>3, <1>6, <1>8
  <2> HIDE DEF from, target, t, plans
  <2>2. QED
    BY <1>2, <1>4, <1>7, <1>9, <2>1, FoundKept
<1>10. CASE RouteFailed(a, from, target, t, plans)
  <2>1. drive[a] = NONE
    <3>1. plan'[a] = NONE /\ drive' = drive
      BY <1>7, <1>10 DEF RouteFailed
    <3>2. QED
      BY <3>1 DEF ReachWindowEnd
  <2>2. p[last].node = from /\ LastArr(a) < now
    BY <1>1, <2>1 DEF Kept, Aligned
  <2>3. e.end = plan[a].from + p[last].dep + Clearance /\ Clearance \in Nat
    BY <1>1, <1>3, <2>2, TimesAssumption DEF Leave, Dep
  <2>4. ASSUME NEW x \in Int, now <= x, x < t
        PROVE  Covered(ledger, a, from, x)
    <3>1. now < t /\ t \in Int
      BY <1>2, <2>4
    <3>a. e.end = t + Clearance
      BY <1>8, <2>3, <3>1
    <3>b. e.start < now /\ now \in Int /\ e.start \in Int
      BY <1>2, <1>3, <2>2
    <3> HIDE DEF e, t
    <3>2. e.start <= x /\ x < e.end
      BY <2>3, <2>4, <3>1, <3>a, <3>b
    <3>3. e.at = from /\ e.agv = a
      BY <1>3, <2>2
    <3>4. QED
      BY <1>4, <3>2, <3>3 DEF Covered
  <2> HIDE DEF e
  <2>5. \A f \in ledger : f.agv = a /\ f.at \in Edges => f.start + 1 < now
    BY <1>2, <1>3, <1>6, <2>2
  <2>6. \A f \in ledger : f.agv = a => ~(f.start >= t)
    BY <1>2, <1>3, <1>6, <1>8, <2>2
  <2> HIDE DEF from, target, plans, t
  <2>7. QED
    BY <1>1, <1>2, <1>4, <1>7, <1>8, <1>10, <2>1, <2>4, <2>5, <2>6, FailedKept
<1>11. CASE AlreadyThere(a, from, target, t, plans)
  BY <1>1, <1>11 DEF AlreadyThere
<1>12. QED
  BY <1>1, <1>9, <1>10, <1>11 DEF CreateRoute

(* The queue gives the step that the robot has come to.                    *)
LEMMA PopEventKept ==
  ASSUME TypeOK, PlanAhead, NEW a \in Agvs, NEW b \in Agvs, Kept(b), PopEvent(a)
  PROVE  Kept(b)'
<1>1. /\ ledger' = ledger /\ plan' = plan /\ pending' = pending /\ now' = now
      /\ phase' = phase /\ due' = due /\ curNode' = curNode
  BY DEF PopEvent, planVars
<1>2. CASE b # a
  <2>1. ~InHandOf(b)'
    BY <1>2 DEF PopEvent, InHandOf
  <2>2. drive'[b] = drive[b] /\ stale'[b] = stale[b]
    BY <1>2 DEF PopEvent, TypeOK
  <2>3. QED
    BY <1>1, <2>1, <2>2, OthersKept
<1>3. CASE b = a
  <2>1. /\ Arrived(a) /\ stale' = stale
        /\ inHand' = [agv |-> a, node |-> Ahead(a).node, calls |-> viewers]
        /\ drive' = [drive EXCEPT ![a] = DriveOn(@)]
    BY <1>3 DEF PopEvent, Kept, Aligned
  <2>2. /\ drive[a] # NONE /\ drive[a] \in Drives /\ drive[a].index \in Nat \ {0}
        /\ Len(drive[a].table) \in Nat /\ drive[a].index < Len(drive[a].table)
    BY <2>1, AheadType DEF Arrived
  <2>3. /\ plan[a] # NONE /\ drive[a].table = plan[a].table
        /\ drive[a].from = plan[a].from
    BY <1>3, <2>2 DEF Kept, Aligned
  <2>4. LastArr(a)' = LastArr(a)
    BY <1>1 DEF LastArr, Arr
  <2>5. OnePurpose(a)' /\ BookedSoFar(a)' /\ PlanBooked(a)'
    BY <1>1, <1>3, <2>4 DEF Kept, OnePurpose, BookedSoFar, PlanBooked
  <2>6. Footing(a)' /\ NoShortHold(a)'
    BY <1>1, <2>3 DEF Footing, NoShortHold
  <2>7. inHand'.node = plan[a].table[drive[a].index + 1].node
    BY <2>1, <2>3 DEF Ahead
  <2>8. Aligned(a)'
    <3>1. CASE drive[a].index + 1 = Len(drive[a].table)
      <4>1. drive'[a] = NONE
        BY <2>1, <3>1 DEF TypeOK, DriveOn
      <4>2. inHand'.node = plan[a].table[Len(plan[a].table)].node
        BY <2>3, <2>7, <3>1
      <4>3. LastArr(a) < now
        BY <2>1, <2>3, <3>1, LastStep DEF Arrived, Ahead, LastArr, Arr, TypeOK
      <4>4. QED
        BY <1>1, <1>3, <2>1, <2>3, <2>4, <4>1, <4>2, <4>3 DEF Kept, Aligned
    <3>2. CASE drive[a].index + 1 # Len(drive[a].table)
      <4> DEFINE on == [drive[a] EXCEPT !.index = @ + 1]
      <4>1. /\ on \in Drives /\ on.index = drive[a].index + 1
            /\ on.table = drive[a].table /\ on.from = drive[a].from
        BY <2>2 DEF Drives
      <4>2. drive'[a] = on
        BY <2>1, <3>2 DEF TypeOK, DriveOn
      <4> HIDE DEF on
      <4>3. drive'[a] # NONE
        BY <4>1, <4>2, NoneAssumption
      <4>4. QED
        BY <1>1, <1>3, <2>1, <2>3, <2>7, <4>1, <4>2, <4>3 DEF Kept, Aligned
    <3>3. QED
      BY <3>1, <3>2
  <2>9. QED
    BY <1>3, <2>5, <2>6, <2>8 DEF Kept
<1>4. QED
  BY <1>2, <1>3

LEMMA StepOnKept ==
  ASSUME TypeOK, PlanAhead, NEW a \in Agvs, Kept(a), StepOn(a)
  PROVE  Kept(a)'
<1>1. plan[a] \in Plans /\ pending[a] = NONE
  BY DEF StepOn, StepCompleted, TypeOK, Kept, OnePurpose
<1> DEFINE new == [plan[a] EXCEPT !.index = @ + 1]
<1>2. new.table = plan[a].table /\ new.from = plan[a].from /\ new.target = plan[a].target
      /\ new \in Plans
  BY <1>1 DEF Plans
<1>3. plan'[a] = new
  BY DEF StepOn, TypeOK
<1> HIDE DEF new
<1>4. /\ plan'[a] # NONE /\ plan[a] # NONE /\ pending'[a] = NONE
      /\ ledger' = ledger /\ now' = now
  BY <1>1, <1>2, <1>3, NoneAssumption DEF StepOn, StepCompleted, Call
<1>5. LastArr(a)' = LastArr(a)
  BY <1>2, <1>3 DEF LastArr, Arr
<1>6. BookedSoFar(a)'
  BY <1>2, <1>3, <1>4, <1>5 DEF Kept, BookedSoFar
<1>7. PlanBooked(a)'
  BY <1>2, <1>3, <1>4 DEF Kept, PlanBooked
<1>8. OnePurpose(a)' /\ Footing(a)' /\ NoShortHold(a)'
  BY <1>4 DEF OnePurpose, Footing, NoShortHold
<1>9. Aligned(a)'
  <2>1. /\ InHandOf(a) /\ drive' = drive /\ stale' = stale
        /\ InHandOf(a)' => inHand'.node = inHand.node
    BY CallType DEF StepOn, StepCompleted, Call, InHandOf
  <2>2. QED
    BY <1>2, <1>3, <1>4, <1>5, <2>1 DEF Kept, Aligned
<1>10. QED
  BY <1>6, <1>7, <1>8, <1>9 DEF Kept

(* The timers run down with the frames.                                    *)
LEMMA UpdateKept ==
  ASSUME TypeOK, NEW a \in Agvs, Kept(a), Update
  PROVE  Kept(a)'
<1>1. /\ phase = "events" /\ phase' = "retry" /\ now' = now /\ ledger' = ledger
      /\ curNode' = curNode /\ plan' = plan /\ now \in Int
      /\ drive' = drive /\ stale' = stale /\ inHand' = inHand
  BY DEF Update, TypeOK, robotVars
<1>2. OnePurpose(a)' /\ BookedSoFar(a)' /\ PlanBooked(a)' /\ NoShortHold(a)'
  <2>1. pending'[a] # NONE => pending[a] # NONE
    BY DEF Update, Waiting
  <2>2. LastArr(a)' = LastArr(a)
    BY <1>1 DEF LastArr
  <2>3. QED
    BY <1>1, <2>1, <2>2 DEF Kept, OnePurpose, BookedSoFar, PlanBooked, NoShortHold
<1>3. Footing(a)'
  <2>1. SUFFICES ASSUME pending'[a] # NONE, plan[a] = NONE PROVE Footing(a)'
    BY <1>1 DEF Footing
  <2>2. pending[a] \in Retries /\ a \in Waiting
    BY <2>1 DEF Update, Waiting, TypeOK
  <2>3. pending'[a] = [pending[a] EXCEPT !.timer = @ - 1]
    BY <2>2 DEF Update
  <2>4. pending'[a].timer = pending[a].timer - 1 /\ pending[a].timer \in Int
    BY <2>2, <2>3 DEF Retries
  <2>5. NextRetry(a)' = NextRetry(a)
    BY <1>1, <2>4 DEF NextRetry
  <2>6. a \notin due' => pending'[a].timer >= 1
    BY <2>2, <2>4 DEF Update
  <2>7. \A x \in Int : x = now \/ (now <= x /\ x <= NextRetry(a)) =>
          Covered(ledger, a, curNode[a], x)
    BY <2>1, <2>2, NoneAssumption DEF Kept, Footing
  <2>8. QED
    BY <1>1, <2>5, <2>6, <2>7 DEF Footing
<1>4. Aligned(a)'
  BY <1>1 DEF Kept, Aligned, InHandOf, LastArr
<1>5. QED
  BY <1>2, <1>3, <1>4 DEF Kept

LEMMA TickKept ==
  ASSUME TypeOK, NEW a \in Agvs, Kept(a), Tick
  PROVE  Kept(a)'
<1>1. /\ phase = "retry" /\ phase' = "events" /\ now' = now + 1 /\ ledger' = ledger
      /\ curNode' = curNode /\ plan' = plan /\ pending' = pending /\ due = {}
      /\ now \in Int /\ \A e \in ledger : e.start \in Int
      /\ drive' = drive /\ stale' = stale /\ inHand' = inHand
  BY DEF Tick, TypeOK, Entries, planVars, robotVars
<1>2. LastArr(a)' = LastArr(a) /\ (plan[a] # NONE => LastArr(a) \in Int)
  BY <1>1, LastStep DEF LastArr
<1>3. OnePurpose(a)' /\ PlanBooked(a)'
  BY <1>1 DEF Kept, OnePurpose, PlanBooked
<1>4. BookedSoFar(a)'
  BY <1>1, <1>2 DEF Kept, BookedSoFar
<1>5. NoShortHold(a)'
  BY <1>1 DEF Kept, NoShortHold
<1>6. Footing(a)'
  <2>1. SUFFICES ASSUME pending[a] # NONE, plan[a] = NONE PROVE Footing(a)'
    BY <1>1 DEF Footing
  <2>2. pending[a].timer \in Int
    BY <2>1 DEF TypeOK, Retries
  <2>3. pending[a].timer >= 1
    BY <1>1, <2>1 DEF Kept, Footing
  <2>4. NextRetry(a)' = NextRetry(a) /\ NextRetry(a) >= now + 1
    BY <1>1, <2>2, <2>3 DEF NextRetry
  <2>5. \A x \in Int : now <= x /\ x <= NextRetry(a) => Covered(ledger, a, curNode[a], x)
    BY <2>1 DEF Kept, Footing
  <2>6. \A x \in Int : x = now + 1 \/ (now + 1 <= x /\ x <= NextRetry(a)) =>
          Covered(ledger, a, curNode[a], x)
    BY <1>1, <2>2, <2>4, <2>5 DEF NextRetry
  <2>7. QED
    BY <1>1, <2>3, <2>4, <2>6 DEF Footing
<1>7. Aligned(a)'
  BY <1>1, <1>2 DEF Kept, Aligned, InHandOf
<1>8. QED
  BY <1>3, <1>4, <1>5, <1>6, <1>7 DEF Kept

(* The claims of a plan are entries of its table, so what the transaction  *)
(* wrote backs them: no node comes twice in a table, and no edge.          *)
LEMMA ClaimsBooked ==
  ASSUME TypeOK, NEW a \in Agvs, Kept(a), plan[a] # NONE, NEW c \in Claims(a, 2)
  PROVE  \E e \in ledger : /\ e.at = c.at /\ e.agv = a
                           /\ e.start <= c.start /\ c.end <= e.end
<1> DEFINE p == plan[a].table
<1> DEFINE target == plan[a].target
<1> DEFINE t == plan[a].from
<1>1. p \in Tables /\ target \in Nodes /\ t \in Int /\ plan[a].index \in Nat \ {0}
  BY DEF TypeOK, Plans
<1>2. /\ c \in PathEntries(a, p, target, t)
      /\ \/ \E i \in plan[a].index..Len(p) : i >= 2 /\ c.at = p[i].node
         \/ \E i \in (plan[a].index..Len(p)) \cap Links(p) : c.at = LinkEdge(p, i)
  BY DEF Claims
<1>3. /\ \A i \in 2..Len(p) : NodeEntry(a, p, target, t, i) \in ledger
      /\ \A i \in Links(p) : EdgeEntry(a, p, t, i) \in ledger
  BY DEF Kept, PlanBooked
<1> HIDE DEF p, target, t
<1>4. Len(p) \in Nat /\ \A i, j \in 1..Len(p) : i < j => p[i].node # p[j].node
  BY <1>1, TablesAssumption DEF Timely
<1>5. c \in ledger
  <2>1. CASE \E i \in Links(p) : c = EdgeEntry(a, p, t, i)
    BY <1>3, <2>1
  <2>2. CASE \E j \in 1..Len(p) : c = NodeEntry(a, p, target, t, j)
    <3>1. PICK j \in 1..Len(p) : c = NodeEntry(a, p, target, t, j)
      BY <2>2
    <3>2. c.at = p[j].node /\ c.at \in Nodes
      BY <1>1, <3>1, NodeEntryFields
    <3>3. \A i \in Links(p) : LinkEdge(p, i) \in Edges
      BY <1>1, TableTypes
    <3>4. PICK i \in plan[a].index..Len(p) : i >= 2 /\ c.at = p[i].node
      BY <1>2, <3>2, <3>3, PlacesAssumption
    <3>5. i \in 1..Len(p)
      BY <1>1, <1>4, <3>4
    <3>6. i = j
      <4>1. ~(i < j) /\ ~(j < i)
        BY <1>4, <3>2, <3>4, <3>5
      <4>2. QED
        BY <1>4, <3>5, <4>1
    <3>7. QED
      BY <1>3, <1>4, <3>1, <3>4, <3>6
  <2>3. QED
    BY <1>1, <1>2, <2>1, <2>2, TransactionEntries
<1>6. c.agv = a /\ c.start \in Int /\ c.end \in Int
  <2>1. c.agv = a
    BY <1>1, <1>2, TransactionEntries
  <2>2. QED
    BY <1>5, <2>1 DEF TypeOK, Entries
<1>7. QED
  BY <1>5, <1>6

LEMMA KInvInit == Init => KInv
<1> SUFFICES ASSUME Init PROVE KInv
  OBVIOUS
<1>1. \A e \in ledger : e.at \in Nodes /\ e.start = 0 /\ e.end = SpawnHold /\ e.type = "Goal"
  BY HomeAssumption DEF Init, Entry
<1>2. \A a \in Agvs : plan[a] = NONE /\ pending[a] = NONE /\ drive[a] = NONE /\ stale[a] = NONE
  BY DEF Init
<1>3. GoalsLong
  <2>1. 0 + Clearance < SpawnHold
    BY TimesAssumption
  <2>2. QED
    BY <1>1, <2>1 DEF GoalsLong
<1>4. ASSUME NEW a \in Agvs PROVE Kept(a)
  <2>1. OnePurpose(a) /\ PlanBooked(a) /\ Footing(a) /\ Aligned(a)
    BY <1>2 DEF OnePurpose, PlanBooked, Footing, Aligned
  <2>2. BookedSoFar(a)
    BY <1>1, <1>2, PlacesAssumption DEF BookedSoFar
  <2>3. NoShortHold(a)
    BY <1>1 DEF NoShortHold
  <2>4. QED
    BY <2>1, <2>2, <2>3 DEF Kept
<1>5. QED
  BY <1>3, <1>4, InvInit DEF KInv, Undisturbed

LEMMA KInvStep == KInv /\ [Next]_vars => KInv'
<1> SUFFICES ASSUME KInv, [Next]_vars PROVE KInv'
  OBVIOUS
<1>0. /\ IInv /\ TypeOK /\ DueArePending /\ PlanAhead /\ HandEmpty
      /\ GoalsLong /\ \A a \in Undisturbed : Kept(a)
  BY DEF KInv, IInv
<1>1. IInv'
  BY <1>0, InvStep
<1>2. CASE Update
  <2>1. Undisturbed' = Undisturbed /\ GoalsLong'
    BY <1>0, <1>2 DEF Undisturbed, Update, GoalsLong, history
  <2>2. \A a \in Undisturbed' : Kept(a)'
    BY <1>0, <1>2, <2>1, UpdateKept DEF Undisturbed
  <2>3. QED
    BY <1>1, <2>1, <2>2 DEF KInv
<1>3. CASE Tick
  <2>1. Undisturbed' = Undisturbed /\ GoalsLong'
    BY <1>0, <1>3 DEF Undisturbed, Tick, GoalsLong, history, planVars
  <2>2. \A a \in Undisturbed' : Kept(a)'
    BY <1>0, <1>3, <2>1, TickKept DEF Undisturbed
  <2>3. QED
    BY <1>1, <2>1, <2>2 DEF KInv
<1>4. ASSUME NEW a \in Agvs, Request(a) PROVE KInv'
  <2>1. PICK target \in Nodes, t \in {now - 1, now} :
          CreateRoute(a, curNode[a], target, t, plan)
    BY <1>4 DEF Request
  <2>2. /\ now' = now /\ phase' = "events" /\ phase = "events" /\ curNode' = curNode
        /\ due' = due /\ inHand = NONE /\ inHand' = NONE /\ adrift' = adrift
        /\ rerouted \subseteq rerouted'
        /\ a \notin rerouted' => a \notin rerouted /\ plan[a] = NONE
        /\ \A b \in Agvs : b # a => stale'[b] = stale[b]
    BY <1>0, <1>4 DEF Request, TypeOK
  <2>3. /\ curNode[a] \in Nodes /\ t \in Int /\ plan \in [Agvs -> Plans \cup {NONE}]
    BY <1>0, <2>2 DEF TypeOK
  <2>4. GoalsLong'
    BY <1>0, <2>1, <2>3, GoalsStayLong
  <2>5. ASSUME NEW b \in Undisturbed' PROVE Kept(b)'
    <3>0. b \in Agvs /\ Kept(b) /\ (b = a => plan[a] = NONE) /\ ~InHandOf(b)'
      BY <1>0, <2>2, <2>5 DEF Undisturbed, InHandOf
    <3>1. CASE b = a
      <4>1. stale[a] = NONE /\ drive[a] = NONE
        BY <3>0, <3>1 DEF Kept, Aligned
      <4>2. stale'[a] = NONE
        BY <1>4, <4>1 DEF Request, Arrived
      <4>3. QED
        BY <1>0, <2>1, <2>2, <2>3, <3>0, <3>1, <4>2, CreateRouteNowKept
    <3>2. CASE b # a
      BY <1>0, <2>1, <2>2, <2>3, <3>0, <3>2, CreateRouteOthersKept
    <3>3. QED
      BY <3>1, <3>2
  <2>6. QED
    BY <1>1, <2>4, <2>5 DEF KInv
<1>5. ASSUME NEW a \in Agvs, Retry(a) PROVE KInv'
  <2>1. pending[a] \in Retries /\ pending[a] # NONE
    BY <1>0, <1>5, NoneAssumption DEF Retry, DueArePending, TypeOK
  <2>2. /\ now' = now /\ phase' = phase /\ curNode' = curNode
        /\ due' = due \ {a} /\ Undisturbed' = Undisturbed /\ a \in due
        /\ stale' = stale /\ inHand' = inHand
        /\ CreateRoute(a, curNode[a], pending[a].target, now, plan)
    BY <1>5 DEF Retry, history, Undisturbed
  <2>3. /\ curNode[a] \in Nodes /\ now \in Int /\ plan \in [Agvs -> Plans \cup {NONE}]
        /\ pending[a].target \in Nodes
    BY <1>0, <2>1, <2>2 DEF TypeOK, Retries
  <2>4. GoalsLong'
    BY <1>0, <2>2, <2>3, GoalsStayLong
  <2>5. ASSUME NEW b \in Undisturbed' PROVE Kept(b)'
    <3>0. b \in Agvs /\ Kept(b)
      BY <1>0, <2>2, <2>5 DEF Undisturbed
    <3>1. CASE b = a
      <4>1. plan[a] = NONE /\ stale'[a] = NONE
        BY <2>1, <2>2, <3>0, <3>1 DEF Kept, OnePurpose, Aligned
      <4>2. ~InHandOf(a)'
        BY <1>5, <1>0, <2>2 DEF InHandOf, Retry, HandEmpty
      <4>3. now \in {now - 1, now}
        OBVIOUS
      <4>4. QED
        BY <1>0, <2>2, <2>3, <3>0, <3>1, <4>1, <4>2, <4>3, CreateRouteNowKept
    <3>2. CASE b # a
      <4>1. (b \in due' <=> b \in due) /\ (InHandOf(b)' => InHandOf(b) /\ inHand'.node = inHand.node)
        BY <2>2, <3>2 DEF InHandOf
      <4>2. QED
        BY <1>0, <2>2, <2>3, <3>0, <3>2, <4>1, CreateRouteOthersKept
    <3>3. QED
      BY <3>1, <3>2
  <2>6. QED
    BY <1>1, <2>4, <2>5 DEF KInv
<1>6. ASSUME NEW a \in Agvs, ReachWindowEnd(a) PROVE KInv'
  <2> DEFINE plans == [plan EXCEPT ![a] = NONE]
  <2>1. /\ plan[a].target \in Nodes /\ inHand.node \in Nodes /\ NextStart(a) \in Int
        /\ plans \in [Agvs -> Plans \cup {NONE}]
        /\ \A b \in Agvs : b # a => plans[b] = plan[b]
    BY <1>0, <1>6, NextStartType, CallType DEF ReachWindowEnd, StepCompleted, TypeOK
  <2>2. /\ CreateRoute(a, inHand.node, plan[a].target, NextStart(a), plans)
        /\ now' = now /\ phase' = phase /\ due' = due /\ stale' = stale
        /\ rerouted' = rerouted /\ adrift \subseteq adrift'
        /\ inHand.agv = a /\ inHand' # NONE => inHand'.agv = a
        /\ \A b \in Agvs : b # a => curNode'[b] = curNode[b]
    BY <1>0, <1>6, CallType DEF ReachWindowEnd, StepCompleted, Call, TypeOK
  <2> HIDE DEF plans
  <2>3. GoalsLong'
    BY <1>0, <2>1, <2>2, GoalsStayLong
  <2>4. ASSUME NEW b \in Undisturbed' PROVE Kept(b)'
    <3>0. b \in Agvs /\ Kept(b) /\ b \notin adrift'
      BY <1>0, <2>2, <2>4 DEF Undisturbed
    <3>1. CASE b = a
      BY <1>0, <1>6, <3>0, <3>1, ReachWindowEndKept
    <3>2. CASE b # a
      <4>1. ~InHandOf(b)'
        BY <1>6, <2>2, <3>2, CallType, <1>0 DEF InHandOf, ReachWindowEnd, StepCompleted, Call
      <4>2. QED
        BY <1>0, <2>1, <2>2, <3>0, <3>2, <4>1, CreateRouteOthersKept
    <3>3. QED
      BY <3>1, <3>2
  <2>5. QED
    BY <1>1, <2>3, <2>4 DEF KInv
<1>7. ASSUME NEW a \in Agvs, StepOn(a) \/ ReachTarget(a) \/ IgnoreStep(a) PROVE KInv'
  <2>1. /\ Call(a) /\ ledger' = ledger /\ pending' = pending /\ drive' = drive
        /\ Undisturbed' = Undisturbed
        /\ \A b \in Agvs : b # a => curNode'[b] = curNode[b] /\ plan'[b] = plan[b]
    BY <1>0, <1>7
       DEF StepOn, ReachTarget, IgnoreStep, StepCompleted, TypeOK, planVars, Undisturbed, Call
  <2>2. /\ now' = now /\ phase' = phase /\ due' = due /\ stale' = stale
        /\ \A b : InHandOf(b)' => InHandOf(b) /\ inHand'.node = inHand.node
    BY <1>0, <2>1, CallType DEF Call, InHandOf
  <2>3. ASSUME NEW b \in Undisturbed' PROVE Kept(b)'
    <3>0. b \in Agvs /\ Kept(b)
      BY <1>0, <2>1, <2>3 DEF Undisturbed
    <3>1. CASE b = a /\ (StepOn(a) \/ ReachTarget(a))
      BY <1>0, <3>0, <3>1, StepOnKept, ReachTargetKept
    <3>2. CASE b # a \/ IgnoreStep(a)
      <4>1. plan'[b] = plan[b] /\ curNode'[b] = curNode[b]
        BY <2>1, <3>0, <3>2 DEF IgnoreStep, planVars
      <4>2. QED
        BY <2>1, <2>2, <3>0, <4>1, OthersKept
    <3>3. QED
      BY <1>7, <3>1, <3>2
  <2>4. GoalsLong'
    BY <1>0, <2>1 DEF GoalsLong
  <2>5. QED
    BY <1>1, <2>3, <2>4 DEF KInv
<1>8. ASSUME NEW a \in Agvs, PopEvent(a) PROVE KInv'
  <2>1. Undisturbed' = Undisturbed /\ GoalsLong'
    BY <1>0, <1>8 DEF Undisturbed, PopEvent, GoalsLong, history, planVars
  <2>2. \A b \in Undisturbed' : Kept(b)'
    BY <1>0, <1>8, <2>1, PopEventKept DEF Undisturbed
  <2>3. QED
    BY <1>1, <2>1, <2>2 DEF KInv
<1>9. CASE UNCHANGED vars
  <2>1. /\ ledger' = ledger /\ plan' = plan /\ pending' = pending /\ curNode' = curNode
        /\ drive' = drive /\ stale' = stale /\ inHand' = inHand /\ now' = now
        /\ phase' = phase /\ due' = due /\ Undisturbed' = Undisturbed
    BY <1>9 DEF vars, planVars, robotVars, history, Undisturbed
  <2>2. \A a \in Undisturbed' : Kept(a)'
    BY <1>0, <2>1, OthersKept DEF Undisturbed, InHandOf
  <2>3. GoalsLong'
    BY <1>0, <2>1 DEF GoalsLong
  <2>4. QED
    BY <1>1, <2>2, <2>3 DEF KInv
<1>10. QED
  BY <1>2, <1>3, <1>4, <1>5, <1>6, <1>7, <1>8, <1>9 DEF Next

-----------------------------------------------------------------------------
(* Every variable keeps the type its C++ counterpart is declared with.     *)
THEOREM TypeCorrect == Spec => []TypeOK
<1>1. IInv => TypeOK
  BY DEF IInv
<1>2. QED
  BY <1>1, InvInit, InvStep, PTL DEF Spec

(* What two AGVs booked through the transaction never overlaps, although   *)
(* overrides cut entries, double entries are skipped and other functions   *)
(* write unchecked: an override only shrinks, and the transaction looks at *)
(* everything that is left.                                                *)
THEOREM BookingsNeverOverlap == Spec => []BookingsApart
<1>1. IInv => BookingsApart
  BY DEF IInv
<1>2. QED
  BY <1>1, InvInit, InvStep, PTL DEF Spec

(* The way ahead of a plan in force stays in the ledger, unless its AGV    *)
(* was rerouted or adrift: no retry, no route of another AGV, no arrival   *)
(* that is counted more than once and no double entry that ReserveNode or  *)
(* ReserveEdge skips takes an edge or a node behind the start from it.     *)
THEOREM WayStaysBacked == Spec => []WayAheadBacked
<1>1. KInv => WayAheadBacked
  BY ClaimsBooked DEF KInv, IInv, WayAheadBacked, Undisturbed
<1>2. QED
  BY <1>1, KInvInit, KInvStep, PTL DEF Spec

(* An AGV without a route keeps the node it waits on until it is retried,  *)
(* unless it was rerouted or adrift: every hold outlasts the timer, what   *)
(* makes ReserveNode skip a hold lasts as long, and until a hold that lies *)
(* in the future begins, the last step of the plan keeps the node.         *)
THEOREM WaitersKeepFooting == Spec => []RetryKeepsFooting
<1>1. KInv => RetryKeepsFooting
  <2>1. ASSUME KInv, NEW a \in Undisturbed, pending[a] # NONE /\ plan[a] = NONE
        PROVE  Covered(ledger, a, curNode[a], now)
    <3>1. now \in Int /\ Footing(a)
      BY <2>1 DEF KInv, IInv, TypeOK, Kept, Undisturbed
    <3>2. QED
      BY <2>1, <3>1 DEF Footing
  <2>2. QED
    BY <2>1 DEF RetryKeepsFooting, Covered
<1>2. QED
  BY <1>1, KInvInit, KInvStep, PTL DEF Spec

(* Search and transaction agree on all of a table but its start: FindPath  *)
(* looks at the start node only if the AGV waits there, so a table it      *)
(* returns is refused only because that node is booked by another AGV.     *)
THEOREM RefusedOnlyOverStart == Spec => []RefusedOnlyAtStart
<1>1. IInv => RefusedOnlyAtStart
  <2>1. ASSUME IInv, NEW a \in due
        PROVE  TypeOK /\ a \in Agvs /\ pending[a].target \in Nodes
    BY <2>1 DEF IInv, TypeOK, DueArePending, Retries
  <2>2. QED
    BY <2>1, RefusedOverStart DEF RefusedOnlyAtStart
<1>2. QED
  BY <1>1, InvInit, InvStep, PTL DEF Spec

=============================================================================
