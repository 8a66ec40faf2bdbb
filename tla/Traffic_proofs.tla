---------------------------- MODULE Traffic_proofs ----------------------------
(***************************************************************************)
(* Proofs about Traffic, for every map, fleet and set of routes:           *)
(*   - the state keeps its types,                                          *)
(*   - EdgeExclusion, RiderHoldsEdge and ArrivalSeenFirst are invariants,  *)
(*   - Traffic implements BlockSections, and its controllers are Robots,   *)
(*   - an AGV falls out of step in two ways only: by a route in the middle *)
(*     of a ride, and by a plan that runs out before its route does,       *)
(*   - a jam lasts until one of its AGVs is given a new route.             *)
(***************************************************************************)
EXTENDS Traffic, SequenceTheorems, TLAPS

-----------------------------------------------------------------------------
(* The inductive invariant.  EdgeExclusion alone is not inductive: it says *)
(* nothing about the occupancy maps, which is all that Depart looks at.    *)

(* A ride is booked on both sides.                                         *)
RideBooked ==
  \A a \in Agvs : moving[a] => HasLink(a) /\ agvEdge[a] = CurEdge(a)

(* AGV -> edge never points to an edge that somebody else holds.  The      *)
(* converse fails: a new route in the middle of a ride leaves the edge     *)
(* held by an AGV that no longer points to it.                             *)
PointersHeld ==
  \A a \in Agvs : agvEdge[a] # NONE => edgeOcc[agvEdge[a]] = a

(* Where letters can be while each loop of the frame runs.                 *)
LettersInFrame ==
  /\ phase = "collect" => \A a \in Agvs \ todo : mail[a] = <<>>
  /\ phase = "process" => \A a \in Agvs : mail[a] = <<>>
  /\ phase = "drive" => inbox = <<>> /\ \A a \in todo : mail[a] = <<>>

(* An event is with the callbacks only while events are processed, where   *)
(* there are more of them than one; they find its AGV on the node that the *)
(* first of them entered.                                                  *)
HandInPlace ==
  inHand # NONE =>
    /\ phase = "process" /\ viewers > 1
    /\ plan[inHand.agv] # NONE => curNode[inHand.agv] = inHand.node

IInv ==
  /\ TypeOK
  /\ RideBooked
  /\ PointersHeld
  /\ ArrivalSeenFirst
  /\ LettersInFrame
  /\ HandInPlace

-----------------------------------------------------------------------------
(* The key of two nodes is an edge of the map, and no edge is NONE.        *)
LEMMA EdgeOfNodes ==
  ASSUME NEW f \in Nodes, NEW t \in Nodes
  PROVE  Edge(f, t) \in Edges /\ Edge(f, t) # NONE
<1>1. <<f, t>> \in Nodes \X Nodes /\ <<f, t>>[1] = f /\ <<f, t>>[2] = t
  OBVIOUS
<1>2. Edge(f, t) \in Edges
  BY <1>1, Zenon DEF Edges
<1>3. QED
  BY <1>2, NoneAssumption

(* The ends of the link a controller drives are nodes of the map.          *)
LEMMA LinkEnds ==
  ASSUME TypeOK, NEW a \in Agvs, HasLink(a)
  PROVE  From(a) \in Nodes /\ To(a) \in Nodes /\ CurEdge(a) \in Edges \ {NONE}
<1>1. route[a] \in Seq(Nodes) /\ link[a] \in Nat \ {0} /\ link[a] < Len(route[a])
  BY WalksAssumption DEF TypeOK, HasLink
<1>2. From(a) \in Nodes /\ To(a) \in Nodes
  BY <1>1 DEF From, To
<1>3. QED
  BY <1>2, EdgeOfNodes DEF CurEdge

(* What a visit of the frame loop does to the loop's own state.            *)
LEMMA VisitType ==
  ASSUME TypeOK, NEW a \in Agvs, NEW next \in {"collect", "process", "drive"},
         Visit(a, next)
  PROVE  todo' \in SUBSET Agvs /\ phase' \in {"collect", "process", "drive"}
BY DEF Visit, TypeOK

(* The operations on occupancy keep the types of the four maps.            *)
LEMMA OccupyNodeType ==
  ASSUME OccTypeOK, NEW a \in Agvs, NEW n \in Nodes, OccupyNode(a, n)
  PROVE  OccTypeOK'
BY DEF OccTypeOK, OccupyNode

LEMMA OccupyEdgeType ==
  ASSUME OccTypeOK, NEW a \in Agvs, NEW f \in Nodes, NEW t \in Nodes,
         OccupyEdge(a, f, t)
  PROVE  OccTypeOK'
BY EdgeOfNodes DEF OccTypeOK, OccupyEdge

(* OccupyNode releases the edge of its AGV and no edge of another one.     *)
LEMMA OccupyNodeKeepsOthers ==
  ASSUME OccTypeOK, PointersHeld, NEW a \in Agvs, NEW n \in Nodes,
         OccupyNode(a, n)
  PROVE  /\ PointersHeld'
         /\ \A b \in Agvs \ {a} : agvEdge'[b] = agvEdge[b]
         /\ agvEdge'[a] = NONE
<1>1. agvEdge'[a] = NONE /\ \A b \in Agvs \ {a} : agvEdge'[b] = agvEdge[b]
  BY DEF OccTypeOK, OccupyNode
<1>2. ASSUME NEW b \in Agvs, agvEdge'[b] # NONE
      PROVE  edgeOcc'[agvEdge'[b]] = b
  <2>1. b # a /\ agvEdge'[b] = agvEdge[b] /\ agvEdge[b] # NONE
    BY <1>1, <1>2
  <2>2. agvEdge[b] \in Edges /\ edgeOcc[agvEdge[b]] = b
    BY <2>1 DEF OccTypeOK, PointersHeld
  <2>3. agvEdge[b] # agvEdge[a]
    BY <2>1, <2>2 DEF PointersHeld
  <2>4. QED
    BY <2>1, <2>2, <2>3 DEF OccupyNode
<1>3. QED
  BY <1>1, <1>2 DEF PointersHeld

-----------------------------------------------------------------------------
(* A new route: the plan is stored and the controller starts from scratch. *)
LEMMA CreateRouteType ==
  ASSUME TypeOK, NEW a \in Agvs, NEW f \in Nodes, NEW w \in Walks,
         NEW t \in Nodes, CreateRoute(a, f, w, t)
  PROVE  /\ plan' \in [Agvs -> Plans \cup {NONE}]
         /\ route' \in [Agvs -> Walks \cup {<<>>}]
         /\ link' \in [Agvs -> Nat \ {0}]
         /\ moving' \in [Agvs -> BOOLEAN]
         /\ mail' \in [Agvs -> Seq(Nodes)]
<1>1. [steps |-> w, index |-> 1, target |-> t] \in Plans
  BY DEF Plans
<1>2. plan' \in [Agvs -> Plans \cup {NONE}]
  BY <1>1 DEF TypeOK, CreateRoute
<1>3. QED
  BY <1>2 DEF TypeOK, CreateRoute, FollowRoute

(* An arrival is the oldest letter, or the event that has still callbacks  *)
(* to go to.                                                               *)
LEMMA Taken ==
  ASSUME TypeOK, TakeArrival
  PROVE  \/ /\ inHand = NONE /\ inbox # <<>>
            /\ inbox' = Tail(inbox) /\ Arrival = inbox[1] /\ Arrival \in Letters
         \/ /\ inHand # NONE /\ inHand \in Calls
            /\ inbox' = inbox /\ Arrival = inHand
<1>1. inbox \in Seq(Letters) /\ inHand \in Calls \cup {NONE}
  BY DEF TypeOK
<1>2. CASE inHand = NONE
  BY <1>1, <1>2 DEF TakeArrival, Arrival
<1>3. CASE inHand # NONE
  BY <1>1, <1>3 DEF TakeArrival, Arrival
<1>4. QED
  BY <1>2, <1>3

(* An arrival names an AGV and a node, and is taken off the inbox or the   *)
(* hand.                                                                   *)
LEMMA ArrivalType ==
  ASSUME TypeOK, TakeArrival
  PROVE  /\ Arrival.agv \in Agvs /\ Arrival.node \in Nodes
         /\ inbox' \in Seq(Letters)
         /\ inHand' \in Calls \cup {NONE}
         /\ phase = "process" /\ phase' = phase /\ todo' = todo /\ viewers' = viewers
         /\ inHand' # NONE => /\ inHand'.agv = Arrival.agv
                              /\ inHand'.node = Arrival.node
                              /\ inHand = NONE => viewers > 1
<1>1. inbox \in Seq(Letters) /\ viewers \in Nat \ {0}
  BY ViewersAssumption DEF TypeOK
<1>2. Arrival.agv \in Agvs /\ Arrival.node \in Nodes
  BY Taken DEF Letters, Calls
<1>3. inbox' \in Seq(Letters)
  BY <1>1, Taken, HeadTailProperties
<1> DEFINE left == (IF inHand = NONE THEN viewers ELSE inHand.calls) - 1
<1>4. left \in Nat /\ (inHand = NONE => left = viewers - 1)
  BY <1>1, Taken DEF Calls
<1>5. /\ inHand' = IF left = 0 THEN NONE
                   ELSE [agv |-> Arrival.agv, node |-> Arrival.node, calls |-> left]
      /\ phase = "process" /\ phase' = phase /\ todo' = todo /\ viewers' = viewers
  BY DEF TakeArrival
<1> HIDE DEF left
<1>6. QED
  BY <1>1, <1>2, <1>3, <1>4, <1>5 DEF Calls

(* What StepOn, ReachTarget and ReachWindowEnd have in common.             *)
LEMMA EnterNodeType ==
  ASSUME TypeOK, EnterNode
  PROVE  /\ Arrival.agv \in Agvs /\ Arrival.node \in Nodes
         /\ plan[Arrival.agv] \in Plans
         /\ OccTypeOK'
         /\ curNode' \in [Agvs -> Nodes]
         /\ inbox' \in Seq(Letters) /\ inHand' \in Calls \cup {NONE}
         /\ phase' = phase /\ todo' = todo /\ viewers' = viewers
<1>1. /\ Arrival.agv \in Agvs /\ Arrival.node \in Nodes
      /\ inbox' \in Seq(Letters) /\ inHand' \in Calls \cup {NONE}
      /\ phase' = phase /\ todo' = todo /\ viewers' = viewers
  BY ArrivalType DEF EnterNode
<1>2. OccTypeOK'
  BY <1>1, OccupyNodeType DEF EnterNode, TypeOK
<1>3. plan[Arrival.agv] \in Plans
  BY <1>1 DEF EnterNode, TypeOK
<1>4. curNode' \in [Agvs -> Nodes]
  BY <1>1 DEF EnterNode, TypeOK
<1>5. QED
  BY <1>1, <1>2, <1>3, <1>4

LEMMA TypeInit == Init => TypeOK
BY HomeAssumption, ViewersAssumption DEF Init, TypeOK, OccInit, OccTypeOK

LEMMA TypeStep == TypeOK /\ [Next]_vars => TypeOK'
<1> SUFFICES ASSUME TypeOK, [Next]_vars PROVE TypeOK'
  OBVIOUS
<1>1. CASE IgnoreArrival
  <2>1. /\ inbox' \in Seq(Letters) /\ inHand' \in Calls \cup {NONE}
        /\ phase' = phase /\ todo' = todo /\ viewers' = viewers
    BY <1>1, ArrivalType DEF IgnoreArrival
  <2>2. QED
    BY <1>1, <2>1 DEF TypeOK, OccTypeOK, IgnoreArrival, occVars, controllerVars, serverVars
<1>2. CASE StepOn
  <2>1. EnterNode
    BY <1>2 DEF StepOn
  <2>2. plan' \in [Agvs -> Plans \cup {NONE}]
    <3>1. [plan[Arrival.agv] EXCEPT !.index = @ + 1] \in Plans
      BY <2>1, EnterNodeType DEF Plans
    <3>2. plan' = [plan EXCEPT ![Arrival.agv] =
                    [plan[Arrival.agv] EXCEPT !.index = @ + 1]]
      BY <1>2 DEF StepOn
    <3>3. QED
      BY <2>1, <3>1, <3>2, EnterNodeType DEF TypeOK
  <2>3. QED
    BY <1>2, <2>1, <2>2, EnterNodeType DEF TypeOK, StepOn, controllerVars
<1>3. CASE ReachTarget
  <2>1. EnterNode
    BY <1>3 DEF ReachTarget
  <2>2. plan' \in [Agvs -> Plans \cup {NONE}]
    BY <1>3, <2>1, EnterNodeType DEF TypeOK, ReachTarget
  <2>3. QED
    BY <1>3, <2>1, <2>2, EnterNodeType DEF TypeOK, ReachTarget, controllerVars
<1>4. CASE ReachWindowEnd
  <2>1. EnterNode
    BY <1>4 DEF ReachWindowEnd
  <2>2. plan[Arrival.agv].target \in Nodes
    BY <2>1, EnterNodeType DEF Plans
  <2>3. CASE \E w \in Walks : CreateRoute(Arrival.agv, Arrival.node, w,
                                          plan[Arrival.agv].target)
    <3>1. PICK w \in Walks : CreateRoute(Arrival.agv, Arrival.node, w,
                                         plan[Arrival.agv].target)
      BY <2>3
    <3>2. QED
      BY <2>1, <2>2, <3>1, EnterNodeType, CreateRouteType DEF TypeOK
  <2>4. CASE plan' = [plan EXCEPT ![Arrival.agv] = NONE] /\ UNCHANGED controllerVars
    <3>1. plan' \in [Agvs -> Plans \cup {NONE}]
      BY <2>1, <2>4, EnterNodeType DEF TypeOK
    <3>2. QED
      BY <2>1, <2>4, <3>1, EnterNodeType DEF TypeOK, controllerVars
  <2>5. QED
    BY <1>4, <2>3, <2>4 DEF ReachWindowEnd
<1>5. CASE EndProcess
  BY <1>5 DEF TypeOK, OccTypeOK, EndProcess, occVars, controllerVars, serverVars, queueVars
<1>6. ASSUME NEW a \in Agvs, Collect(a) PROVE TypeOK'
  <2>1. phase' \in {"collect", "process", "drive"} /\ todo' \in SUBSET Agvs
    BY <1>6, VisitType DEF Collect
  <2>2. mail[a] \in Seq(Nodes) /\ mail' \in [Agvs -> Seq(Nodes)]
    BY <1>6 DEF TypeOK, Collect
  <2>3. [i \in 1..Len(mail[a]) |-> [agv |-> a, node |-> mail[a][i]]]
           \in Seq(Letters)
    BY <2>2 DEF Letters
  <2>4. inbox' \in Seq(Letters)
    BY <1>6, <2>3 DEF TypeOK, Collect
  <2>5. QED
    BY <1>6, <2>1, <2>2, <2>4 DEF TypeOK, OccTypeOK, Collect, Visit, occVars, serverVars
<1>7. ASSUME NEW a \in Agvs, Assign(a) PROVE TypeOK'
  <2>1. PICK w \in Walks, t \in Nodes : CreateRoute(a, curNode[a], w, t)
    BY <1>7 DEF Assign
  <2>2. curNode[a] \in Nodes
    BY DEF TypeOK
  <2>3. QED
    BY <1>7, <2>1, <2>2, CreateRouteType
    DEF TypeOK, OccTypeOK, Assign, occVars, frameVars, queueVars
<1>8. ASSUME NEW a \in Agvs, Hold(a) PROVE TypeOK'
  <2>1. phase' \in {"collect", "process", "drive"} /\ todo' \in SUBSET Agvs
    BY <1>8, VisitType DEF Hold, DriveTurn
  <2>2. QED
    BY <1>8, <2>1 DEF TypeOK, OccTypeOK, Hold, DriveTurn, Visit, occVars,
       controllerVars, serverVars
<1>9. ASSUME NEW a \in Agvs, Depart(a) PROVE TypeOK'
  <2>1. phase' \in {"collect", "process", "drive"} /\ todo' \in SUBSET Agvs
    BY <1>9, VisitType DEF Depart, DriveTurn
  <2>2. OccTypeOK'
    BY <1>9, LinkEnds, OccupyEdgeType DEF Depart, TypeOK
  <2>3. QED
    BY <1>9, <2>1, <2>2 DEF TypeOK, Depart, DriveTurn, Visit, serverVars
<1>10. ASSUME NEW a \in Agvs, Arrive(a) PROVE TypeOK'
  <2>1. phase' \in {"collect", "process", "drive"} /\ todo' \in SUBSET Agvs
    BY <1>10, VisitType DEF Arrive, DriveTurn
  <2>2. mail' \in [Agvs -> Seq(Nodes)]
    BY <1>10, LinkEnds DEF Arrive, TypeOK
  <2>3. QED
    BY <1>10, <2>1, <2>2
    DEF TypeOK, OccTypeOK, Arrive, DriveTurn, Visit, serverVars, occVars
<1>11. CASE ReadyMap
  <2>1. viewers' \in 1..MaxViewers
    BY <1>11, ViewersAssumption DEF ReadyMap, TypeOK
  <2>2. QED
    BY <1>11, <2>1
    DEF TypeOK, OccTypeOK, ReadyMap, occVars, controllerVars, serverVars, queueVars
<1>12. CASE UNCHANGED vars
  BY <1>12
  DEF TypeOK, OccTypeOK, vars, occVars, controllerVars, serverVars, frameVars, queueVars
<1>13. QED
  BY <1>1, <1>2, <1>3, <1>4, <1>5, <1>6, <1>7, <1>8, <1>9, <1>10, <1>11, <1>12
  DEF Next, Process

(* Every variable keeps the type its C++ counterpart is declared with.     *)
THEOREM TypeCorrect == Spec => []TypeOK
<1>1. QED
  BY TypeInit, TypeStep, PTL DEF Spec

-----------------------------------------------------------------------------
(* What a new route leaves of the invariant's parts.                       *)
LEMMA CreateRouteStops ==
  ASSUME TypeOK, NEW a \in Agvs, NEW f \in Nodes, NEW w \in Walks,
         NEW t \in Nodes, CreateRoute(a, f, w, t)
  PROVE  /\ moving'[a] = FALSE /\ mail'[a] = <<>>
         /\ \A b \in Agvs \ {a} : /\ moving'[b] = moving[b]
                                  /\ route'[b] = route[b]
                                  /\ link'[b] = link[b]
                                  /\ mail'[b] = mail[b]
BY DEF TypeOK, CreateRoute, FollowRoute

(* The next arrival belongs to an AGV that stands still.                   *)
LEMMA ArrivalStandsStill ==
  ASSUME TypeOK, ArrivalSeenFirst, TakeArrival
  PROVE  ~moving[Arrival.agv]
<1>1. CASE inHand = NONE
  <2>1. inbox \in Seq(Letters) /\ inbox # <<>> /\ inbox[1] = Arrival
    BY <1>1, Taken DEF TypeOK
  <2>2. 1 \in 1..Len(inbox)
    BY <2>1
  <2>3. QED
    BY <2>1, <2>2, ArrivalType DEF ArrivalSeenFirst
<1>2. CASE inHand # NONE
  <2>1. InHand(Arrival.agv)
    BY <1>2, Taken DEF InHand
  <2>2. QED
    BY <2>1, ArrivalType DEF ArrivalSeenFirst
<1>3. QED
  BY <1>1, <1>2

(* The letters behind the oldest one are letters of the inbox.             *)
LEMMA RestOfInbox ==
  ASSUME TypeOK, TakeArrival, NEW i \in 1..Len(inbox')
  PROVE  \E j \in 1..Len(inbox) : inbox'[i] = inbox[j]
<1>1. CASE inHand = NONE
  <2>1. inbox \in Seq(Letters) /\ inbox # <<>> /\ inbox' = Tail(inbox)
    BY <1>1, Taken DEF TypeOK
  <2>2. Len(inbox') = Len(inbox) - 1 /\ inbox'[i] = inbox[i + 1]
    BY <2>1, HeadTailProperties
  <2>3. i + 1 \in 1..Len(inbox)
    BY <2>1, <2>2
  <2>4. QED
    BY <2>2, <2>3
<1>2. CASE inHand # NONE
  BY <1>2, Taken
<1>3. QED
  BY <1>1, <1>2

(* No AGV rides while its arrival is taken, and so none rides that has a   *)
(* letter behind it, or callbacks still to come.                           *)
LEMMA SeenFirstOn ==
  ASSUME TypeOK, ArrivalSeenFirst, TakeArrival, ~moving'[Arrival.agv],
         \A b \in Agvs : moving'[b] => moving[b] /\ mail'[b] = mail[b]
  PROVE  ArrivalSeenFirst'
<1>1. ASSUME NEW b \in Agvs, moving'[b]
      PROVE  /\ mail'[b] = <<>> /\ ~InHand(b)'
             /\ \A i \in 1..Len(inbox') : inbox'[i].agv # b
  <2>1. moving[b] /\ mail'[b] = <<>> /\ \A j \in 1..Len(inbox) : inbox[j].agv # b
    BY <1>1 DEF ArrivalSeenFirst
  <2>2. ~InHand(b)'
    BY <1>1, ArrivalType DEF InHand
  <2>3. QED
    BY <2>1, <2>2, RestOfInbox
<1>2. QED
  BY <1>1 DEF ArrivalSeenFirst

LEMMA InvInit == Init => IInv
<1> SUFFICES ASSUME Init PROVE IInv
  OBVIOUS
<1>1. TypeOK
  BY TypeInit
<1>2. QED
  BY <1>1 DEF Init, IInv, RideBooked, PointersHeld, ArrivalSeenFirst,
     LettersInFrame, HandInPlace, OccInit

(* An arrival that is handled, whatever becomes of the plan: the AGV       *)
(* stands still and may keep its route or start a new one.                 *)
LEMMA HandledArrival ==
  ASSUME IInv, TypeOK', EnterNode,
         \/ UNCHANGED controllerVars
         \/ \E w \in Walks : CreateRoute(Arrival.agv, Arrival.node, w,
                                         plan[Arrival.agv].target)
  PROVE  IInv'
<1> DEFINE a == Arrival.agv
<1>1. /\ TypeOK /\ OccTypeOK /\ TakeArrival /\ a \in Agvs /\ Arrival.node \in Nodes
      /\ plan[a] \in Plans
  BY EnterNodeType DEF IInv, TypeOK, EnterNode
<1>2. ~moving[a]
  BY <1>1, ArrivalStandsStill DEF IInv
<1>3. /\ ~moving'[a]
      /\ mail[a] = <<>> => mail'[a] = <<>>
      /\ \A b \in Agvs \ {a} : /\ moving'[b] = moving[b]
                               /\ route'[b] = route[b]
                               /\ link'[b] = link[b]
                               /\ mail'[b] = mail[b]
  <2>1. CASE UNCHANGED controllerVars
    BY <1>2, <2>1 DEF controllerVars
  <2>2. CASE \E w \in Walks : CreateRoute(a, Arrival.node, w, plan[a].target)
    <3>1. plan[a].target \in Nodes
      BY <1>1 DEF Plans
    <3>2. QED
      BY <1>1, <2>2, <3>1, CreateRouteStops
  <2>3. QED
    BY <2>1, <2>2
<1>4. PointersHeld' /\ \A b \in Agvs \ {a} : agvEdge'[b] = agvEdge[b]
  <2>1. OccupyNode(a, Arrival.node)
    BY DEF EnterNode
  <2>2. QED
    BY <1>1, <2>1, OccupyNodeKeepsOthers DEF IInv
<1>5. RideBooked'
  BY <1>3, <1>4 DEF IInv, RideBooked, HasLink, CurEdge, From, To
<1>6. ArrivalSeenFirst'
  <2>1. \A b \in Agvs : moving'[b] => moving[b] /\ mail'[b] = mail[b]
    BY <1>3
  <2>2. QED
    BY <1>1, <1>3, <2>1, SeenFirstOn DEF IInv
<1>7. LettersInFrame'
  BY <1>1, <1>3, ArrivalType DEF IInv, LettersInFrame
<1>8. HandInPlace'
  <2>1. curNode'[a] = Arrival.node
    BY <1>1 DEF EnterNode, TypeOK
  <2>2. QED
    BY <1>1, <2>1, ArrivalType DEF IInv, HandInPlace
<1>9. QED
  BY <1>4, <1>5, <1>6, <1>7, <1>8 DEF IInv

LEMMA InvStep == IInv /\ [Next]_vars => IInv'
<1> SUFFICES ASSUME IInv, [Next]_vars PROVE IInv'
  OBVIOUS
<1> USE DEF IInv
<1>0. TypeOK /\ OccTypeOK /\ TypeOK'
  BY TypeStep DEF TypeOK
<1>1. CASE IgnoreArrival
  <2>1. /\ TakeArrival /\ plan[Arrival.agv] = NONE
        /\ UNCHANGED <<occVars, controllerVars, serverVars>>
    BY <1>1 DEF IgnoreArrival
  <2>2. RideBooked' /\ PointersHeld'
    BY <2>1 DEF RideBooked, PointersHeld, occVars, controllerVars, HasLink, CurEdge, From, To
  <2>3. LettersInFrame'
    BY <1>0, <2>1, ArrivalType DEF LettersInFrame, controllerVars
  <2>4. ArrivalSeenFirst'
    BY <1>0, <2>1, ArrivalStandsStill, SeenFirstOn DEF controllerVars
  <2>5. HandInPlace'
    BY <1>0, <2>1, ArrivalType DEF HandInPlace, serverVars
  <2>6. QED
    BY <1>0, <2>2, <2>3, <2>4, <2>5
<1>2. CASE StepOn
  BY <1>0, <1>2, HandledArrival DEF StepOn
<1>3. CASE ReachTarget
  BY <1>0, <1>3, HandledArrival DEF ReachTarget
<1>4. CASE ReachWindowEnd
  BY <1>0, <1>4, HandledArrival DEF ReachWindowEnd
<1>5. CASE EndProcess
  <2>1. RideBooked' /\ PointersHeld' /\ ArrivalSeenFirst'
    BY <1>5 DEF EndProcess, occVars, controllerVars, queueVars, RideBooked, PointersHeld,
       ArrivalSeenFirst, InHand, HasLink, CurEdge, From, To
  <2>2. LettersInFrame' /\ HandInPlace'
    BY <1>0, <1>5
    DEF EndProcess, controllerVars, queueVars, LettersInFrame, HandInPlace, TypeOK
  <2>3. QED
    BY <1>0, <2>1, <2>2
<1>6. ASSUME NEW a \in Agvs, Collect(a) PROVE IInv'
  <2>1. RideBooked' /\ PointersHeld'
    BY <1>6 DEF Collect, occVars, RideBooked, PointersHeld, HasLink, CurEdge, From, To
  <2>2. LettersInFrame'
    BY <1>0, <1>6 DEF Collect, Visit, LettersInFrame, TypeOK
  <2>3. \A b \in Agvs : moving'[b] => mail'[b] = <<>>
    BY <1>0, <1>6 DEF Collect, ArrivalSeenFirst, TypeOK
  <2>4. ASSUME NEW b \in Agvs, moving'[b], NEW i \in 1..Len(inbox')
        PROVE  inbox'[i].agv # b
    <3> DEFINE new == [k \in 1..Len(mail[a]) |-> [agv |-> a, node |-> mail[a][k]]]
    <3>1. inbox' = inbox \o new /\ moving[b]
      BY <1>6, <2>4 DEF Collect
    <3>2. inbox \in Seq(Letters) /\ mail[a] \in Seq(Nodes)
      BY <1>0 DEF TypeOK
    <3>3. new \in Seq(Letters) /\ Len(new) = Len(mail[a])
      BY <3>2 DEF Letters
    <3>4. CASE i \in 1..Len(inbox)
      <4>1. inbox'[i] = inbox[i]
        BY <3>1, <3>2, <3>3, <3>4
      <4>2. QED
        BY <3>1, <3>4, <4>1 DEF ArrivalSeenFirst
    <3>5. CASE i \notin 1..Len(inbox)
      <4> DEFINE k == i - Len(inbox)
      <4>1. k \in 1..Len(new) /\ inbox'[i] = new[k]
        BY <2>4, <3>1, <3>2, <3>3, <3>5
      <4>2. Len(mail[a]) # 0
        BY <3>2, <3>3, <4>1
      <4>3. a # b
        BY <3>1, <3>2, <4>2 DEF ArrivalSeenFirst
      <4>4. new[k].agv = a
        BY <3>3, <4>1
      <4>5. QED
        BY <4>1, <4>3, <4>4
    <3>6. QED
      BY <3>4, <3>5
  <2>5. inHand = NONE /\ inHand' = NONE
    BY <1>6 DEF Collect, Visit, HandInPlace
  <2>6. QED
    BY <1>0, <2>1, <2>2, <2>3, <2>4, <2>5 DEF ArrivalSeenFirst, HandInPlace, InHand
<1>7. ASSUME NEW a \in Agvs, Assign(a) PROVE IInv'
  <2>1. PICK w \in Walks, t \in Nodes : CreateRoute(a, curNode[a], w, t)
    BY <1>7 DEF Assign
  <2>2. curNode[a] \in Nodes
    BY <1>0 DEF TypeOK
  <2>3. /\ moving'[a] = FALSE /\ mail'[a] = <<>>
        /\ \A b \in Agvs \ {a} : /\ moving'[b] = moving[b]
                                 /\ route'[b] = route[b]
                                 /\ link'[b] = link[b]
                                 /\ mail'[b] = mail[b]
    BY <1>0, <2>1, <2>2, CreateRouteStops
  <2>4. RideBooked' /\ PointersHeld'
    BY <1>7, <2>3 DEF Assign, occVars, RideBooked, PointersHeld, HasLink, CurEdge, From, To
  <2>5. ArrivalSeenFirst'
    BY <1>7, <2>3 DEF Assign, frameVars, queueVars, ArrivalSeenFirst, InHand
  <2>6. LettersInFrame' /\ HandInPlace'
    BY <1>7, <2>3 DEF Assign, frameVars, queueVars, LettersInFrame, HandInPlace
  <2>7. QED
    BY <1>0, <2>4, <2>5, <2>6
<1>8. ASSUME NEW a \in Agvs, Hold(a) PROVE IInv'
  <2>1. RideBooked' /\ PointersHeld'
    BY <1>8 DEF Hold, occVars, controllerVars, RideBooked, PointersHeld, HasLink, CurEdge, From, To
  <2>2. LettersInFrame' /\ HandInPlace'
    BY <1>0, <1>8
    DEF Hold, DriveTurn, Visit, controllerVars, serverVars, LettersInFrame, HandInPlace
  <2>3. ArrivalSeenFirst'
    BY <1>8 DEF Hold, DriveTurn, Visit, controllerVars, ArrivalSeenFirst, InHand
  <2>4. QED
    BY <1>0, <2>1, <2>2, <2>3
<1>9. ASSUME NEW a \in Agvs, Depart(a) PROVE IInv'
  <2>1. /\ phase = "drive" /\ a \in todo /\ inbox = <<>> /\ inbox' = <<>>
        /\ inHand = NONE /\ inHand' = NONE
        /\ HasLink(a) /\ ~moving[a] /\ OccupyEdge(a, From(a), To(a))
        /\ edgeOcc[CurEdge(a)] \in {NONE, a}
        /\ route' = route /\ link' = link /\ mail' = mail
        /\ moving' = [moving EXCEPT ![a] = TRUE]
    BY <1>9 DEF Depart, DriveTurn, Visit, LettersInFrame, HandInPlace,
       IsResourceClearForExecution, CurEdge
  <2>2. CurEdge(a) \in Edges \ {NONE} /\ a # NONE
    BY <1>0, <2>1, LinkEnds, NoneAssumption
  <2>3. /\ edgeOcc' = [edgeOcc EXCEPT ![CurEdge(a)] = a]
        /\ agvEdge' = [agvEdge EXCEPT ![a] = CurEdge(a)]
    BY <2>1 DEF OccupyEdge, CurEdge
  <2>4. RideBooked'
    BY <1>0, <2>1, <2>2, <2>3 DEF RideBooked, HasLink, CurEdge, From, To, OccTypeOK, TypeOK
  <2>5. PointersHeld'
    BY <1>0, <2>1, <2>2, <2>3, NoneAssumption DEF PointersHeld, OccTypeOK
  <2>6. ArrivalSeenFirst'
    BY <1>0, <2>1 DEF ArrivalSeenFirst, LettersInFrame, InHand, TypeOK
  <2>7. LettersInFrame' /\ HandInPlace'
    BY <1>9, <2>1 DEF Depart, DriveTurn, Visit, LettersInFrame, HandInPlace
  <2>8. QED
    BY <1>0, <2>4, <2>5, <2>6, <2>7
<1>10. ASSUME NEW a \in Agvs, Arrive(a) PROVE IInv'
  <2>1. /\ phase = "drive" /\ inbox = <<>> /\ inbox' = <<>>
        /\ inHand = NONE /\ inHand' = NONE
        /\ moving' = [moving EXCEPT ![a] = FALSE]
        /\ link' = [link EXCEPT ![a] = @ + 1] /\ route' = route
        /\ mail' = [mail EXCEPT ![a] = Append(@, To(a))]
        /\ edgeOcc' = edgeOcc /\ agvEdge' = agvEdge
    BY <1>10 DEF Arrive, DriveTurn, Visit, LettersInFrame, HandInPlace, occVars
  <2>2. RideBooked' /\ PointersHeld'
    BY <1>0, <2>1 DEF RideBooked, PointersHeld, HasLink, CurEdge, From, To, TypeOK
  <2>3. ArrivalSeenFirst'
    BY <1>0, <2>1 DEF ArrivalSeenFirst, InHand, TypeOK
  <2>4. LettersInFrame' /\ HandInPlace'
    BY <1>0, <1>10, <2>1 DEF Arrive, DriveTurn, Visit, LettersInFrame, HandInPlace, TypeOK
  <2>5. QED
    BY <1>0, <2>2, <2>3, <2>4
<1>11. CASE ReadyMap \/ UNCHANGED vars
  <2>1. /\ UNCHANGED <<occVars, controllerVars, serverVars, queueVars, phase, todo>>
        /\ viewers' \in {viewers, viewers + 1} /\ viewers \in Nat
    BY <1>0, <1>11, ViewersAssumption DEF ReadyMap, vars, frameVars, TypeOK
  <2>2. RideBooked' /\ PointersHeld'
    BY <2>1 DEF occVars, controllerVars, RideBooked, PointersHeld, HasLink, CurEdge, From, To
  <2>3. ArrivalSeenFirst' /\ LettersInFrame'
    BY <2>1 DEF controllerVars, queueVars, ArrivalSeenFirst, LettersInFrame, InHand
  <2>4. HandInPlace'
    <3>1. viewers > 1 => viewers' > 1
      BY <2>1
    <3>2. QED
      BY <2>1, <3>1 DEF HandInPlace, serverVars, queueVars
  <2>5. QED
    BY <1>0, <2>2, <2>3, <2>4
<1>12. QED
  BY <1>1, <1>2, <1>3, <1>4, <1>5, <1>6, <1>7, <1>8, <1>9, <1>10, <1>11
  DEF Next, Process

LEMMA InvCorrect == Spec => []IInv
<1>1. QED
  BY InvInit, InvStep, PTL DEF Spec

-----------------------------------------------------------------------------
(* The maps agree with every ride, for any number of AGVs on any map.      *)
THEOREM RidersHoldTheirEdges == Spec => []RiderHoldsEdge
<1>1. IInv => RiderHoldsEdge
  <2>1. ASSUME IInv, NEW a \in Agvs, moving[a]
        PROVE  agvEdge[a] = CurEdge(a) /\ edgeOcc[CurEdge(a)] = a
    <3>1. HasLink(a) /\ agvEdge[a] = CurEdge(a)
      BY <2>1 DEF IInv, RideBooked
    <3>2. CurEdge(a) # NONE
      BY <2>1, <3>1, LinkEnds DEF IInv
    <3>3. QED
      BY <2>1, <3>1, <3>2 DEF IInv, PointersHeld
  <2>2. QED
    BY <2>1 DEF RiderHoldsEdge
<1>2. QED
  BY <1>1, InvCorrect, PTL

(* Two AGVs never ride the same edge: an edge has one entry, and both      *)
(* riders would have to be in it.                                          *)
THEOREM EdgesExclusive == Spec => []EdgeExclusion
<1>1. RiderHoldsEdge => EdgeExclusion
  BY DEF RiderHoldsEdge, EdgeExclusion
<1>2. QED
  BY <1>1, RidersHoldTheirEdges, PTL

(* The server reads an arrival before its sender departs again.            *)
THEOREM ArrivalsSeenFirst == Spec => []ArrivalSeenFirst
<1>1. IInv => ArrivalSeenFirst
  BY DEF IInv
<1>2. QED
  BY <1>1, InvCorrect, PTL

-----------------------------------------------------------------------------
(* Refinement.                                                             *)

(* An AGV that stops riding leaves its section.                            *)
LEMMA StopIsLeave ==
  ASSUME TypeOK, NEW a \in Agvs, moving'[a] = FALSE,
         \A b \in Agvs \ {a} : /\ moving'[b] = moving[b]
                               /\ route'[b] = route[b]
                               /\ link'[b] = link[b],
         moving[a] => HasLink(a)
  PROVE  Blocks!Leave(a) \/ UNCHANGED riding
<1>1. riding' = [riding EXCEPT ![a] = NONE]
  BY DEF riding, CurEdge, From, To
<1>2. CASE moving[a]
  <2>1. riding[a] # NONE
    BY <1>2, LinkEnds DEF riding
  <2>2. QED
    BY <1>1, <2>1 DEF Blocks!Leave
<1>3. CASE ~moving[a]
  <2>1. riding[a] = NONE
    BY <1>3 DEF riding
  <2>2. QED
    BY <1>1, <2>1 DEF riding
<1>4. QED
  BY <1>2, <1>3 DEF TypeOK

(* Traffic implements the abstract interlock: a departure enters a free    *)
(* section, an arrival or a new route leaves one, the rest is stuttering.  *)
THEOREM TrafficImplementsBlocks == Spec => BlockSpec
<1>1. Init => Blocks!Init
  BY DEF Init, Blocks!Init, riding
<1>2. ASSUME IInv, [Next]_vars PROVE [Blocks!Next]_riding
  <2>0. TypeOK /\ \A a \in Agvs : moving[a] => HasLink(a)
    BY <1>2 DEF IInv, RideBooked
  <2>1. ASSUME NEW a \in Agvs, Blocks!Leave(a) \/ UNCHANGED riding
        PROVE  [Blocks!Next]_riding
    BY <2>1 DEF Blocks!Next
  <2>2. ASSUME UNCHANGED <<moving, route, link>> PROVE UNCHANGED riding
    BY <2>2 DEF riding, CurEdge, From, To
  <2>3. ASSUME NEW a \in Agvs, NEW f \in Nodes, NEW w \in Walks, NEW t \in Nodes,
               CreateRoute(a, f, w, t)
        PROVE  [Blocks!Next]_riding
    BY <2>0, <2>1, <2>3, CreateRouteStops, StopIsLeave
  <2>4. CASE ReachWindowEnd
    <3>1. EnterNode
      BY <2>4 DEF ReachWindowEnd
    <3>2. /\ Arrival.agv \in Agvs /\ Arrival.node \in Nodes
          /\ plan[Arrival.agv].target \in Nodes
      BY <2>0, <3>1, EnterNodeType DEF Plans
    <3>3. QED
      BY <2>2, <2>3, <2>4, <3>2 DEF ReachWindowEnd, controllerVars
  <2>5. ASSUME NEW a \in Agvs, Assign(a) PROVE [Blocks!Next]_riding
    <3>1. curNode[a] \in Nodes
      BY <2>0 DEF TypeOK
    <3>2. QED
      BY <2>3, <2>5, <3>1 DEF Assign
  <2>6. ASSUME NEW a \in Agvs, Depart(a) PROVE [Blocks!Next]_riding
    <3>1. /\ HasLink(a) /\ ~moving[a] /\ edgeOcc[CurEdge(a)] \in {NONE, a}
          /\ route' = route /\ link' = link
          /\ moving' = [moving EXCEPT ![a] = TRUE]
      BY <2>6 DEF Depart, IsResourceClearForExecution, CurEdge
    <3>2. CurEdge(a) \in Edges \ {NONE}
      BY <2>0, <3>1, LinkEnds
    <3>3. riding' = [riding EXCEPT ![a] = CurEdge(a)]
      BY <2>0, <3>1 DEF riding, CurEdge, From, To, TypeOK
    <3>4. ASSUME NEW b \in Agvs PROVE riding[b] # CurEdge(a)
      <4>1. CASE moving[b]
        <5>1. HasLink(b) /\ agvEdge[b] = CurEdge(b)
          BY <1>2, <4>1 DEF IInv, RideBooked
        <5>2. CurEdge(b) # NONE
          BY <2>0, <5>1, LinkEnds
        <5>3. edgeOcc[CurEdge(b)] = b
          BY <1>2, <5>1, <5>2 DEF IInv, PointersHeld
        <5>4. b # a /\ b # NONE
          BY <3>1, <4>1, NoneAssumption
        <5>5. QED
          BY <3>1, <4>1, <5>3, <5>4 DEF riding
      <4>2. CASE ~moving[b]
        BY <3>2, <4>2 DEF riding
      <4>3. QED
        BY <4>1, <4>2
    <3>5. riding[a] = NONE
      BY <3>1 DEF riding
    <3>6. Blocks!Enter(a, CurEdge(a))
      BY <3>3, <3>4, <3>5 DEF Blocks!Enter
    <3>7. QED
      BY <3>2, <3>6 DEF Blocks!Next
  <2>7. ASSUME NEW a \in Agvs, Arrive(a) PROVE [Blocks!Next]_riding
    <3>1. /\ moving'[a] = FALSE
          /\ \A b \in Agvs \ {a} : /\ moving'[b] = moving[b]
                                   /\ route'[b] = route[b]
                                   /\ link'[b] = link[b]
      BY <2>0, <2>7 DEF Arrive, TypeOK
    <3>2. QED
      BY <2>0, <2>1, <3>1, StopIsLeave
  <2>8. CASE IgnoreArrival \/ StepOn \/ ReachTarget \/ EndProcess \/ ReadyMap
    BY <2>2, <2>8
    DEF IgnoreArrival, StepOn, ReachTarget, EndProcess, ReadyMap, controllerVars
  <2>9. ASSUME NEW a \in Agvs, Collect(a) \/ Hold(a) PROVE [Blocks!Next]_riding
    BY <2>2, <2>9 DEF Collect, Hold, controllerVars
  <2>10. CASE UNCHANGED vars
    BY <2>2, <2>10 DEF vars, controllerVars
  <2>11. QED
    BY <1>2, <2>4, <2>5, <2>6, <2>7, <2>8, <2>9, <2>10 DEF Next, Process
<1>3. QED
  BY <1>1, <1>2, InvCorrect, PTL DEF Spec, BlockSpec, Blocks!Spec

-----------------------------------------------------------------------------
(* The controllers of Traffic are Robots.                                  *)

(* What the abstract robot of an AGV is made of.                           *)
SameDriver(a) ==
  moving'[a] = moving[a] /\ route'[a] = route[a] /\ link'[a] = link[a] /\ mail'[a] = mail[a]

LEMMA ControllerType ==
  ASSUME TypeOK, NEW a \in Agvs
  PROVE  link[a] \in Nat \ {0} /\ route[a] \in Seq(Nodes) /\ mail[a] \in Seq(Nodes)
<1>1. link[a] \in Nat \ {0} /\ route[a] \in Walks \cup {<<>>} /\ mail[a] \in Seq(Nodes)
  BY DEF TypeOK
<1>2. <<>> \in Seq(Nodes) /\ \A w \in Walks : w \in Seq(Nodes)
  BY WalksAssumption
<1>3. QED
  BY <1>1, <1>2

LEMMA SameIsStutter ==
  ASSUME NEW a \in Agvs, SameDriver(a)
  PROVE  [Driver(a)!Next]_(Driver(a)!vars)
BY DEF SameDriver, Driver!vars

LEMMA NewRouteFollowed ==
  ASSUME TypeOK, NEW a \in Agvs, NEW b \in Agvs, NEW f \in Nodes, NEW w \in Walks,
         NEW t \in Nodes, CreateRoute(b, f, w, t)
  PROVE  [Driver(a)!Next]_(Driver(a)!vars)
<1>1. CASE b # a
  <2>1. SameDriver(a)
    BY <1>1, CreateRouteStops DEF SameDriver
  <2>2. QED
    BY <2>1, SameIsStutter
<1>2. CASE b = a
  <2>1. route'[a] = w /\ link'[a] = 1 /\ moving'[a] = FALSE /\ mail'[a] = <<>>
    BY <1>2 DEF TypeOK, CreateRoute, FollowRoute
  <2>2. Len(w) \in Nat /\ Len(w) >= 2 /\ w # <<>>
    BY WalksAssumption
  <2>3. Len(w) - 1 \in Nat /\ Len(mail'[a]) = 0
    BY <2>1, <2>2
  <2>4. Driver(a)!Follow
    BY <2>1, <2>2, <2>3 DEF Driver!Follow
  <2>5. QED
    BY <2>4 DEF Driver!Next
<1>3. QED
  BY <1>1, <1>2

LEMMA CollectIsRead ==
  ASSUME TypeOK, NEW a \in Agvs, NEW b \in Agvs, Collect(b)
  PROVE  [Driver(a)!Next]_(Driver(a)!vars)
<1>1. UNCHANGED <<route, link, moving>> /\ mail' = [mail EXCEPT ![b] = <<>>]
  BY DEF Collect
<1>2. CASE b # a
  <2>1. SameDriver(a)
    BY <1>1, <1>2 DEF SameDriver, TypeOK
  <2>2. QED
    BY <2>1, SameIsStutter
<1>3. CASE b = a
  <2>1. Len(mail'[a]) = 0
    BY <1>1, <1>3 DEF TypeOK
  <2>2. Driver(a)!Read
    BY <1>1, <2>1 DEF Driver!Read
  <2>3. QED
    BY <2>2 DEF Driver!Next
<1>4. QED
  BY <1>2, <1>3

LEMMA DepartureMapped ==
  ASSUME IInv, NEW a \in Agvs, NEW b \in Agvs, Depart(b)
  PROVE  [Driver(a)!Next]_(Driver(a)!vars)
<1>1. /\ UNCHANGED <<route, link, mail>> /\ moving' = [moving EXCEPT ![b] = TRUE]
      /\ ~moving[b] /\ HasLink(b) /\ phase = "drive" /\ b \in todo
  BY DEF Depart, DriveTurn, Visit
<1>2. CASE b # a
  <2>1. SameDriver(a)
    BY <1>1, <1>2 DEF SameDriver, IInv, TypeOK
  <2>2. QED
    BY <2>1, SameIsStutter
<1>3. CASE b = a
  <2>1. mail[a] = <<>>
    BY <1>1, <1>3 DEF IInv, LettersInFrame
  <2>2. /\ link[a] \in Nat \ {0} /\ link[a] < Len(route[a]) /\ route[a] # <<>>
        /\ Len(route[a]) \in Nat
    <3>1. link[a] \in Nat \ {0} /\ route[a] \in Seq(Nodes)
      BY ControllerType DEF IInv
    <3>2. QED
      BY <1>1, <1>3, <3>1 DEF HasLink
  <2>3. Len(route[a]) - link[a] > 0 /\ Len(mail[a]) = 0
    BY <2>1, <2>2
  <2>4. moving'[a] = TRUE
    BY <1>1, <1>3 DEF IInv, TypeOK
  <2>5. Driver(a)!Depart
    BY <1>1, <1>3, <2>2, <2>3, <2>4 DEF Driver!Depart
  <2>6. QED
    BY <2>5 DEF Driver!Next
<1>4. QED
  BY <1>2, <1>3

LEMMA ArrivalMapped ==
  ASSUME IInv, NEW a \in Agvs, NEW b \in Agvs, Arrive(b)
  PROVE  [Driver(a)!Next]_(Driver(a)!vars)
<1>1. /\ route' = route /\ link' = [link EXCEPT ![b] = @ + 1]
      /\ moving' = [moving EXCEPT ![b] = FALSE]
      /\ mail' = [mail EXCEPT ![b] = Append(@, To(b))]
      /\ moving[b] /\ HasLink(b)
  BY DEF Arrive
<1>2. CASE b # a
  <2>1. SameDriver(a)
    BY <1>1, <1>2 DEF SameDriver, IInv, TypeOK
  <2>2. QED
    BY <2>1, SameIsStutter
<1>3. CASE b = a
  <2>1. /\ link[a] \in Nat \ {0} /\ route[a] # <<>> /\ Len(route[a]) \in Nat
        /\ mail[a] \in Seq(Nodes)
    <3>1. link[a] \in Nat \ {0} /\ route[a] \in Seq(Nodes) /\ mail[a] \in Seq(Nodes)
      BY ControllerType DEF IInv
    <3>2. QED
      BY <1>1, <1>3, <3>1 DEF HasLink
  <2>2. link'[a] = link[a] + 1 /\ moving'[a] = FALSE /\ mail'[a] = Append(mail[a], To(a))
    BY <1>1, <1>3 DEF IInv, TypeOK
  <2>3. Len(mail'[a]) = Len(mail[a]) + 1
    BY <2>1, <2>2
  <2>4. Len(route[a]) - link'[a] = (Len(route[a]) - link[a]) - 1
    BY <2>1, <2>2
  <2>5. Driver(a)!Arrive
    BY <1>1, <1>3, <2>1, <2>2, <2>3, <2>4 DEF Driver!Arrive
  <2>6. QED
    BY <2>5 DEF Driver!Next
<1>4. QED
  BY <1>2, <1>3

LEMMA DriverStep ==
  ASSUME IInv, [Next]_vars, NEW a \in Agvs
  PROVE  [Driver(a)!Next]_(Driver(a)!vars)
<1>0. TypeOK
  BY DEF IInv
<1>1. CASE UNCHANGED controllerVars
  BY <1>1, SameIsStutter DEF controllerVars, SameDriver
<1>2. CASE \/ IgnoreArrival \/ StepOn \/ ReachTarget \/ EndProcess \/ ReadyMap
           \/ UNCHANGED vars
  BY <1>1, <1>2 DEF IgnoreArrival, StepOn, ReachTarget, EndProcess, ReadyMap, vars
<1>3. CASE ReachWindowEnd
  <2>1. EnterNode
    BY <1>3 DEF ReachWindowEnd
  <2>2. /\ Arrival.agv \in Agvs /\ Arrival.node \in Nodes
        /\ plan[Arrival.agv].target \in Nodes
    BY <1>0, <2>1, EnterNodeType DEF Plans
  <2>3. CASE \E w \in Walks : CreateRoute(Arrival.agv, Arrival.node, w, plan[Arrival.agv].target)
    BY <1>0, <2>2, <2>3, NewRouteFollowed
  <2>4. QED
    BY <1>1, <1>3, <2>3 DEF ReachWindowEnd
<1>4. ASSUME NEW b \in Agvs, Assign(b)
      PROVE  [Driver(a)!Next]_(Driver(a)!vars)
  <2>1. curNode[b] \in Nodes
    BY <1>0 DEF TypeOK
  <2>2. PICK w \in Walks, t \in Nodes : CreateRoute(b, curNode[b], w, t)
    BY <1>4 DEF Assign
  <2>3. QED
    BY <1>0, <2>1, <2>2, NewRouteFollowed
<1>5. ASSUME NEW b \in Agvs, Hold(b)
      PROVE  [Driver(a)!Next]_(Driver(a)!vars)
  BY <1>1, <1>5 DEF Hold
<1>6. ASSUME NEW b \in Agvs, Collect(b) \/ Depart(b) \/ Arrive(b)
      PROVE  [Driver(a)!Next]_(Driver(a)!vars)
  BY <1>0, <1>6, CollectIsRead, DepartureMapped, ArrivalMapped
<1>7. QED
  BY <1>2, <1>3, <1>4, <1>5, <1>6 DEF Next, Process

(* Whatever routes are issued and whatever the interlock refuses, every    *)
(* AGV of the fleet drives as a Robot, and so as the timed Controller may: *)
(* one link at a time, and never off before its arrival was collected.     *)
THEOREM EveryAgvIsARobot ==
  ASSUME NEW a \in Agvs
  PROVE  Spec => Driver(a)!Spec
<1>1. Init => Driver(a)!Init
  <2> SUFFICES ASSUME Init PROVE Driver(a)!Init
    OBVIOUS
  <2>1. route[a] = <<>> /\ moving[a] = FALSE /\ Len(mail[a]) = 0
    <3>1. /\ route = [b \in Agvs |-> <<>>] /\ mail = [b \in Agvs |-> <<>>]
          /\ moving = [b \in Agvs |-> FALSE]
      BY DEF Init
    <3>2. QED
      BY <3>1
  <2>2. QED
    BY <2>1 DEF Driver!Init
<1>2. IInv /\ [Next]_vars => [Driver(a)!Next]_(Driver(a)!vars)
  BY DriverStep
<1>3. QED
  BY <1>1, <1>2, InvCorrect, PTL DEF Spec, Driver!Spec

-----------------------------------------------------------------------------
(* Robot, plan and occupancy in step.                                      *)

(* The server has still to read of b what it had to read.                  *)
SameLetters(b) ==
  /\ NoLetter(b)' <=> NoLetter(b)
  /\ \A n : OneLetter(b, n) => OneLetter(b, n)'
  /\ InHand(b)' => InHand(b)

(* Nothing has happened to b, and nothing was booked for it.               *)
LEMMA StoryKept ==
  ASSUME NEW b \in Agvs, InStep(b), SameLetters(b), TypeOK,
         moving'[b] = moving[b], plan'[b] = plan[b], route'[b] = route[b],
         link'[b] = link[b], curNode'[b] = curNode[b],
         agvEdge'[b] = agvEdge[b], agvNode'[b] = agvNode[b],
         viewers' = 1 => viewers = 1,
         \A e \in Edges : edgeOcc'[e] = b => edgeOcc[e] = b,
         \A n \in Nodes : nodeOcc'[n] = b => nodeOcc[n] = b
  PROVE  InStep(b)'
<1>1. (UnderWay(b)' <=> UnderWay(b)) /\ (HasLink(b)' <=> HasLink(b))
  BY DEF SameLetters, UnderWay, HasLink
<1>2. \A e \in Edges : edgeOcc'[e] = b => agvEdge'[b] = e /\ UnderWay(b)'
  BY <1>1 DEF InStep
<1>3. \A n \in Nodes :
        nodeOcc'[n] = b => agvNode'[b] = n /\ curNode'[b] = n /\ ~UnderWay(b)'
  BY <1>1 DEF InStep
<1>4. CASE plan[b] = NONE
  BY <1>1, <1>2, <1>3, <1>4 DEF InStep
<1>5. CASE plan[b] # NONE
  <2>1. /\ plan[b].steps = route[b] /\ plan[b].index < Len(route[b])
        /\ \A i \in 1..(Len(route[b]) - 1) : route[b][i] # plan[b].target
        /\ \/ NoLetter(b) /\ KnownAt(b, link[b])
           \/ OneLetter(b, route[b][link[b]]) /\ KnownAt(b, link[b] - 1) /\ ~InHand(b)
    BY <1>5 DEF InStep
  <2>2. OneLetter(b, route[b][link[b]]) => OneLetter(b, route[b][link[b]])'
    <3>1. PICK n : n = route[b][link[b]] /\ n = route'[b][link'[b]]
      OBVIOUS
    <3>2. OneLetter(b, n) => OneLetter(b, n)'
      BY DEF SameLetters
    <3>3. QED
      BY <3>1, <3>2 DEF OneLetter
  <2>3. /\ NoLetter(b) => NoLetter(b)'
        /\ ~InHand(b) => ~InHand(b)'
    BY DEF SameLetters
  <2>4. /\ KnownAt(b, link[b]) => KnownAt(b, link[b])'
        /\ KnownAt(b, link[b] - 1) => KnownAt(b, link[b] - 1)'
    BY DEF KnownAt
  <2>5. /\ plan'[b].steps = route'[b] /\ plan'[b].index < Len(route'[b])
        /\ \A i \in 1..(Len(route'[b]) - 1) : route'[b][i] # plan'[b].target
    BY <2>1
  <2>6. QED
    BY <1>2, <1>3, <1>5, <2>1, <2>2, <2>3, <2>4, <2>5 DEF InStep
<1>6. QED
  BY <1>4, <1>5

LEMMA SeqConcat ==
  ASSUME NEW S, NEW s \in Seq(S), NEW u \in Seq(S)
  PROVE  /\ s \o u \in Seq(S) /\ Len(s) \in Nat /\ Len(u) \in Nat
         /\ Len(s \o u) = Len(s) + Len(u)
         /\ \A i \in 1..Len(s) : (s \o u)[i] = s[i]
         /\ \A i \in 1..Len(s \o u) :
              i \notin 1..Len(s) => i - Len(s) \in 1..Len(u) /\ (s \o u)[i] = u[i - Len(s)]
OBVIOUS

(* An arrival that is taken was a letter of its AGV, or had been taken     *)
(* before.  If it was the only letter, it named the end of the link and    *)
(* none is left.                                                           *)
LEMMA LetterTaken ==
  ASSUME TypeOK, TakeArrival, NEW a, a = Arrival.agv
  PROVE  \/ /\ InHand(a) /\ Arrival.node = inHand.node
            /\ inbox' = inbox /\ Late(a)' = Late(a)
         \/ /\ ~InHand(a) /\ ~NoLetter(a)
            /\ \E i \in Late(a) : inbox[i].node = Arrival.node
            /\ \A n : OneLetter(a, n) =>
                 Arrival.node = n /\ Late(a)' = {} /\ mail[a] = <<>>
<1>1. CASE inHand # NONE
  BY <1>1, Taken DEF InHand, Late
<1>2. CASE inHand = NONE
  <2>1. /\ inbox \in Seq(Letters) /\ inbox # <<>> /\ ~InHand(a)
        /\ inbox' = Tail(inbox) /\ Arrival = inbox[1]
    BY <1>2, Taken DEF TypeOK, InHand
  <2>2. Len(inbox) \in Nat /\ 1 \in 1..Len(inbox)
    BY <2>1
  <2>3. 1 \in Late(a)
    BY <2>1, <2>2 DEF Late
  <2>4. ASSUME NEW n, OneLetter(a, n)
        PROVE  Arrival.node = n /\ Late(a)' = {} /\ mail[a] = <<>>
    <3>1. PICK i \in Late(a) : Late(a) = {i} /\ inbox[i].node = n
      BY <2>3, <2>4 DEF OneLetter
    <3>2. i = 1
      BY <2>3, <3>1
    <3>3. \A j \in 1..Len(inbox') :
            j + 1 \in 1..Len(inbox) /\ j + 1 # 1 /\ inbox'[j] = inbox[j + 1]
      BY <2>1
    <3>4. \A j \in 1..Len(inbox') : inbox'[j].agv # a
      BY <3>1, <3>2, <3>3 DEF Late
    <3>5. QED
      BY <2>1, <2>3, <2>4, <3>1, <3>2, <3>4 DEF Late, OneLetter
  <2>5. QED
    BY <2>1, <2>3, <2>4 DEF NoLetter
<1>3. QED
  BY <1>1, <1>2

(* The letters of the other AGVs move up in the inbox.                     *)
LEMMA LettersMoveUp ==
  ASSUME TypeOK, TakeArrival, inHand = NONE,
         NEW b \in Agvs, b # Arrival.agv, mail'[b] = mail[b]
  PROVE  SameLetters(b)
<1>1. /\ inbox \in Seq(Letters) /\ inbox # <<>>
      /\ inbox' = Tail(inbox) /\ Arrival = inbox[1]
  BY Taken DEF TypeOK
<1>2. Len(inbox) \in Nat
  BY <1>1
<1>3. \A j \in 1..Len(inbox') : j + 1 \in 1..Len(inbox) /\ inbox'[j] = inbox[j + 1]
  BY <1>1
<1>4. 1 \notin Late(b)
  BY <1>1 DEF Late
<1>5. \A i \in Late(b) : i - 1 \in Late(b)' /\ inbox'[i - 1] = inbox[i]
  <2> SUFFICES ASSUME NEW i \in Late(b)
               PROVE  i - 1 \in Late(b)' /\ inbox'[i - 1] = inbox[i]
    OBVIOUS
  <2>1. i \in 1..Len(inbox) /\ i # 1 /\ inbox[i].agv = b
    BY <1>4 DEF Late
  <2>2. i - 1 \in 1..Len(inbox') /\ (i - 1) + 1 = i
    BY <1>1, <1>2, <2>1
  <2>3. inbox'[i - 1] = inbox[i]
    BY <1>3, <2>2
  <2>4. QED
    BY <2>1, <2>2, <2>3 DEF Late
<1>6. \A j \in Late(b)' : j \in Nat /\ j + 1 \in Late(b)
  BY <1>3 DEF Late
<1>7. NoLetter(b)' <=> NoLetter(b)
  BY <1>5, <1>6 DEF NoLetter
<1>8. ASSUME NEW n, OneLetter(b, n)
      PROVE  OneLetter(b, n)'
  <2>1. CASE Late(b) = {} /\ mail[b] = <<n>>
    <3>1. Late(b)' = {}
      BY <1>6, <2>1
    <3>2. QED
      BY <2>1, <3>1 DEF OneLetter
  <2>2. ASSUME mail[b] = <<>>, NEW i \in Late(b), Late(b) = {i}, inbox[i].node = n
        PROVE  OneLetter(b, n)'
    <3>1. i - 1 \in Late(b)' /\ inbox'[i - 1].node = n
      BY <1>5, <2>2
    <3>2. \A j \in Late(b)' : j = i - 1
      <4>1. \A j \in Late(b)' : j \in Nat /\ j + 1 = i
        BY <1>6, <2>2
      <4>2. QED
        BY <4>1
    <3>3. Late(b)' = {i - 1}
      BY <3>1, <3>2
    <3>4. QED
      BY <2>2, <3>1, <3>3 DEF OneLetter
  <2>3. QED
    BY <1>8, <2>1, <2>2 DEF OneLetter
<1>9. ~InHand(b)'
  BY ArrivalType DEF InHand
<1>10. QED
  BY <1>7, <1>8, <1>9 DEF SameLetters

(* A callback gets its turn: the AGVs whose event it is not, and the one   *)
(* that knows its own already, have as much to tell as before.             *)
LEMMA LettersKept ==
  ASSUME TypeOK, TakeArrival, NEW b \in Agvs, b # Arrival.agv \/ InHand(b),
         mail'[b] = mail[b]
  PROVE  SameLetters(b)
<1>1. CASE inHand = NONE
  BY <1>1, LettersMoveUp DEF InHand
<1>2. CASE inHand # NONE
  <2>1. inbox' = inbox /\ (InHand(b)' => InHand(b))
    BY <1>2, Taken, ArrivalType DEF InHand
  <2>2. QED
    BY <2>1 DEF SameLetters, NoLetter, OneLetter, Late
<1>3. QED
  BY <1>1, <1>2

(* A letter that changes from the controller to the inbox is still one.    *)
LEMMA LettersCollected ==
  ASSUME TypeOK, NEW a \in Agvs, Collect(a), NEW b \in Agvs,
         b = a => NoLetter(a) \/ \E n : OneLetter(a, n)
  PROVE  SameLetters(b)
<1> DEFINE new == [i \in 1..Len(mail[a]) |-> [agv |-> a, node |-> mail[a][i]]]
<1>1. /\ inbox \in Seq(Letters) /\ mail[a] \in Seq(Nodes)
      /\ inbox' = inbox \o new /\ mail' = [mail EXCEPT ![a] = <<>>]
  BY DEF TypeOK, Collect
<1>2. /\ new \in Seq(Letters) /\ Len(new) = Len(mail[a])
      /\ \A i \in 1..Len(mail[a]) : new[i].agv = a /\ new[i].node = mail[a][i]
  BY <1>1 DEF Letters
<1> HIDE DEF new
<1>c. InHand(b)' <=> InHand(b)
  BY DEF Collect, Visit, InHand
<1>a. inbox \in Seq(Letters) /\ new \in Seq(Letters)
  BY <1>1, <1>2
<1>b. /\ Len(inbox) \in Nat /\ Len(new) \in Nat /\ Len(inbox \o new) = Len(inbox) + Len(new)
      /\ \A i \in 1..Len(inbox) : (inbox \o new)[i] = inbox[i]
      /\ \A i \in 1..Len(inbox \o new) :
           i \notin 1..Len(inbox) =>
             i - Len(inbox) \in 1..Len(new) /\ (inbox \o new)[i] = new[i - Len(inbox)]
  BY <1>a, SeqConcat
<1>3. /\ Len(inbox) \in Nat /\ Len(new) \in Nat /\ Len(inbox') = Len(inbox) + Len(new)
      /\ \A i \in 1..Len(inbox) : inbox'[i] = inbox[i]
      /\ \A i \in 1..Len(inbox') :
           i \notin 1..Len(inbox) => i - Len(inbox) \in 1..Len(new) /\ inbox'[i] = new[i - Len(inbox)]
  BY <1>1, <1>b
<1>4. CASE b # a
  <2>1. \A i \in 1..Len(inbox') : i \notin 1..Len(inbox) => inbox'[i].agv = a
    BY <1>2, <1>3
  <2>2. \A i \in Late(b) : i \in 1..Len(inbox) /\ inbox'[i] = inbox[i]
    BY <1>3 DEF Late
  <2>3. Late(b)' = Late(b)
    BY <1>3, <1>4, <2>1 DEF Late
  <2>4. mail'[b] = mail[b]
    BY <1>1, <1>4 DEF TypeOK
  <2>5. QED
    BY <1>c, <2>2, <2>3, <2>4 DEF SameLetters, NoLetter, OneLetter
<1>5. CASE b = a /\ mail[a] = <<>>
  <2>1. inbox' = inbox /\ mail'[a] = mail[a]
    BY <1>1, <1>2, <1>5 DEF TypeOK
  <2>2. QED
    BY <1>c, <1>5, <2>1 DEF SameLetters, NoLetter, OneLetter, Late
<1>6. CASE b = a /\ mail[a] # <<>>
  <2>1. PICK n : Late(a) = {} /\ mail[a] = <<n>>
    BY <1>6 DEF NoLetter, OneLetter
  <2>2. Len(mail[a]) = 1 /\ mail[a][1] = n
    BY <2>1
  <2> DEFINE k == Len(inbox) + 1
  <2>3. k \in 1..Len(inbox') /\ inbox'[k].agv = a /\ inbox'[k].node = n
    BY <1>2, <1>3, <2>2
  <2>4. \A i \in 1..Len(inbox') : inbox'[i].agv = a => i = k
    BY <1>2, <1>3, <2>1, <2>2 DEF Late
  <2> HIDE DEF k
  <2>5. Late(a)' = {k} /\ mail'[a] = <<>>
    BY <1>1, <2>3, <2>4 DEF Late, TypeOK
  <2>6. OneLetter(a, n)' /\ ~NoLetter(a)'
    BY <2>3, <2>5 DEF OneLetter, NoLetter
  <2>7. \A m : OneLetter(a, m) => m = n
    BY <2>1, <2>2 DEF OneLetter
  <2>8. ~NoLetter(a)
    BY <1>6 DEF NoLetter
  <2>9. QED
    BY <1>c, <1>6, <2>6, <2>7, <2>8 DEF SameLetters
<1>7. QED
  BY <1>4, <1>5, <1>6

(* The server hears of the end of a's link, for the first time or again:   *)
(* whatever becomes of the plan, a is on the node alone, and nothing is    *)
(* left to read.                                                           *)
LEMMA EndOfLink ==
  ASSUME IInv, EnterNode, NEW a, a = Arrival.agv, InStep(a)
  PROVE  /\ a \in Agvs /\ plan[a] \in Plans /\ plan[a].steps = route[a]
         /\ \A i \in 1..(Len(route[a]) - 1) : route[a][i] # plan[a].target
         /\ link[a] \in 1..(plan[a].index + 1) /\ link[a] <= Len(route[a])
         /\ viewers = 1 => link[a] = plan[a].index + 1
         /\ Arrival.node = route[a][link[a]]
         /\ ~moving[a] /\ mail[a] = <<>> /\ Late(a)' = {}
         /\ \A e \in Edges : edgeOcc'[e] # a
         /\ \A n \in Nodes : nodeOcc'[n] = a => n = Arrival.node
         /\ curNode'[a] = Arrival.node /\ agvNode'[a] = Arrival.node
<1>1. /\ TypeOK /\ TakeArrival /\ a \in Agvs /\ Arrival.node \in Nodes /\ plan[a] \in Plans
      /\ plan[a] # NONE /\ OccupyNode(a, Arrival.node)
      /\ curNode' = [curNode EXCEPT ![a] = Arrival.node]
  BY EnterNodeType DEF IInv, EnterNode
<1>2. ~moving[a]
  BY <1>1, ArrivalStandsStill DEF IInv
<1>3. /\ plan[a].steps = route[a] /\ plan[a].index < Len(route[a])
      /\ \A i \in 1..(Len(route[a]) - 1) : route[a][i] # plan[a].target
      /\ \/ NoLetter(a) /\ KnownAt(a, link[a])
         \/ OneLetter(a, route[a][link[a]]) /\ KnownAt(a, link[a] - 1) /\ ~InHand(a)
  BY <1>1 DEF InStep
<1>4. /\ plan[a].index \in Nat /\ link[a] \in Nat \ {0} /\ Len(route[a]) \in Nat
  BY <1>1, ControllerType DEF Plans
<1>5. a # NONE
  BY <1>1, NoneAssumption
<1>6. \A e \in Edges : edgeOcc'[e] # a
  BY <1>1, <1>5 DEF InStep, OccupyNode
<1>7. curNode'[a] = Arrival.node /\ agvNode'[a] = Arrival.node
  BY <1>1 DEF TypeOK, OccTypeOK, OccupyNode
<1>8. CASE InHand(a)
  <2>1. NoLetter(a) /\ KnownAt(a, link[a])
    BY <1>3, <1>8
  <2>2. Arrival.node = inHand.node /\ Late(a)' = Late(a)
    BY <1>1, <1>8, LetterTaken
  <2>3. viewers > 1 /\ curNode[a] = inHand.node
    BY <1>1, <1>8 DEF IInv, HandInPlace, InHand
  <2>4. Arrival.node = route[a][link[a]] /\ mail[a] = <<>> /\ Late(a)' = {}
    BY <2>1, <2>2, <2>3 DEF KnownAt, NoLetter
  <2>5. \A n \in Nodes : nodeOcc'[n] = a => n = Arrival.node
    BY <1>1, <1>5, <2>2, <2>3 DEF InStep, OccupyNode
  <2>6. link[a] \in 1..(plan[a].index + 1) /\ link[a] <= Len(route[a]) /\ viewers # 1
    BY <1>3, <1>4, <2>1, <2>3 DEF KnownAt
  <2>7. QED
    BY <1>1, <1>2, <1>3, <1>6, <1>7, <2>4, <2>5, <2>6
<1>9. CASE ~InHand(a)
  <2>1. /\ ~NoLetter(a)
        /\ \A n : OneLetter(a, n) =>
             Arrival.node = n /\ Late(a)' = {} /\ mail[a] = <<>>
    BY <1>1, <1>9, LetterTaken
  <2>2. OneLetter(a, route[a][link[a]]) /\ KnownAt(a, link[a] - 1)
    BY <1>3, <2>1
  <2>3. Arrival.node = route[a][link[a]] /\ Late(a)' = {} /\ mail[a] = <<>>
    BY <2>1, <2>2
  <2>4. UnderWay(a)
    BY <2>1 DEF UnderWay
  <2>5. \A n \in Nodes : nodeOcc'[n] = a => n = Arrival.node
    BY <1>1, <1>5, <2>4 DEF InStep, OccupyNode
  <2>6. /\ link[a] \in 1..(plan[a].index + 1) /\ link[a] <= Len(route[a])
        /\ viewers = 1 => link[a] = plan[a].index + 1
    BY <1>3, <1>4, <2>2 DEF KnownAt
  <2>7. QED
    BY <1>1, <1>2, <1>3, <1>6, <1>7, <2>3, <2>5, <2>6
<1>10. QED
  BY <1>8, <1>9

(* The step of another AGV that ends its link.                             *)
LEMMA OtherEnters ==
  ASSUME IInv, EnterNode, NEW b \in Agvs, b # Arrival.agv, InStep(b),
         plan'[b] = plan[b], moving'[b] = moving[b], route'[b] = route[b],
         link'[b] = link[b], mail'[b] = mail[b]
  PROVE  InStep(b)'
<1>1. /\ TypeOK /\ OccTypeOK /\ TakeArrival /\ Arrival.agv \in Agvs /\ Arrival.node \in Nodes
      /\ OccupyNode(Arrival.agv, Arrival.node)
      /\ curNode' = [curNode EXCEPT ![Arrival.agv] = Arrival.node]
  BY EnterNodeType DEF IInv, EnterNode, TypeOK
<1>2. SameLetters(b) /\ viewers' = viewers
  BY <1>1, LettersKept, ArrivalType
<1>3. b # NONE
  BY NoneAssumption
<1>4. /\ curNode'[b] = curNode[b] /\ agvEdge'[b] = agvEdge[b] /\ agvNode'[b] = agvNode[b]
      /\ \A e \in Edges : edgeOcc'[e] = b => edgeOcc[e] = b
      /\ \A n \in Nodes : nodeOcc'[n] = b => nodeOcc[n] = b
  BY <1>1, <1>3 DEF TypeOK, OccTypeOK, OccupyNode
<1>5. QED
  BY <1>1, <1>2, <1>4, StoryKept

(* A route for an AGV that is not under way.                               *)
LEMMA NewRouteInStep ==
  ASSUME TypeOK, NEW a \in Agvs, NEW w \in Walks, NEW target \in Nodes, NEW from,
         CreateRoute(a, from, w, target), curNode'[a] = from, Late(a)' = {},
         \A e \in Edges : edgeOcc'[e] # a,
         \A n \in Nodes : nodeOcc'[n] = a => agvNode'[a] = n /\ curNode'[a] = n
  PROVE  InStep(a)'
<1> DEFINE p == [steps |-> w, index |-> 1, target |-> target]
<1>1. p \in Plans /\ p.steps = w /\ p.index = 1 /\ p.target = target
  BY DEF Plans
<1>2. /\ plan'[a] = p /\ route'[a] = w /\ link'[a] = 1 /\ moving'[a] = FALSE
      /\ mail'[a] = <<>> /\ w[1] = from
      /\ \A i \in 1..(Len(w) - 1) : w[i] # target
  BY DEF CreateRoute, FollowRoute, TypeOK
<1> HIDE DEF p
<1>3. NoLetter(a)' /\ ~UnderWay(a)'
  BY <1>2 DEF NoLetter, UnderWay
<1>4. plan'[a] # NONE
  BY <1>1, <1>2, PlansAssumption
<1>5. KnownAt(a, link[a])'
  BY <1>1, <1>2 DEF KnownAt
<1>6. 1 < Len(w)
  BY WalksAssumption
<1>7. QED
  BY <1>1, <1>2, <1>3, <1>4, <1>5, <1>6 DEF InStep

(* Steps that touch neither plans, letters nor bookings.                   *)
LEMMA NothingMoves ==
  ASSUME TypeOK, NEW a \in Agvs, InStep(a), viewers' = 1 => viewers = 1,
         UNCHANGED <<occVars, serverVars, route, link, moving, mail, inbox, inHand>>
  PROVE  InStep(a)'
<1>1. SameLetters(a)
  BY DEF SameLetters, NoLetter, OneLetter, Late, InHand
<1>2. QED
  BY <1>1, StoryKept DEF occVars, serverVars

LEMMA ArrivalInStep ==
  ASSUME IInv, NEW a \in Agvs, InStep(a), StepOn \/ ReachTarget \/ ReachWindowEnd
  PROVE  InStep(a)' \/ (viewers > 1 /\ PlanLost(a))
<1>1. EnterNode
  BY DEF StepOn, ReachTarget, ReachWindowEnd
<1>2. PICK b : b = Arrival.agv
  OBVIOUS
<1>3. TypeOK /\ b \in Agvs /\ Arrival.node \in Nodes /\ plan[b] \in Plans
  BY <1>1, <1>2, EnterNodeType DEF IInv
<1>4. \/ /\ plan' = [plan EXCEPT ![b] = [plan[b] EXCEPT !.index = plan[b].index + 1]]
         /\ ~PlanExhausted(plan[b]) /\ UNCHANGED controllerVars
      \/ /\ plan' = [plan EXCEPT ![b] = NONE]
         /\ PlanExhausted(plan[b]) /\ UNCHANGED controllerVars
      \/ \E w \in Walks : CreateRoute(b, Arrival.node, w, plan[b].target)
  BY <1>2 DEF StepOn, ReachTarget, ReachWindowEnd
<1>5. plan[b].target \in Nodes /\ plan[b].index \in Nat
  BY <1>3 DEF Plans
<1>6. CASE a # b
  <2>1. plan'[a] = plan[a] /\ moving'[a] = moving[a] /\ route'[a] = route[a]
        /\ link'[a] = link[a] /\ mail'[a] = mail[a]
    <3>1. CASE UNCHANGED controllerVars
      BY <1>3, <1>4, <1>6, <3>1 DEF controllerVars, TypeOK, CreateRoute
    <3>2. CASE \E w \in Walks : CreateRoute(b, Arrival.node, w, plan[b].target)
      <4>1. PICK w \in Walks : CreateRoute(b, Arrival.node, w, plan[b].target)
        BY <3>2
      <4>2. plan'[a] = plan[a]
        BY <1>3, <1>6, <4>1 DEF CreateRoute, TypeOK
      <4>3. /\ moving'[a] = moving[a] /\ route'[a] = route[a]
            /\ link'[a] = link[a] /\ mail'[a] = mail[a]
        BY <1>3, <1>6, <4>1 DEF CreateRoute, FollowRoute, TypeOK
      <4>4. QED
        BY <4>2, <4>3
    <3>3. QED
      BY <1>4, <3>1, <3>2
  <2>2. QED
    BY <1>1, <1>2, <1>6, <2>1, OtherEnters
<1>7. CASE a = b
  <2>1. /\ plan[a].steps = route[a]
        /\ \A i \in 1..(Len(route[a]) - 1) : route[a][i] # plan[a].target
        /\ link[a] \in 1..(plan[a].index + 1) /\ link[a] <= Len(route[a])
        /\ viewers = 1 => link[a] = plan[a].index + 1
        /\ Arrival.node = route[a][link[a]]
        /\ ~moving[a] /\ mail[a] = <<>> /\ Late(a)' = {}
        /\ \A e \in Edges : edgeOcc'[e] # a
        /\ \A n \in Nodes : nodeOcc'[n] = a => n = Arrival.node
        /\ curNode'[a] = Arrival.node /\ agvNode'[a] = Arrival.node
    BY <1>1, <1>2, <1>7, EndOfLink
  <2>2. ASSUME UNCHANGED controllerVars
        PROVE  /\ NoLetter(a)' /\ ~UnderWay(a)' /\ (HasLink(a)' <=> HasLink(a))
               /\ route'[a] = route[a] /\ link'[a] = link[a]
    BY <2>1, <2>2 DEF controllerVars, NoLetter, UnderWay, HasLink
  <2>a. /\ link[a] \in Nat \ {0} /\ Len(route[a]) \in Nat
        /\ viewers' = viewers /\ viewers \in Nat \ {0}
    BY <1>1, <1>3, <1>7, ControllerType, EnterNodeType, ViewersAssumption DEF TypeOK
  <2>3. CASE plan' = [plan EXCEPT ![b] = [plan[b] EXCEPT !.index = plan[b].index + 1]]
             /\ ~PlanExhausted(plan[b]) /\ UNCHANGED controllerVars
    <3> DEFINE q == [plan[a] EXCEPT !.index = plan[a].index + 1]
    <3>1. plan'[a] = q
      BY <1>3, <1>7, <2>3 DEF TypeOK
    <3>2. /\ q \in Plans /\ q.steps = plan[a].steps /\ q.index = plan[a].index + 1
          /\ q.target = plan[a].target
      BY <1>3, <1>5, <1>7 DEF Plans
    <3> HIDE DEF q
    <3>3. plan'[a] # NONE
      BY <3>1, <3>2, PlansAssumption
    <3>4. KnownAt(a, link[a])'
      BY <2>1, <2>2, <2>3, <2>a, <3>1, <3>2 DEF KnownAt
    <3>5. plan'[a].index < Len(route'[a])
      BY <1>5, <1>7, <2>1, <2>2, <2>3, <2>a, <3>1, <3>2 DEF PlanExhausted
    <3>6. /\ plan'[a].steps = route'[a]
          /\ \A i \in 1..(Len(route'[a]) - 1) : route'[a][i] # plan'[a].target
      BY <2>1, <2>2, <2>3, <3>1, <3>2
    <3>7. QED
      BY <2>1, <2>2, <2>3, <3>3, <3>4, <3>5, <3>6 DEF InStep
  <2>4. CASE plan' = [plan EXCEPT ![b] = NONE] /\ PlanExhausted(plan[b])
             /\ UNCHANGED controllerVars
    <3>1. plan'[a] = NONE
      BY <1>3, <1>7, <2>4 DEF TypeOK
    <3>2. CASE ~HasLink(a)
      BY <2>1, <2>2, <2>4, <3>1, <3>2 DEF InStep
    <3>3. CASE HasLink(a)
      <4>1. link[a] \in 1..(Len(route[a]) - 1)
        BY <2>a, <3>3 DEF HasLink
      <4>2. curNode'[a] # plan[a].target
        BY <2>1, <4>1
      <4>3. plan[a].index + 1 >= Len(route[a])
        BY <1>7, <2>1, <2>4 DEF PlanExhausted
      <4>4. viewers > 1
        BY <1>5, <1>7, <2>1, <2>a, <4>1, <4>3
      <4>5. plan[a] # NONE
        BY <1>1, <1>2, <1>7 DEF EnterNode
      <4>6. QED
        BY <3>1, <3>3, <4>2, <4>4, <4>5 DEF PlanLost
    <3>4. QED
      BY <3>2, <3>3
  <2>5. ASSUME NEW w \in Walks, CreateRoute(b, Arrival.node, w, plan[b].target)
        PROVE  InStep(a)'
    <3>1. PICK from, target : from = Arrival.node /\ target = plan[b].target
      OBVIOUS
    <3>2. target \in Nodes /\ CreateRoute(a, from, w, target) /\ curNode'[a] = from
      BY <1>5, <1>7, <2>1, <2>5, <3>1
    <3>3. QED
      BY <1>3, <2>1, <3>2, NewRouteInStep
  <2>6. QED
    BY <1>4, <2>3, <2>4, <2>5
<1>8. QED
  BY <1>6, <1>7

LEMMA DriveInStep ==
  ASSUME IInv, NEW a \in Agvs, InStep(a), NEW b \in Agvs, Depart(b) \/ Arrive(b)
  PROVE  InStep(a)'
<1>1. /\ TypeOK /\ OccTypeOK /\ phase = "drive" /\ b \in todo /\ inbox = <<>> /\ inbox' = inbox
      /\ mail[b] = <<>> /\ plan' = plan /\ curNode' = curNode /\ route' = route /\ HasLink(b)
      /\ inHand' = NONE /\ viewers' = viewers
  BY DEF IInv, TypeOK, LettersInFrame, HandInPlace, Depart, Arrive, DriveTurn, Visit, serverVars
<1>2. b # NONE /\ a # NONE
  BY NoneAssumption
<1>3. From(b) \in Nodes /\ To(b) \in Nodes /\ CurEdge(b) \in Edges
  BY <1>1, LinkEnds
<1>4. \A c : Late(c) = {} /\ Late(c)' = {}
  BY <1>1 DEF Late
<1>5. CASE a # b
  <2>1. /\ moving'[a] = moving[a] /\ link'[a] = link[a] /\ mail'[a] = mail[a]
        /\ agvEdge'[a] = agvEdge[a] /\ agvNode'[a] = agvNode[a]
        /\ \A e \in Edges : edgeOcc'[e] = a => edgeOcc[e] = a
        /\ \A n \in Nodes : nodeOcc'[n] = a => nodeOcc[n] = a
    BY <1>1, <1>2, <1>3, <1>5 DEF Depart, Arrive, OccupyEdge, occVars, TypeOK, OccTypeOK
  <2>2. SameLetters(a)
    BY <1>1, <1>4, <2>1 DEF SameLetters, NoLetter, OneLetter, InHand
  <2>3. QED
    BY <1>1, <2>1, <2>2, StoryKept
<1>6. CASE a = b /\ Depart(b)
  <2>1. /\ moving'[a] /\ ~moving[a] /\ link'[a] = link[a] /\ mail'[a] = mail[a]
        /\ edgeOcc' = [edgeOcc EXCEPT ![CurEdge(a)] = a] /\ agvEdge'[a] = CurEdge(a)
        /\ nodeOcc' = [nodeOcc EXCEPT ![From(a)] = NONE]
    BY <1>1, <1>6 DEF Depart, OccupyEdge, CurEdge, TypeOK, OccTypeOK
  <2>2. NoLetter(a) /\ NoLetter(a)' /\ ~UnderWay(a) /\ UnderWay(a)'
    BY <1>1, <1>4, <1>6, <2>1 DEF NoLetter, UnderWay
  <2>3. \A e \in Edges : edgeOcc'[e] = a => agvEdge'[a] = e
    BY <1>1, <1>3, <1>6, <2>1, <2>2 DEF InStep, OccTypeOK
  <2>4. plan[a] # NONE
    BY <1>1, <1>6 DEF InStep
  <2>5. /\ plan[a].steps = route[a] /\ plan[a].index < Len(route[a])
        /\ \A i \in 1..(Len(route[a]) - 1) : route[a][i] # plan[a].target
        /\ KnownAt(a, link[a])
    <3>1. \A n : ~OneLetter(a, n)
      BY <1>1, <1>4, <1>6 DEF OneLetter
    <3>2. QED
      BY <2>4, <3>1 DEF InStep
  <2>a. KnownAt(a, link[a])'
    BY <1>1, <2>1, <2>5 DEF KnownAt
  <2>6. \A n \in Nodes : nodeOcc'[n] # a
    <3>1. From(a) = curNode[a]
      BY <2>5 DEF From, KnownAt
    <3>2. \A n \in Nodes : nodeOcc[n] = a => n = From(a)
      BY <3>1 DEF InStep
    <3>3. QED
      BY <1>1, <1>2, <2>1, <3>2 DEF OccTypeOK
  <2>7. QED
    BY <1>1, <2>1, <2>2, <2>3, <2>4, <2>5, <2>6, <2>a DEF InStep
<1>7. CASE a = b /\ Arrive(b)
  <2>1. /\ ~moving'[a] /\ moving[a] /\ link'[a] = link[a] + 1 /\ link[a] \in Nat
        /\ mail'[a] = <<To(a)>> /\ UNCHANGED occVars
    <3>1. mail'[a] = Append(mail[a], To(a))
      BY <1>1, <1>7 DEF Arrive, TypeOK
    <3>2. mail'[a] = <<To(a)>>
      BY <1>1, <1>7, <3>1
    <3>3. QED
      BY <1>1, <1>7, <3>2 DEF Arrive, TypeOK
  <2>2. To(a) = route'[a][link'[a]]
    BY <1>1, <2>1 DEF To
  <2>3. OneLetter(a, route[a][link[a]])'
    BY <1>4, <2>1, <2>2 DEF OneLetter
  <2>4. UnderWay(a) /\ UnderWay(a)' /\ NoLetter(a)
    <3>1. mail'[a] # <<>>
      BY <2>1
    <3>2. QED
      BY <1>1, <1>4, <1>7, <2>1, <3>1 DEF UnderWay, NoLetter
  <2>5. /\ plan[a] # NONE /\ plan[a].steps = route[a] /\ plan[a].index < Len(route[a])
        /\ \A i \in 1..(Len(route[a]) - 1) : route[a][i] # plan[a].target
        /\ KnownAt(a, link[a])
    <3>1. \A n : ~OneLetter(a, n)
      BY <1>1, <1>4, <1>7 DEF OneLetter
    <3>2. QED
      BY <2>4, <3>1 DEF InStep
  <2>6. KnownAt(a, link[a] - 1)'
    <3>1. link'[a] - 1 = link[a]
      BY <2>1
    <3>2. QED
      BY <1>1, <2>5, <3>1 DEF KnownAt
  <2>7. ~InHand(a)'
    BY <1>1 DEF InHand
  <2>8. QED
    BY <1>1, <2>1, <2>3, <2>4, <2>5, <2>6, <2>7 DEF InStep, occVars
<1>8. QED
  BY <1>5, <1>6, <1>7

LEMMA InStepStep ==
  ASSUME IInv, [Next]_vars, NEW a \in Agvs, InStep(a)
  PROVE  \/ InStep(a)'
         \/ UnderWay(a) /\ Assign(a)
         \/ viewers > 1 /\ PlanLost(a)
<1>0. TypeOK /\ OccTypeOK
  BY DEF IInv, TypeOK
<1>1. CASE StepOn \/ ReachTarget \/ ReachWindowEnd
  BY <1>1, ArrivalInStep
<1>2. CASE IgnoreArrival
  <2>1. TakeArrival /\ plan[Arrival.agv] = NONE
        /\ UNCHANGED <<occVars, controllerVars, serverVars>>
    BY <1>2 DEF IgnoreArrival
  <2>2. PICK b : b = Arrival.agv
    OBVIOUS
  <2>3. a # b \/ InHand(a)
    BY <1>0, <2>1, <2>2, LetterTaken DEF InStep, UnderWay
  <2>4. SameLetters(a) /\ viewers' = viewers
    BY <1>0, <2>1, <2>2, <2>3, LettersKept, ArrivalType DEF controllerVars
  <2>5. QED
    BY <1>0, <2>1, <2>4, StoryKept DEF occVars, controllerVars, serverVars
<1>3. CASE EndProcess \/ ReadyMap \/ UNCHANGED vars
  <2>1. viewers' = 1 => viewers = 1
    BY <1>0, <1>3, ViewersAssumption DEF EndProcess, ReadyMap, vars, frameVars, TypeOK
  <2>2. UNCHANGED <<occVars, serverVars, route, link, moving, mail, inbox, inHand>>
    BY <1>3 DEF EndProcess, ReadyMap, vars, occVars, controllerVars, serverVars,
       frameVars, queueVars
  <2>3. QED
    BY <1>0, <2>1, <2>2, NothingMoves
<1>4. ASSUME NEW b \in Agvs, Hold(b) PROVE InStep(a)'
  BY <1>0, <1>4, NothingMoves
  DEF Hold, DriveTurn, Visit, occVars, controllerVars, serverVars
<1>5. ASSUME NEW b \in Agvs, Depart(b) \/ Arrive(b) PROVE InStep(a)'
  BY <1>5, DriveInStep
<1>6. ASSUME NEW b \in Agvs, Collect(b) PROVE InStep(a)'
  <2>1. NoLetter(a) \/ \E n : OneLetter(a, n)
    BY DEF InStep, UnderWay
  <2>2. SameLetters(a)
    BY <1>0, <1>6, <2>1, LettersCollected
  <2>3. UNCHANGED <<occVars, serverVars, route, link, moving, viewers>>
    BY <1>6 DEF Collect, Visit
  <2>4. QED
    BY <1>0, <2>2, <2>3, StoryKept DEF occVars, serverVars
<1>7. ASSUME NEW b \in Agvs, Assign(b) PROVE InStep(a)' \/ (UnderWay(a) /\ Assign(a))
  <2>1. PICK w \in Walks, t \in Nodes : CreateRoute(b, curNode[b], w, t)
    BY <1>7 DEF Assign
  <2>2. UNCHANGED <<occVars, curNode, frameVars>> /\ curNode[b] \in Nodes
    BY <1>0, <1>7 DEF Assign, TypeOK
  <2>3. CASE a # b
    <3>1. /\ plan'[a] = plan[a] /\ moving'[a] = moving[a] /\ route'[a] = route[a]
          /\ link'[a] = link[a] /\ mail'[a] = mail[a]
      <4>1. plan'[a] = plan[a]
        BY <1>0, <2>1, <2>3 DEF CreateRoute, TypeOK
      <4>2. /\ moving'[a] = moving[a] /\ route'[a] = route[a]
            /\ link'[a] = link[a] /\ mail'[a] = mail[a]
        BY <1>0, <2>1, <2>3 DEF CreateRoute, FollowRoute, TypeOK
      <4>3. QED
        BY <4>1, <4>2
    <3>2. SameLetters(a)
      BY <2>2, <3>1 DEF SameLetters, NoLetter, OneLetter, Late, InHand, frameVars, queueVars
    <3>3. QED
      BY <1>0, <2>2, <3>1, <3>2, StoryKept DEF occVars, frameVars
  <2>4. CASE a = b /\ ~UnderWay(a)
    <3>1. PICK from : from = curNode[a] /\ from = curNode'[a]
      BY <2>2
    <3>2. CreateRoute(a, from, w, t)
      BY <2>1, <2>4, <3>1
    <3>3. Late(a)' = {}
      BY <2>2, <2>4 DEF UnderWay, NoLetter, Late, frameVars, queueVars
    <3>4. /\ \A e \in Edges : edgeOcc'[e] # a
          /\ \A n \in Nodes : nodeOcc'[n] = a => agvNode'[a] = n /\ curNode'[a] = n
      BY <2>2, <2>4 DEF InStep, occVars
    <3>5. QED
      BY <1>0, <3>1, <3>2, <3>3, <3>4, NewRouteInStep
  <2>5. QED
    BY <1>7, <2>3, <2>4
<1>8. QED
  BY <1>1, <1>2, <1>3, <1>4, <1>5, <1>6, <1>7 DEF Next, Process

(* Nothing stays closed by an AGV that is not there, unless it was given a *)
(* route while it was under way, or its plan has run out before its route  *)
(* did because its arrivals were counted more than once.                   *)
THEOREM StepEndsInTwoWays == Spec => StepEndsTwoWays
<1>1. IInv /\ [Next]_vars =>
        [\A a \in Agvs : InStep(a) => InStep(a)' \/ (UnderWay(a) /\ Assign(a))
                                                  \/ (viewers > 1 /\ PlanLost(a))]_vars
  BY InStepStep
<1>2. QED
  BY <1>1, InvCorrect, PTL DEF Spec, StepEndsTwoWays

-----------------------------------------------------------------------------
(* A jam.  Only TypeOK is needed: that the AGVs of a jam hold their nodes, *)
(* and that nobody else has to do with these, is inductive as it stands.   *)

(* What the server has still to read of c names no node that it did not    *)
(* name before the step.                                                   *)
NamesKept(c) ==
  /\ \A i \in Late(c)' : \/ \E j \in Late(c) : inbox'[i].node = inbox[j].node
                         \/ \E j \in 1..Len(mail[c]) : inbox'[i].node = mail[c][j]
  /\ \A i \in 1..Len(mail'[c]) : i \in 1..Len(mail[c]) /\ mail'[c][i] = mail[c][i]
  /\ InHand(c)' => \/ InHand(c) /\ inHand'.node = inHand.node
                   \/ \E j \in Late(c) : inHand'.node = inbox[j].node

LEMMA NamesCollected ==
  ASSUME TypeOK, NEW a \in Agvs, Collect(a), NEW c \in Agvs
  PROVE  NamesKept(c)
<1> DEFINE new == [i \in 1..Len(mail[a]) |-> [agv |-> a, node |-> mail[a][i]]]
<1>1. /\ inbox \in Seq(Letters) /\ mail[a] \in Seq(Nodes)
      /\ inbox' = inbox \o new /\ mail' = [mail EXCEPT ![a] = <<>>]
  BY DEF TypeOK, Collect
<1>2. /\ new \in Seq(Letters) /\ Len(new) = Len(mail[a])
      /\ \A i \in 1..Len(mail[a]) : new[i].agv = a /\ new[i].node = mail[a][i]
  BY <1>1 DEF Letters
<1> HIDE DEF new
<1>3. /\ \A i \in 1..Len(inbox) : inbox'[i] = inbox[i]
      /\ \A i \in 1..Len(inbox') :
           i \notin 1..Len(inbox) => i - Len(inbox) \in 1..Len(new) /\ inbox'[i] = new[i - Len(inbox)]
  BY <1>1, <1>2, SeqConcat
<1>4. ASSUME NEW i \in Late(c)'
      PROVE  \/ \E j \in Late(c) : inbox'[i].node = inbox[j].node
             \/ \E j \in 1..Len(mail[c]) : inbox'[i].node = mail[c][j]
  <2>1. i \in 1..Len(inbox') /\ inbox'[i].agv = c
    BY DEF Late
  <2>2. CASE i \in 1..Len(inbox)
    <3>1. i \in Late(c) /\ inbox'[i].node = inbox[i].node
      BY <1>3, <2>1, <2>2 DEF Late
    <3>2. QED
      BY <3>1
  <2>3. CASE i \notin 1..Len(inbox)
    <3>1. PICK j : j = i - Len(inbox)
      OBVIOUS
    <3>2. j \in 1..Len(mail[a]) /\ inbox'[i] = new[j]
      BY <1>2, <1>3, <2>1, <2>3, <3>1
    <3>3. c = a /\ inbox'[i].node = mail[a][j]
      BY <1>2, <2>1, <3>2
    <3>4. QED
      BY <3>2, <3>3
  <2>4. QED
    BY <2>2, <2>3
<1>5. ASSUME NEW i \in 1..Len(mail'[c])
      PROVE  i \in 1..Len(mail[c]) /\ mail'[c][i] = mail[c][i]
  <2>1. CASE c = a
    <3>1. mail'[c] = <<>>
      BY <1>1, <2>1 DEF TypeOK
    <3>2. QED
      BY <3>1
  <2>2. CASE c # a
    BY <1>1, <2>2 DEF TypeOK
  <2>3. QED
    BY <2>1, <2>2
<1>6. InHand(c)' => InHand(c) /\ inHand'.node = inHand.node
  BY DEF Collect, Visit, InHand
<1>7. QED
  BY <1>4, <1>5, <1>6, Zenon DEF NamesKept

(* An arrival is taken, and its AGV drives on or drops its letters.        *)
LEMMA NamesTaken ==
  ASSUME TypeOK, TakeArrival, NEW c \in Agvs, mail'[c] \in {mail[c], <<>>}
  PROVE  NamesKept(c)
<1>1. \A i \in 1..Len(mail'[c]) : i \in 1..Len(mail[c]) /\ mail'[c][i] = mail[c][i]
  <2>1. CASE mail'[c] = mail[c]
    BY <2>1
  <2>2. CASE mail'[c] = <<>>
    BY <2>2
  <2>3. QED
    BY <2>1, <2>2
<1>2. \A i \in Late(c)' : \E j \in Late(c) : inbox'[i].node = inbox[j].node
  <2>1. \A i \in 1..Len(inbox') : \E j \in 1..Len(inbox) : inbox'[i] = inbox[j]
    BY RestOfInbox
  <2>2. QED
    BY <2>1 DEF Late
<1>3. InHand(c)' => \/ InHand(c) /\ inHand'.node = inHand.node
                    \/ \E j \in Late(c) : inHand'.node = inbox[j].node
  <2>1. InHand(c)' => c = Arrival.agv /\ inHand'.node = Arrival.node
    BY ArrivalType DEF InHand
  <2>2. QED
    BY <2>1, LetterTaken
<1>4. QED
  BY <1>1, <1>2, <1>3, Zenon DEF NamesKept

(* An AGV that stays elsewhere.                                            *)
LEMMA LettersElsewhere ==
  ASSUME NEW c, NEW places, Elsewhere(c, places), NamesKept(c)
  PROVE  /\ \A i \in 1..Len(mail'[c]) : mail'[c][i] \notin places
         /\ \A i \in Late(c)' : inbox'[i].node \notin places
         /\ InHand(c)' => inHand'.node \notin places
BY DEF Elsewhere, NamesKept

LEMMA StaysElsewhere ==
  ASSUME NEW c, NEW places, Elsewhere(c, places), NamesKept(c),
         curNode'[c] = curNode[c], agvNode'[c] = agvNode[c], route'[c] = route[c],
         link'[c] = link[c], moving'[c] = moving[c]
  PROVE  Elsewhere(c, places)'
<1>1. /\ HasLink(c)' <=> HasLink(c)
      /\ From(c)' = From(c) /\ To(c)' = To(c)
  BY DEF HasLink, From, To
<1>2. QED
  BY <1>1, LettersElsewhere DEF Elsewhere

(* A new route starts where its AGV is.                                    *)
LEMMA StartsElsewhere ==
  ASSUME TypeOK, NEW c \in Agvs, NEW places, NEW from, NEW w \in Walks, NEW target,
         CreateRoute(c, from, w, target), from \notin places, Elsewhere(c, places),
         NamesKept(c), curNode'[c] \notin places, agvNode'[c] \notin places
  PROVE  Elsewhere(c, places)'
<1>1. route'[c] = w /\ link'[c] = 1 /\ moving'[c] = FALSE /\ w[1] = from
  BY DEF CreateRoute, FollowRoute, TypeOK
<1>2. From(c)' = from
  BY <1>1 DEF From
<1>3. QED
  BY <1>1, <1>2, LettersElsewhere DEF Elsewhere

(* The AGVs of the jam stand as they stood, and the others are elsewhere.  *)
LEMMA JamLasts ==
  ASSUME NEW jam, Jammed(jam), NEW places, places = {From(d) : d \in jam},
         \A d \in jam : /\ route'[d] = route[d] /\ link'[d] = link[d]
                        /\ moving'[d] = moving[d] /\ NoLetter(d)' /\ ~InHand(d)'
                        /\ nodeOcc'[From(d)] = nodeOcc[From(d)],
         \A c \in Agvs \ jam : Elsewhere(c, places)'
  PROVE  Jammed(jam)'
<1>1. \A d \in jam : /\ HasLink(d)' <=> HasLink(d)
                     /\ From(d)' = From(d) /\ To(d)' = To(d)
  BY DEF HasLink, From, To
<1>2. {From(d)' : d \in jam} = places
  BY <1>1
<1>3. \A d \in jam : /\ HasLink(d)' /\ ~moving'[d] /\ nodeOcc'[From(d)'] = d
                     /\ NoLetter(d)' /\ ~InHand(d)'
  BY <1>1 DEF Jammed
<1>4. \A c \in jam : \E d \in jam \ {c} : To(c)' = From(d)'
  <2>1. \A c \in jam : \E d \in jam \ {c} : To(c) = From(d)
    BY DEF Jammed
  <2>2. QED
    BY <1>1, <2>1
<1>5. jam # {}
  BY DEF Jammed
<1>6. QED
  BY <1>2, <1>3, <1>4, <1>5 DEF Jammed

(* What a jam on these places says of its AGVs and of the others.          *)
JamOn(jam, places) ==
  /\ places = {From(d) : d \in jam}
  /\ \A d \in jam : d \in Agvs /\ ~moving[d] /\ NoLetter(d) /\ ~InHand(d)
  /\ \A d \in jam : From(d) \in places /\ To(d) \in places
  /\ \A n \in places : n \in Nodes
  /\ \A n \in places : nodeOcc[n] \in jam
  /\ \A c \in Agvs \ jam : Elsewhere(c, places)
  /\ NONE \notin places

LEMMA JamFacts ==
  ASSUME TypeOK, NEW jam \in SUBSET Agvs, Jammed(jam)
  PROVE  \E places : JamOn(jam, places)
<1> DEFINE places == {From(d) : d \in jam}
<1>1. \A d \in jam : /\ d \in Agvs /\ HasLink(d) /\ ~moving[d] /\ nodeOcc[From(d)] = d
                     /\ NoLetter(d) /\ ~InHand(d)
  BY DEF Jammed
<1>2. \A d \in jam : From(d) \in places
  OBVIOUS
<1>3. \A d \in jam : To(d) \in places
  BY <1>2 DEF Jammed
<1>4. \A d \in jam : From(d) \in Nodes
  BY <1>1, LinkEnds
<1>5. \A n \in places : n \in Nodes /\ nodeOcc[n] \in jam
  BY <1>1, <1>4
<1>6. \A c \in Agvs \ jam : Elsewhere(c, places)
  BY DEF Jammed
<1>7. NONE \notin places
  BY <1>5, NoneAssumption
<1>8. JamOn(jam, places)
  BY <1>1, <1>2, <1>3, <1>5, <1>6, <1>7, Zenon DEF JamOn
<1> HIDE DEF places
<1>9. QED
  BY <1>8, Zenon

(* The server handles an arrival; its AGV is none of the jam, which have   *)
(* no letters.                                                             *)
LEMMA JamDuringArrival ==
  ASSUME TypeOK, NEW jam \in SUBSET Agvs, Jammed(jam),
         IgnoreArrival \/ StepOn \/ ReachTarget \/ ReachWindowEnd
  PROVE  Jammed(jam)'
<1>1. PICK places : JamOn(jam, places)
  BY JamFacts, Zenon
<1>2. /\ \A d \in jam : d \in Agvs /\ ~moving[d] /\ NoLetter(d) /\ ~InHand(d)
      /\ \A d \in jam : From(d) \in places /\ To(d) \in places
      /\ \A n \in places : n \in Nodes
      /\ \A c \in Agvs \ jam : Elsewhere(c, places)
  BY <1>1, Zenon DEF JamOn
<1>3. PICK a, n : a = Arrival.agv /\ n = Arrival.node
  OBVIOUS
<1>4. TakeArrival
  BY DEF IgnoreArrival, StepOn, ReachTarget, ReachWindowEnd, EnterNode
<1>5. a \in Agvs /\ n \in Nodes /\ (InHand(a) \/ ~NoLetter(a))
  BY <1>3, <1>4, ArrivalType, LetterTaken
<1>6. a \in Agvs \ jam /\ Elsewhere(a, places)
  BY <1>2, <1>5
<1>7. n \notin places
  <2>1. \/ InHand(a) /\ n = inHand.node
        \/ \E i \in Late(a) : inbox[i].node = n
    BY <1>3, <1>4, LetterTaken
  <2>2. QED
    BY <1>6, <2>1 DEF Elsewhere
<1>8. /\ \A m \in places : nodeOcc'[m] = nodeOcc[m]
      /\ curNode'[a] \notin places /\ agvNode'[a] \notin places
      /\ \A c \in Agvs \ {a} : curNode'[c] = curNode[c] /\ agvNode'[c] = agvNode[c]
  <2>1. CASE IgnoreArrival
    BY <1>6, <2>1 DEF IgnoreArrival, occVars, serverVars, Elsewhere
  <2>2. CASE ~IgnoreArrival
    <3>1. OccupyNode(a, n) /\ curNode' = [curNode EXCEPT ![a] = n]
      BY <1>3, <2>2 DEF StepOn, ReachTarget, ReachWindowEnd, EnterNode
    <3>2. agvNode[a] \notin places
      BY <1>6 DEF Elsewhere
    <3>3. \A m \in places : nodeOcc'[m] = nodeOcc[m]
      BY <1>2, <1>7, <3>1, <3>2 DEF OccupyNode
    <3>4. curNode'[a] = n /\ agvNode'[a] = n
      BY <1>5, <3>1 DEF OccupyNode, TypeOK, OccTypeOK
    <3>5. \A c \in Agvs \ {a} : curNode'[c] = curNode[c] /\ agvNode'[c] = agvNode[c]
      BY <1>5, <3>1 DEF OccupyNode, TypeOK, OccTypeOK
    <3>6. QED
      BY <1>7, <3>3, <3>4, <3>5
  <2>3. QED
    BY <2>1, <2>2
<1>9. \/ UNCHANGED controllerVars
      \/ \E w \in Walks : CreateRoute(a, n, w, plan[a].target)
  BY <1>3 DEF IgnoreArrival, StepOn, ReachTarget, ReachWindowEnd
<1>10. \A c \in Agvs \ {a} : /\ route'[c] = route[c] /\ link'[c] = link[c]
                             /\ moving'[c] = moving[c] /\ mail'[c] = mail[c]
  <2>1. CASE UNCHANGED controllerVars
    BY <2>1 DEF controllerVars
  <2>2. ASSUME NEW w \in Walks, CreateRoute(a, n, w, plan[a].target)
        PROVE  \A c \in Agvs \ {a} : /\ route'[c] = route[c] /\ link'[c] = link[c]
                                     /\ moving'[c] = moving[c] /\ mail'[c] = mail[c]
    BY <1>5, <2>2 DEF CreateRoute, FollowRoute, TypeOK
  <2>3. QED
    BY <1>9, <2>1, <2>2
<1>11. \A c \in Agvs \ {a} : NamesKept(c)
  BY <1>4, <1>10, NamesTaken
<1>12. \A d \in jam : NoLetter(d)' /\ ~InHand(d)'
  <2>1. \A d \in jam : d # a /\ mail'[d] = mail[d] /\ SameLetters(d)
    BY <1>2, <1>3, <1>4, <1>6, <1>10, LettersKept
  <2>2. QED
    BY <1>2, <2>1 DEF SameLetters
<1>13. Elsewhere(a, places)'
  <2>1. CASE UNCHANGED controllerVars
    <3>1. route'[a] = route[a] /\ link'[a] = link[a] /\ moving'[a] = moving[a] /\ mail'[a] = mail[a]
      BY <2>1 DEF controllerVars
    <3>2. NamesKept(a)
      BY <1>4, <1>5, <3>1, NamesTaken
    <3>3. HasLink(a)' = HasLink(a) /\ From(a)' = From(a) /\ To(a)' = To(a)
      BY <3>1 DEF HasLink, From, To
    <3>4. QED
      BY <1>6, <1>8, <3>1, <3>2, <3>3, LettersElsewhere DEF Elsewhere
  <2>2. ASSUME NEW w \in Walks, CreateRoute(a, n, w, plan[a].target)
        PROVE  Elsewhere(a, places)'
    <3>1. mail'[a] = <<>>
      BY <1>5, <2>2 DEF CreateRoute, FollowRoute, TypeOK
    <3>2. NamesKept(a)
      BY <1>4, <1>5, <3>1, NamesTaken
    <3>3. PICK target : target = plan[a].target
      OBVIOUS
    <3>4. CreateRoute(a, n, w, target)
      BY <2>2, <3>3
    <3>5. QED
      BY <1>5, <1>6, <1>7, <1>8, <3>2, <3>4, StartsElsewhere
  <2>3. QED
    BY <1>9, <2>1, <2>2
<1>14. \A c \in Agvs \ jam : Elsewhere(c, places)'
  <2> SUFFICES ASSUME NEW c \in Agvs \ jam, c # a
               PROVE  Elsewhere(c, places)'
    BY <1>13
  <2>1. Elsewhere(c, places) /\ NamesKept(c)
    BY <1>2, <1>11
  <2>2. QED
    BY <1>8, <1>10, <2>1, StaysElsewhere
<1>15. QED
  BY <1>1, <1>2, <1>6, <1>8, <1>10, <1>12, <1>14, JamLasts DEF JamOn

(* An AGV outside the jam drives; those of the jam cannot.                 *)
LEMMA JamDuringDrive ==
  ASSUME TypeOK, NEW jam \in SUBSET Agvs, Jammed(jam), NEW a \in Agvs,
         Depart(a) \/ Arrive(a)
  PROVE  Jammed(jam)'
<1>1. PICK places : JamOn(jam, places)
  BY JamFacts, Zenon
<1>2. /\ \A d \in jam : d \in Agvs /\ ~moving[d] /\ NoLetter(d) /\ ~InHand(d)
      /\ \A d \in jam : From(d) \in places /\ To(d) \in places
      /\ \A c \in Agvs \ jam : Elsewhere(c, places)
      /\ NONE \notin places
  BY <1>1, Zenon DEF JamOn
<1>3. /\ \A n \in places : n \in Nodes
      /\ \A n \in places : nodeOcc[n] \in jam
  BY <1>1, Zenon DEF JamOn
<1>4. OccTypeOK /\ HasLink(a) /\ To(a) \in Nodes /\ inbox' = inbox
      /\ inHand' = inHand /\ curNode' = curNode /\ route' = route
  BY LinkEnds DEF TypeOK, Depart, Arrive, DriveTurn, Visit, serverVars
<1>5. a \notin jam
  <2>1. ASSUME a \in jam
        PROVE  ~Depart(a)
    <3>1. PICK d \in jam \ {a} : To(a) = From(d)
      BY <2>1 DEF Jammed
    <3>2. nodeOcc[To(a)] = d /\ d # NONE /\ d # a
      BY <3>1, NoneAssumption DEF Jammed
    <3>3. QED
      BY <3>2 DEF Depart, IsResourceClearForExecution
  <2>2. ASSUME a \in jam
        PROVE  ~Arrive(a)
    BY <1>2, <2>2 DEF Arrive
  <2>3. QED
    BY <2>1, <2>2
<1>6. Elsewhere(a, places) /\ From(a) \notin places
  BY <1>2, <1>4, <1>5 DEF Elsewhere
<1>7. To(a) \notin places
  <2>1. CASE Depart(a)
    <3>1. nodeOcc[To(a)] \in {NONE, a}
      BY <2>1 DEF Depart, IsResourceClearForExecution
    <3>2. NONE \notin jam
      BY NoneAssumption
    <3>3. QED
      BY <1>3, <1>5, <3>1, <3>2
  <2>2. CASE Arrive(a)
    BY <1>6, <2>2 DEF Arrive, Elsewhere
  <2>3. QED
    BY <2>1, <2>2
<1>8. \A c \in Agvs \ {a} : /\ link'[c] = link[c] /\ moving'[c] = moving[c]
                            /\ mail'[c] = mail[c] /\ agvNode'[c] = agvNode[c]
  BY <1>4 DEF Depart, Arrive, OccupyEdge, occVars, TypeOK, OccTypeOK
<1>9. \A n \in places : nodeOcc'[n] = nodeOcc[n]
  BY <1>3, <1>4, <1>6 DEF Depart, Arrive, OccupyEdge, occVars, OccTypeOK
<1>10. Elsewhere(a, places)'
  <2>1. CASE Depart(a)
    <3>1. /\ moving'[a] /\ link'[a] = link[a] /\ mail'[a] = mail[a] /\ agvNode'[a] = NONE
      BY <1>4, <2>1 DEF Depart, OccupyEdge, TypeOK, OccTypeOK
    <3>2. From(a)' = From(a) /\ To(a)' = To(a) /\ Late(a)' = Late(a)
      BY <1>4, <3>1 DEF From, To, Late
    <3>3. /\ \A i \in 1..Len(mail'[a]) : mail'[a][i] \notin places
          /\ \A i \in Late(a)' : inbox'[i].node \notin places
          /\ InHand(a)' => inHand'.node \notin places
      BY <1>4, <1>6, <3>1, <3>2 DEF Elsewhere, InHand
    <3>4. QED
      BY <1>2, <1>4, <1>6, <1>7, <3>1, <3>2, <3>3 DEF Elsewhere
  <2>2. CASE Arrive(a)
    <3>1. /\ ~moving'[a] /\ link'[a] = link[a] + 1 /\ mail'[a] = Append(mail[a], To(a))
          /\ agvNode' = agvNode /\ link[a] \in Nat /\ mail[a] \in Seq(Nodes)
      BY <2>2 DEF Arrive, TypeOK, occVars
    <3>2. From(a)' = To(a) /\ Late(a)' = Late(a)
      BY <1>4, <3>1 DEF From, To, Late
    <3>3. \A i \in 1..Len(mail'[a]) : mail'[a][i] \notin places
      <4> SUFFICES ASSUME NEW i \in 1..Len(mail'[a])
                   PROVE  mail'[a][i] \notin places
        OBVIOUS
      <4>1. \/ i \in 1..Len(mail[a]) /\ mail'[a][i] = mail[a][i]
            \/ mail'[a][i] = To(a)
        BY <1>4, <3>1
      <4>2. QED
        BY <1>6, <1>7, <4>1 DEF Elsewhere
    <3>4. /\ \A i \in Late(a)' : inbox'[i].node \notin places
          /\ InHand(a)' => inHand'.node \notin places
      BY <1>4, <1>6, <3>2 DEF Elsewhere, InHand
    <3>5. QED
      BY <1>4, <1>6, <1>7, <3>1, <3>2, <3>3, <3>4 DEF Elsewhere
  <2>3. QED
    BY <2>1, <2>2
<1>11. \A c \in Agvs \ {a} : Late(c)' = Late(c) /\ NamesKept(c)
  BY <1>4, <1>8 DEF Late, NamesKept, InHand
<1>12. \A c \in Agvs \ jam : Elsewhere(c, places)'
  <2> SUFFICES ASSUME NEW c \in Agvs \ jam, c # a
               PROVE  Elsewhere(c, places)'
    BY <1>10
  <2>1. Elsewhere(c, places) /\ NamesKept(c)
    BY <1>2, <1>11
  <2>2. QED
    BY <1>4, <1>8, <2>1, StaysElsewhere
<1>13. \A d \in jam : NoLetter(d)' /\ ~InHand(d)'
  BY <1>2, <1>4, <1>5, <1>8, <1>11 DEF NoLetter, InHand
<1>14. QED
  BY <1>1, <1>2, <1>4, <1>5, <1>8, <1>9, <1>12, <1>13, JamLasts DEF JamOn

(* Letters are collected, or a route is issued outside the jam.            *)
LEMMA JamDuringCollect ==
  ASSUME TypeOK, NEW jam \in SUBSET Agvs, Jammed(jam), NEW a \in Agvs, Collect(a)
  PROVE  Jammed(jam)'
<1>1. PICK places : JamOn(jam, places)
  BY JamFacts, Zenon
<1>2. /\ \A d \in jam : d \in Agvs /\ ~moving[d] /\ NoLetter(d) /\ ~InHand(d)
      /\ \A c \in Agvs \ jam : Elsewhere(c, places)
  BY <1>1, Zenon DEF JamOn
<1>3. UNCHANGED <<nodeOcc, agvNode, curNode, route, link, moving>>
  BY DEF Collect, occVars, serverVars
<1>4. \A d \in jam : NoLetter(d)' /\ ~InHand(d)'
  <2>1. \A d \in jam : SameLetters(d)
    BY <1>2, LettersCollected
  <2>2. QED
    BY <1>2, <2>1 DEF SameLetters
<1>5. \A c \in Agvs \ jam : Elsewhere(c, places)'
  BY <1>2, <1>3, NamesCollected, StaysElsewhere
<1>6. QED
  BY <1>1, <1>3, <1>4, <1>5, JamLasts DEF JamOn

LEMMA JamDuringAssign ==
  ASSUME TypeOK, NEW jam \in SUBSET Agvs, Jammed(jam), NEW a \in Agvs \ jam, Assign(a)
  PROVE  Jammed(jam)'
<1>1. PICK places : JamOn(jam, places)
  BY JamFacts, Zenon
<1>2. /\ \A d \in jam : d \in Agvs /\ ~moving[d] /\ NoLetter(d) /\ ~InHand(d)
      /\ \A c \in Agvs \ jam : Elsewhere(c, places)
  BY <1>1, Zenon DEF JamOn
<1>3. UNCHANGED <<nodeOcc, agvNode, curNode, inbox, inHand>>
  BY DEF Assign, occVars, frameVars, queueVars
<1>4. PICK w \in Walks, target \in Nodes : CreateRoute(a, curNode[a], w, target)
  BY DEF Assign
<1>5. /\ mail'[a] = <<>>
      /\ \A c \in Agvs \ {a} : /\ route'[c] = route[c] /\ link'[c] = link[c]
                               /\ moving'[c] = moving[c] /\ mail'[c] = mail[c]
  BY <1>4 DEF CreateRoute, FollowRoute, TypeOK
<1>6. \A c \in Agvs : Late(c)' = Late(c) /\ NamesKept(c)
  <2> SUFFICES ASSUME NEW c \in Agvs
               PROVE  Late(c)' = Late(c) /\ NamesKept(c)
    OBVIOUS
  <2>1. Late(c)' = Late(c)
    BY <1>3 DEF Late
  <2>2. \A i \in 1..Len(mail'[c]) : i \in 1..Len(mail[c]) /\ mail'[c][i] = mail[c][i]
    <3>1. CASE c = a
      BY <1>5, <3>1
    <3>2. CASE c # a
      BY <1>5, <3>2
    <3>3. QED
      BY <3>1, <3>2
  <2>3. QED
    BY <1>3, <2>1, <2>2 DEF NamesKept, InHand
<1>7. \A d \in jam : NoLetter(d)' /\ ~InHand(d)'
  BY <1>2, <1>3, <1>5, <1>6 DEF NoLetter, InHand
<1>8. Elsewhere(a, places)'
  <2>1. PICK from : from = curNode[a]
    OBVIOUS
  <2>2. CreateRoute(a, from, w, target)
    BY <1>4, <2>1
  <2>3. from \notin places /\ curNode'[a] \notin places /\ agvNode'[a] \notin places
    BY <1>2, <1>3, <2>1 DEF Elsewhere
  <2>4. Elsewhere(a, places) /\ NamesKept(a)
    BY <1>2, <1>6
  <2>5. QED
    BY <2>2, <2>3, <2>4, StartsElsewhere
<1>9. \A c \in Agvs \ jam : Elsewhere(c, places)'
  <2> SUFFICES ASSUME NEW c \in Agvs \ jam, c # a
               PROVE  Elsewhere(c, places)'
    BY <1>8
  <2>1. Elsewhere(c, places) /\ NamesKept(c)
    BY <1>2, <1>6
  <2>2. QED
    BY <1>3, <1>5, <2>1, StaysElsewhere
<1>10. QED
  BY <1>1, <1>3, <1>5, <1>7, <1>9, JamLasts DEF JamOn

(* Nothing happens to robots, letters and nodes.                           *)
LEMMA JamUntouched ==
  ASSUME NEW jam, Jammed(jam),
         UNCHANGED <<nodeOcc, agvNode, curNode, route, link, moving, mail, inbox, inHand>>
  PROVE  Jammed(jam)'
<1>1. PICK places : places = {From(d) : d \in jam}
  OBVIOUS
<1>2. \A c : Late(c)' = Late(c) /\ NamesKept(c)
  BY DEF Late, NamesKept, InHand
<1>3. \A d \in jam : NoLetter(d)' /\ ~InHand(d)'
  BY <1>2 DEF Jammed, NoLetter, InHand
<1>4. \A c \in Agvs \ jam : Elsewhere(c, places)'
  <2>1. \A c \in Agvs \ jam : Elsewhere(c, places)
    BY <1>1 DEF Jammed
  <2>2. QED
    BY <1>2, <2>1, StaysElsewhere
<1>5. QED
  BY <1>1, <1>3, <1>4, JamLasts

LEMMA JamStep ==
  ASSUME TypeOK, [Next]_vars, NEW jam \in SUBSET Agvs, Jammed(jam)
  PROVE  Jammed(jam)' \/ \E a \in jam : Assign(a)
<1>1. CASE IgnoreArrival \/ StepOn \/ ReachTarget \/ ReachWindowEnd
  BY <1>1, JamDuringArrival
<1>2. CASE EndProcess \/ ReadyMap
  BY <1>2, JamUntouched
  DEF EndProcess, ReadyMap, occVars, controllerVars, serverVars, queueVars
<1>3. ASSUME NEW a \in Agvs, Collect(a)
      PROVE  Jammed(jam)'
  BY <1>3, JamDuringCollect
<1>4. ASSUME NEW a \in Agvs, Assign(a)
      PROVE  Jammed(jam)' \/ \E b \in jam : Assign(b)
  <2>1. CASE a \in jam
    BY <1>4, <2>1, Zenon
  <2>2. CASE a \notin jam
    BY <1>4, <2>2, JamDuringAssign
  <2>3. QED
    BY <2>1, <2>2
<1>5. ASSUME NEW a \in Agvs, Hold(a)
      PROVE  Jammed(jam)'
  BY <1>5, JamUntouched DEF Hold, DriveTurn, Visit, occVars, controllerVars, serverVars
<1>6. ASSUME NEW a \in Agvs, Depart(a) \/ Arrive(a)
      PROVE  Jammed(jam)'
  BY <1>6, JamDuringDrive
<1>7. CASE UNCHANGED vars
  BY <1>7, JamUntouched DEF vars, occVars, controllerVars, serverVars, frameVars, queueVars
<1>8. QED
  BY <1>1, <1>2, <1>3, <1>4, <1>5, <1>6, <1>7, Zenon DEF Next, Process

(* A jam of late AGVs lasts until one of them is given a new route,        *)
(* whatever the rest of the fleet does.                                    *)
THEOREM JamsLast == Spec => OnlyReroutesEndJams
<1>1. TypeOK /\ [Next]_vars =>
        \A jam \in SUBSET Agvs : Jammed(jam) => Jammed(jam)' \/ \E a \in jam : Assign(a)
  BY JamStep, Zenon
<1>2. QED
  BY <1>1, TypeCorrect, PTL DEF Spec, OnlyReroutesEndJams

=============================================================================
