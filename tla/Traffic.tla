------------------------------- MODULE Traffic -------------------------------
(***************************************************************************)
(* One frame of NetworkManagerServer::UpdateWorld as the robots see it:    *)
(*   "collect"  the arrival letters of every controller are moved into the *)
(*              event queue,                                               *)
(*   "process"  the server handles them (RoutePlanner::OnRobotStepComple-  *)
(*              ted, once for every time that RoutePlanner::Init was       *)
(*              called) and issues routes (RoutePlanner::CreateRoute),     *)
(*   "drive"    RobotManager::Update gives every UnityRobotController one  *)
(*              Update.                                                    *)
(*                                                                         *)
(* Clock readings are abstracted to a choice: whether the departure time   *)
(* has come and whether the ride is over.  Which routes are issued, and    *)
(* when, is left to the planner: any walk of the map that starts at the    *)
(* node where the server believes the AGV to be.                           *)
(***************************************************************************)
EXTENDS Occupancy

CONSTANTS
  Walks,      \* the routes the planner may issue: sequences of two nodes or more
  Home,       \* the node each AGV is placed on
  MaxViewers  \* bound: the READY_MAPs of a run

ASSUME WalksAssumption == \A w \in Walks : w \in Seq(Nodes) /\ Len(w) >= 2
ASSUME HomeAssumption == Home \in [Agvs -> Nodes]
ASSUME ViewersAssumption == MaxViewers \in Nat \ {0}

VARIABLES
  phase,     \* which loop of UpdateWorld runs
  todo,      \* the AGVs that loop has still to visit
  inbox,     \* NODE_ARRIVED events in EventManager, oldest first
  inHand,    \* the event that SwapAndProcessEvents has popped, with the number
             \* of subscribed callbacks it has still to be given to, or NONE
  viewers,   \* READY_MAPs so far: each subscribes OnRobotStepCompleted again
  curNode,   \* Robo::m_CurrentNodeID, what the server believes
  plan,      \* RoutePlanner::m_MasterPlans, NONE where there is no entry
  route,     \* UnityRobotController: the nodes of m_CachedLinks
  link,      \* m_CurrentLinkIndex, counted from 1
  moving,    \* m_IsMovingLink
  mail       \* m_EventQueue: nodes reported as ARRIVED, not yet collected

controllerVars == <<route, link, moving, mail>>
serverVars == <<curNode, plan>>
queueVars == <<inbox, inHand>>
frameVars == <<phase, todo, queueVars, viewers>>
vars == <<occVars, controllerVars, serverVars, frameVars>>

-----------------------------------------------------------------------------
Plans == [steps : Walks, index : Nat, target : Nodes]
Letters == [agv : Agvs, node : Nodes]
Calls == [agv : Agvs, node : Nodes, calls : Nat \ {0}]

ASSUME PlansAssumption == NONE \notin Plans \cup Calls

TypeOK ==
  /\ OccTypeOK
  /\ phase \in {"collect", "process", "drive"}
  /\ todo \in SUBSET Agvs
  /\ inbox \in Seq(Letters)
  /\ inHand \in Calls \cup {NONE}
  /\ viewers \in 1..MaxViewers
  /\ curNode \in [Agvs -> Nodes]
  /\ plan \in [Agvs -> Plans \cup {NONE}]
  /\ route \in [Agvs -> Walks \cup {<<>>}]
  /\ link \in [Agvs -> Nat \ {0}]
  /\ moving \in [Agvs -> BOOLEAN]
  /\ mail \in [Agvs -> Seq(Nodes)]

(* HandleReadyMap_Packet spawned the AGVs on their home nodes; no AGV has  *)
(* a route, and the first frame is about to start.  (The fleets of later   *)
(* READY_MAPs may be among the AGVs: they have nothing to do before.)      *)
Init ==
  /\ OccInit
  /\ phase = "collect"
  /\ todo = Agvs
  /\ inbox = <<>>
  /\ inHand = NONE
  /\ viewers = 1
  /\ curNode = Home
  /\ plan = [a \in Agvs |-> NONE]
  /\ route = [a \in Agvs |-> <<>>]
  /\ link = [a \in Agvs |-> 1]
  /\ moving = [a \in Agvs |-> FALSE]
  /\ mail = [a \in Agvs |-> <<>>]

(* The loop over the controllers: a is visited, and the loop that follows  *)
(* starts after the last one.  The order is that of an unordered_map.      *)
Visit(a, next) ==
  /\ a \in todo
  /\ todo' = IF todo = {a} THEN Agvs ELSE todo \ {a}
  /\ phase' = IF todo = {a} THEN next ELSE phase
  /\ UNCHANGED <<inHand, viewers>>

(* Between two frames a viewer reports READY_MAP, and RoutePlanner::Init   *)
(* subscribes OnRobotStepCompleted once more.                              *)
ReadyMap ==
  /\ phase = "collect" /\ todo = Agvs
  /\ viewers < MaxViewers
  /\ viewers' = viewers + 1
  /\ UNCHANGED <<occVars, controllerVars, serverVars, phase, todo, queueVars>>

-----------------------------------------------------------------------------
(* UpdateWorld, first loop: all letters of one controller are published.   *)
Collect(a) ==
  /\ phase = "collect"
  /\ Visit(a, "process")
  /\ inbox' = inbox \o [i \in 1..Len(mail[a]) |-> [agv |-> a, node |-> mail[a][i]]]
  /\ mail' = [mail EXCEPT ![a] = <<>>]
  /\ UNCHANGED <<occVars, serverVars, route, link, moving>>

(* Mutant: the index starts before the first link.                         *)
FollowRouteFromZero(a, w) ==
  /\ route' = [route EXCEPT ![a] = w]
  /\ link' = [link EXCEPT ![a] = 0]
  /\ moving' = [moving EXCEPT ![a] = FALSE]
  /\ mail' = [mail EXCEPT ![a] = <<>>]

(* Mutant: a ride in progress goes on under the new route.                 *)
FollowRouteWhileRiding(a, w) ==
  /\ route' = [route EXCEPT ![a] = w]
  /\ link' = [link EXCEPT ![a] = 1]
  /\ mail' = [mail EXCEPT ![a] = <<>>]
  /\ UNCHANGED moving

(* The controller starts the new route from scratch: stale letters are     *)
(* dropped and a ride in progress is forgotten, its edge is not released.  *)
FollowRoute(a, w) ==
  /\ route' = [route EXCEPT ![a] = w]
  /\ link' = [link EXCEPT ![a] = 1]
  /\ moving' = [moving EXCEPT ![a] = FALSE]
  /\ mail' = [mail EXCEPT ![a] = <<>>]

(* CreateRoute, the outcome that changes traffic: path w was reserved; the *)
(* search for it went on until it came to the target or gave up.           *)
(* The other outcomes (already at the target, no path, refused by the      *)
(* ledger) leave plan and controller as they are.                          *)
CreateRoute(a, from, w, target) ==
  /\ w[1] = from
  /\ \A i \in 1..(Len(w) - 1) : w[i] # target
  /\ plan' = [plan EXCEPT ![a] = [steps |-> w, index |-> 1, target |-> target]]
  /\ FollowRoute(a, w)

(* A route handed out by TaskManager or by the retry list.                 *)
Assign(a) ==
  /\ phase = "process"
  /\ inHand = NONE
  /\ \E w \in Walks, target \in Nodes : CreateRoute(a, curNode[a], w, target)
  /\ UNCHANGED <<occVars, curNode, frameVars>>

(* One call of OnRobotStepCompleted: the oldest event is popped and given  *)
(* to one subscribed callback after the other, before anything else.       *)
Arrival == IF inHand = NONE THEN Head(inbox) ELSE inHand

(* The event of a is with the callbacks.                                   *)
InHand(a) == inHand # NONE /\ inHand.agv = a

TakeArrival ==
  LET left == (IF inHand = NONE THEN viewers ELSE inHand.calls) - 1 IN
  /\ phase = "process"
  /\ IF inHand = NONE THEN inbox # <<>> /\ inbox' = Tail(inbox)
                      ELSE UNCHANGED inbox
  /\ inHand' = IF left = 0 THEN NONE
               ELSE [agv |-> Arrival.agv, node |-> Arrival.node, calls |-> left]
  /\ UNCHANGED <<phase, todo, viewers>>

(* No plan: the event is dropped before OccupyNode.                        *)
IgnoreArrival ==
  /\ TakeArrival
  /\ plan[Arrival.agv] = NONE
  /\ UNCHANGED <<occVars, controllerVars, serverVars>>

EnterNode ==
  /\ TakeArrival
  /\ plan[Arrival.agv] # NONE
  /\ curNode' = [curNode EXCEPT ![Arrival.agv] = Arrival.node]
  /\ OccupyNode(Arrival.agv, Arrival.node)

PlanExhausted(p) == p.index + 1 >= Len(p.steps)

(* Steps are left: the plan advances, the controller drives on by itself.  *)
StepOn ==
  /\ EnterNode
  /\ ~PlanExhausted(plan[Arrival.agv])
  /\ plan' = [plan EXCEPT ![Arrival.agv].index = @ + 1]
  /\ UNCHANGED controllerVars

(* The target is reached: the plan is erased and the work timer starts.    *)
ReachTarget ==
  /\ EnterNode
  /\ PlanExhausted(plan[Arrival.agv])
  /\ Arrival.node = plan[Arrival.agv].target
  /\ plan' = [plan EXCEPT ![Arrival.agv] = NONE]
  /\ UNCHANGED controllerVars

(* The plan is at its end short of the target: by the time window, or      *)
(* because some arrivals were counted more than once.  It is erased and    *)
(* the rest of the way is planned at once, which succeeds or is left to a  *)
(* retry; the controller is told only of a new route.                      *)
ReachWindowEnd ==
  LET a == Arrival.agv IN
  /\ EnterNode
  /\ PlanExhausted(plan[a])
  /\ Arrival.node # plan[a].target
  /\ \/ \E w \in Walks : CreateRoute(a, Arrival.node, w, plan[a].target)
     \/ plan' = [plan EXCEPT ![a] = NONE] /\ UNCHANGED controllerVars

(* SwapAndProcessEvents and the retry list are done.                       *)
EndProcess ==
  /\ phase = "process"
  /\ inbox = <<>> /\ inHand = NONE
  /\ phase' = "drive"
  /\ UNCHANGED <<occVars, controllerVars, serverVars, todo, queueVars, viewers>>

-----------------------------------------------------------------------------
(* UnityRobotController::Update, one call per AGV and frame.               *)
HasLink(a) == link[a] < Len(route[a])
From(a) == route[a][link[a]]
To(a) == route[a][link[a] + 1]

DriveTurn(a) ==
  /\ phase = "drive"
  /\ Visit(a, "collect")
  /\ UNCHANGED <<serverVars, inbox>>

(* Nothing to drive, not time to leave, way not clear, or still riding.    *)
Hold(a) ==
  /\ DriveTurn(a)
  /\ UNCHANGED <<occVars, controllerVars>>

(* The clearance callback said yes: the edge is entered.  A ride takes     *)
(* longer than a frame, so the same call does not also arrive.             *)
Depart(a) ==
  /\ DriveTurn(a)
  /\ HasLink(a)
  /\ ~moving[a]
  /\ IsResourceClearForExecution(a, From(a), To(a))
  /\ moving' = [moving EXCEPT ![a] = TRUE]
  /\ OccupyEdge(a, From(a), To(a))
  /\ UNCHANGED <<route, link, mail>>

(* Mutant: the call does not end at the arrival, so that the AGV may enter *)
(* its next link in the same turn.                                         *)
ArriveAndGoOn(a) ==
  /\ phase = "drive"
  /\ a \in todo
  /\ HasLink(a)
  /\ moving[a]
  /\ mail' = [mail EXCEPT ![a] = Append(@, To(a))]
  /\ link' = [link EXCEPT ![a] = @ + 1]
  /\ moving' = [moving EXCEPT ![a] = FALSE]
  /\ UNCHANGED <<occVars, route, serverVars, frameVars>>

(* Progress reached 1: the letter is posted and the call ends, so that the *)
(* server reads it before the next departure.                              *)
Arrive(a) ==
  /\ DriveTurn(a)
  /\ HasLink(a)
  /\ moving[a]
  /\ mail' = [mail EXCEPT ![a] = Append(@, To(a))]
  /\ link' = [link EXCEPT ![a] = @ + 1]
  /\ moving' = [moving EXCEPT ![a] = FALSE]
  /\ UNCHANGED <<occVars, route>>

-----------------------------------------------------------------------------
Process == IgnoreArrival \/ StepOn \/ ReachTarget \/ ReachWindowEnd \/ EndProcess

Next ==
  \/ Process
  \/ ReadyMap
  \/ \E a \in Agvs : Collect(a) \/ Assign(a) \/ Hold(a) \/ Depart(a) \/ Arrive(a)

Spec == Init /\ [][Next]_vars

-----------------------------------------------------------------------------
(* Safety.                                                                 *)

CurEdge(a) == Edge(From(a), To(a))

(* The interlock: two AGVs never ride the same edge, in the same or in     *)
(* opposite directions, however late they are against their time tables    *)
(* and however often a ride is cut short by a new route.                   *)
EdgeExclusion ==
  \A a, b \in Agvs : a # b /\ moving[a] /\ moving[b] => CurEdge(a) # CurEdge(b)

(* While an AGV rides an edge, the two occupancy maps agree that it does,  *)
(* so the edge stays closed to every other AGV until the server has read   *)
(* the arrival.                                                            *)
RiderHoldsEdge ==
  \A a \in Agvs : moving[a] => /\ agvEdge[a] = CurEdge(a)
                               /\ edgeOcc[CurEdge(a)] = a

(* The reason why Update ends right after an arrival: the server reads a   *)
(* letter before its sender leaves the node, so an arrival is never booked *)
(* for an AGV that already rides its next edge, by no callback.            *)
ArrivalSeenFirst ==
  \A a \in Agvs : moving[a] => /\ mail[a] = <<>>
                               /\ \A i \in 1..Len(inbox) : inbox[i].agv # a
                               /\ ~InHand(a)

(* The letters of an AGV that the server has not read: those in the inbox, *)
(* and those still with the controller.                                    *)
Late(a) == {i \in 1..Len(inbox) : inbox[i].agv = a}

NoLetter(a) == Late(a) = {} /\ mail[a] = <<>>
OneLetter(a, n) ==
  \/ Late(a) = {} /\ mail[a] = <<n>>
  \/ mail[a] = <<>> /\ \E i \in Late(a) : Late(a) = {i} /\ inbox[i].node = n

UnderWay(a) == moving[a] \/ ~NoLetter(a)

(* The server knows a to be on node "at" of its route.  Its plan has come  *)
(* to that step, or, where arrivals are handled more than once, beyond it. *)
KnownAt(a, at) ==
  /\ at \in 1..plan[a].index
  /\ curNode[a] = route[a][at]
  /\ viewers = 1 => plan[a].index = at

(* Robot, plan and occupancy tell the same story of an AGV: what the       *)
(* server knows is one step behind the controller while the arrival is     *)
(* unread.                                                                 *)
InStep(a) ==
  /\ \A e \in Edges : edgeOcc[e] = a => agvEdge[a] = e /\ UnderWay(a)
  /\ \A n \in Nodes : nodeOcc[n] = a => /\ agvNode[a] = n
                                        /\ curNode[a] = n
                                        /\ ~UnderWay(a)
  /\ IF plan[a] = NONE
     THEN ~HasLink(a) /\ ~UnderWay(a)
     ELSE /\ plan[a].steps = route[a]
          /\ plan[a].index < Len(route[a])
          /\ \A i \in 1..(Len(route[a]) - 1) : route[a][i] # plan[a].target
          /\ \/ NoLetter(a) /\ KnownAt(a, link[a])
             \/ /\ OneLetter(a, route[a][link[a]])
                /\ KnownAt(a, link[a] - 1)
                /\ ~InHand(a)

(* The plan of a ends short of its target, while its controller has links  *)
(* to go, and there is no new one.                                         *)
PlanLost(a) ==
  /\ plan[a] # NONE /\ plan'[a] = NONE
  /\ curNode'[a] # plan[a].target
  /\ HasLink(a)

(* Nothing stays closed by an AGV that is not there: an edge or a node is  *)
(* marked only while its AGV is on it or its arrival there is unread,      *)
(* however the arrivals of others come in between.  Two steps can end      *)
(* this: a route for an AGV that is under way, as TaskManager gives it to  *)
(* a laden one on its way home; and, once a second READY_MAP has made the  *)
(* planner count arrivals twice, a plan that runs out before the route     *)
(* does and finds no successor.                                            *)
StepEndsTwoWays ==
  [][\A a \in Agvs : InStep(a) => InStep(a)' \/ (UnderWay(a) /\ Assign(a))
                                            \/ (viewers > 1 /\ PlanLost(a))]_vars

(* AGV c, its letters and its ride have nothing to do with these places.   *)
Elsewhere(c, places) ==
  /\ {curNode[c], agvNode[c]} \cap places = {}
  /\ HasLink(c) => From(c) \notin places
  /\ moving[c] => To(c) \notin places
  /\ \A i \in 1..Len(mail[c]) : mail[c][i] \notin places
  /\ \A i \in Late(c) : inbox[i].node \notin places
  /\ InHand(c) => inHand.node \notin places

(* The AGVs of jam, each late against its time table, stand on the nodes   *)
(* that others of them are to enter next.                                  *)
Jammed(jam) ==
  /\ jam # {}
  /\ \A c \in jam : /\ HasLink(c) /\ ~moving[c] /\ nodeOcc[From(c)] = c
                   /\ NoLetter(c) /\ ~InHand(c)
  /\ \A c \in jam : \E d \in jam \ {c} : To(c) = From(d)
  /\ \A c \in Agvs \ jam : Elsewhere(c, {From(d) : d \in jam})

(* A jam is for ever: whatever the other AGVs do, every AGV of it asks for *)
(* the same node in each of its Updates and is refused, until the server   *)
(* gives one of them a new route; the controller never asks for one.       *)
OnlyReroutesEndJams ==
  [][\A jam \in SUBSET Agvs :
       Jammed(jam) => Jammed(jam)' \/ \E a \in jam : Assign(a)]_vars

(* The controller variables of every AGV are those of a Robot, which the   *)
(* timed Controller is too: so what Traffic leaves open of a ride is all   *)
(* that depends on the clock.                                              *)
Driver(a) ==
  INSTANCE Robot WITH left <- IF route[a] = <<>> THEN 0 ELSE Len(route[a]) - link[a],
                      moving <- moving[a], unread <- Len(mail[a])

(* Traffic implements the abstract interlock.                              *)
riding == [a \in Agvs |-> IF moving[a] THEN CurEdge(a) ELSE NONE]

Blocks == INSTANCE BlockSections WITH Sections <- Edges

BlockSpec == Blocks!Spec

=============================================================================
