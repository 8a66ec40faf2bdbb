------------------------------- MODULE Mission -------------------------------
(***************************************************************************)
(* The life of a mission: TaskManager (Server/TaskManager.cpp) decides     *)
(* where an AGV goes next, RoutePlanner issues the route and follows it,   *)
(* the AGV (Shared/Robo.cpp) works for a while at the target, and          *)
(* EventManager (Shared/Event.hpp) carries the news with a delay of one    *)
(* frame.  A frame of UpdateWorld is                                       *)
(*   "collect"  the arrivals of the robots are published, then the queues  *)
(*              are swapped,                                               *)
(*   "process"  the events are handled one by one,                         *)
(*   "retry"    the failed routes that are due are tried again, and the    *)
(*              work timers run down.                                      *)
(*                                                                         *)
(* Time and ledger are abstracted to choices: when a robot arrives, a      *)
(* timer expires or a retry is due, which load and drop nodes are free,    *)
(* and whether a route is found.  Of the map remain the load nodes, the    *)
(* drop nodes, the home of the AGV in question and Way, any other node; a  *)
(* route passes only such nodes before its end.                            *)
(***************************************************************************)
EXTENDS Naturals, Sequences, SequencesExt

CONSTANTS
  Agvs,
  Loads,       \* loadNodes
  Drops,       \* dispatchNodes
  HomeNode,    \* the m_HomeNode of the AGV in question
  Way,         \* any other node
  Links,       \* which nodes a link connects
  MaxTickets,  \* bound: tickets in m_WaitingAGVs; with 0 a drop node is always
               \* at hand
  MaxViewers,  \* bound: READY_MAPs that came before the simulation began
  NONE

Targets == Loads \cup Drops \cup {HomeNode}
Nodes == Targets \cup {Way}

ASSUME FleetAssumption ==
  IsFiniteSet(Agvs) /\ MaxTickets \in Nat /\ MaxViewers \in Nat \ {0}
ASSUME NodesAssumption ==
  /\ Loads \cap Drops = {}
  /\ HomeNode \notin Loads \cup Drops
  /\ Way \notin Targets
  /\ NONE \notin Nodes
  /\ Links \subseteq Nodes \X Nodes

VARIABLES
  phase,    \* the part of the frame
  due,      \* retryList of Update: the AGVs still to be retried in this frame
  queue,    \* EventManager: m_NextQueue
  events,   \* m_CurrentQueue
  viewers,  \* READY_MAPs so far: each subscribes OnRobotStepCompleted again
  calls,    \* how many of these subscriptions the event in hand was given to
  tickets,  \* TaskManager: m_WaitingAGVs, who waits for a drop node
  wakes,    \* what ProcessNextDispatch has left of its qSize
  state,    \* Robo: m_State
  purpose,  \* m_Purpose
  cur,      \* m_CurrentNodeID
  headsHome, \* m_ToNode is the home
  working,  \* m_WorkTimer is above 0
  plan,     \* RoutePlanner: m_MasterPlans, NONE where there is no entry; of
            \* its steps only those from currentStepIndex on
  pending,  \* m_PendingRoutes
  ride,     \* the nodes the controller of the AGV has still ahead of it
  laden,    \* whether a load is on the AGV (not in the code)
  stranded  \* the AGVs that ever drew a ticket (not in the code)

missionVars == <<tickets, wakes, stranded>>
roboVars == <<state, purpose, cur, headsHome, working, laden>>
routeVars == <<plan, pending, ride>>
subscribers == <<viewers, calls>>
vars == <<phase, due, queue, events, subscribers, missionVars, roboVars, routeVars>>

Purposes == {"NONE", "HOME", "PICKUP", "DROP"}
EventTypes == {"IDLE_READY", "PICKUP_COMPLETED", "DROP_COMPLETED", "NODE_ARRIVED"}
(* Only an arrival and the news of an AGV at home name a node.             *)
Events ==
  [type : {"NODE_ARRIVED"}, agv : Agvs, node : Nodes]
    \cup [type : EventTypes \ {"NODE_ARRIVED"}, agv : Agvs, node : Nodes \cup {NONE}]
Plans == [rest : Seq(Nodes), target : Targets, purpose : Purposes]
Retries == [target : Targets, purpose : Purposes]

ASSUME NoneAssumption == NONE \notin Plans \cup Retries

TypeOK ==
  /\ phase \in {"collect", "process", "retry"}
  /\ due \subseteq Agvs
  /\ queue \in Seq(Events) /\ events \in Seq(Events)
  /\ viewers \in 1..MaxViewers
  /\ calls \in 0..viewers - 1
  /\ tickets \in Seq(Agvs)
  /\ wakes \in 0..Len(tickets)
  /\ state \in [Agvs -> {"IDLE", "MOVING", "LOADING", "UNLOADING"}]
  /\ purpose \in [Agvs -> Purposes]
  /\ cur \in [Agvs -> Nodes]
  /\ headsHome \in [Agvs -> BOOLEAN]
  /\ working \in [Agvs -> BOOLEAN]
  /\ plan \in [Agvs -> Plans \cup {NONE}]
  /\ pending \in [Agvs -> Retries \cup {NONE}]
  /\ ride \in [Agvs -> Seq(Nodes)]
  /\ laden \in [Agvs -> BOOLEAN]
  /\ stranded \subseteq Agvs

Event(type, a, node) == [type |-> type, agv |-> a, node |-> node]

(* HandleReadyMap_Packet: every AGV stands at home and has said that it    *)
(* is ready.  The order of the AGVs is that of their network ids.          *)
Init ==
  /\ phase = "collect"
  /\ due = {}
  /\ queue \in SetToSeqs({Event("IDLE_READY", a, NONE) : a \in Agvs})
  /\ events = <<>>
  /\ viewers \in 1..MaxViewers
  /\ calls = 0
  /\ tickets = <<>>
  /\ wakes = 0
  /\ state = [a \in Agvs |-> "IDLE"]
  /\ purpose = [a \in Agvs |-> "NONE"]
  /\ cur = [a \in Agvs |-> HomeNode]
  /\ headsHome = [a \in Agvs |-> TRUE]
  /\ working = [a \in Agvs |-> FALSE]
  /\ plan = [a \in Agvs |-> NONE]
  /\ pending = [a \in Agvs |-> NONE]
  /\ ride = [a \in Agvs |-> <<>>]
  /\ laden = [a \in Agvs |-> FALSE]
  /\ stranded = {}


Publish(e) == queue' = Append(queue, e)

-----------------------------------------------------------------------------
(* RoutePlanner::CreateRoute for an AGV on node "from".  "plans" are the   *)
(* plans as the caller left them.                                          *)

(* The nodes behind the start; the time window may end a route early, and  *)
(* only a neighbour is reached over one link.                              *)
RoutesTo(from, target) ==
  {r \in {<<target>>, <<Way, target>>, <<Way>>} : <<from, r[1]>> \in Links}

(* Only the purpose is noted: no plan is made, nothing is published, and a *)
(* plan in force stays in force.                                           *)
AlreadyThere(a, from, target, why, plans) ==
  /\ from = target
  /\ purpose' = [purpose EXCEPT ![a] = why]
  /\ plan' = plans
  /\ pending' = [pending EXCEPT ![a] = NONE]
  /\ UNCHANGED <<state, ride>>

(* Mutant: an earlier failure stays noted for a retry.                     *)
RouteFoundStillPending(a, from, target, why, plans) ==
  /\ from # target
  /\ \E r \in RoutesTo(from, target) :
       /\ plan' = [plans EXCEPT ![a] =
                     [rest |-> r, target |-> target, purpose |-> why]]
       /\ ride' = [ride EXCEPT ![a] = r]
  /\ purpose' = [purpose EXCEPT ![a] = why]
  /\ state' = [state EXCEPT ![a] = "MOVING"]
  /\ UNCHANGED pending

(* Mutant: the robot is not told of the new route.                         *)
RouteFoundUntold(a, from, target, why, plans) ==
  /\ from # target
  /\ \E r \in RoutesTo(from, target) :
       /\ plan' = [plans EXCEPT ![a] =
                     [rest |-> r, target |-> target, purpose |-> why]]
       /\ ride' = IF ride[a] = <<>> THEN [ride EXCEPT ![a] = r] ELSE ride
  /\ purpose' = [purpose EXCEPT ![a] = why]
  /\ state' = [state EXCEPT ![a] = "MOVING"]
  /\ pending' = [pending EXCEPT ![a] = NONE]

RouteFound(a, from, target, why, plans) ==
  /\ from # target
  /\ \E r \in RoutesTo(from, target) :
       /\ plan' = [plans EXCEPT ![a] =
                     [rest |-> r, target |-> target, purpose |-> why]]
       /\ ride' = [ride EXCEPT ![a] = r]
  /\ purpose' = [purpose EXCEPT ![a] = why]
  /\ state' = [state EXCEPT ![a] = "MOVING"]
  /\ pending' = [pending EXCEPT ![a] = NONE]

(* Mutant: the AGV still counts as moving.                                 *)
RouteFailedMoving(a, from, target, why, plans) ==
  /\ from # target
  /\ pending' = [pending EXCEPT ![a] = [target |-> target, purpose |-> why]]
  /\ plan' = plans
  /\ UNCHANGED <<state, purpose, ride>>

(* Mutant: the failure is not noted for a retry.                           *)
RouteFailedForGood(a, from, target, why, plans) ==
  /\ from # target
  /\ state' = [state EXCEPT ![a] = "IDLE"]
  /\ pending' = [pending EXCEPT ![a] = NONE]
  /\ plan' = plans
  /\ UNCHANGED <<purpose, ride>>

RouteFailed(a, from, target, why, plans) ==
  /\ from # target
  /\ state' = [state EXCEPT ![a] = "IDLE"]
  /\ pending' = [pending EXCEPT ![a] = [target |-> target, purpose |-> why]]
  /\ plan' = plans
  /\ UNCHANGED <<purpose, ride>>

CreateRoute(a, from, target, why, plans) ==
  \/ AlreadyThere(a, from, target, why, plans)
  \/ RouteFound(a, from, target, why, plans)
  \/ RouteFailed(a, from, target, why, plans)

NoRoute == UNCHANGED <<state, purpose, routeVars>>

-----------------------------------------------------------------------------
(* Mutant: the queue is copied and not swapped.                            *)
CollectCopies ==
  /\ phase = "collect"
  /\ \E arrived \in SUBSET {a \in Agvs : ride[a] # <<>>} :
       /\ \E order \in SetToSeqs(arrived) :
            events' = queue \o [i \in DOMAIN order |->
                        Event("NODE_ARRIVED", order[i], Head(ride[order[i]]))]
       /\ ride' = [a \in Agvs |-> IF a \in arrived THEN Tail(ride[a]) ELSE ride[a]]
  /\ phase' = "process"
  /\ UNCHANGED <<due, queue, subscribers, missionVars, roboVars, plan, pending>>

(* Collect: the letters of the robots are published and the queues are     *)
(* swapped.  A robot ends at most one link between two frames; the order   *)
(* of the robots is that of an unordered_map.                              *)
Collect ==
  /\ phase = "collect"
  /\ \E arrived \in SUBSET {a \in Agvs : ride[a] # <<>>} :
       /\ \E order \in SetToSeqs(arrived) :
            events' = queue \o [i \in DOMAIN order |->
                        Event("NODE_ARRIVED", order[i], Head(ride[order[i]]))]
       /\ ride' = [a \in Agvs |-> IF a \in arrived THEN Tail(ride[a]) ELSE ride[a]]
  /\ queue' = <<>>
  /\ phase' = "process"
  /\ UNCHANGED <<due, subscribers, missionVars, roboVars, plan, pending>>

-----------------------------------------------------------------------------
(* The handlers of TaskManager.                                            *)

(* A node is refused to an AGV only over a booking of another one: that    *)
(* stands there or is on its way somewhere.                                *)
Refused(n, a) == \E b \in Agvs \ {a} : cur[b] = n \/ plan[b] # NONE

FindBestLoadNode(a) ==
  Loads \cup (IF \A n \in Loads : Refused(n, a) THEN {NONE} ELSE {})

FindBestDispatchNode(a) ==
  Drops \cup (IF \A n \in Drops : Refused(n, a) THEN {NONE} ELSE {})

(* The work of OnRobotIdle, of which ReserveStock is left out.             *)
OnRobotIdle(a) ==
  IF state[a] # "IDLE" THEN NoRoute
  ELSE \E n \in FindBestLoadNode(a) :
         IF n = NONE THEN CreateRoute(a, cur[a], HomeNode, "HOME", plan)
                     ELSE CreateRoute(a, cur[a], n, "PICKUP", plan)

(* OnRobotLoadCompleted; "waiting" are the tickets as the caller left them.*)
OnRobotLoadCompleted(a, waiting) ==
  \E n \in FindBestDispatchNode(a) :
    IF n # NONE
    THEN /\ tickets' = waiting
         /\ UNCHANGED stranded
         /\ CreateRoute(a, cur[a], n, "DROP", plan)
    ELSE /\ Len(waiting) < MaxTickets
         /\ tickets' = Append(waiting, a)
         /\ stranded' = stranded \cup {a}
         /\ IF ~headsHome[a] /\ purpose[a] # "HOME"
            THEN CreateRoute(a, cur[a], HomeNode, "HOME", plan)
            ELSE NoRoute

(* EventManager::SwapAndProcessEvents takes the oldest event and gives it  *)
(* to one subscription after the other: TaskManager subscribes once,       *)
(* RoutePlanner::Init at every READY_MAP.                                  *)
Now == Head(events)

Subscriptions(type) == IF type = "NODE_ARRIVED" THEN viewers ELSE 1

Take(type) ==
  /\ phase = "process"
  /\ wakes = 0
  /\ events # <<>>
  /\ Now.type = type
  /\ calls' = (calls + 1) % Subscriptions(type)
  /\ events' = IF calls' = 0 THEN Tail(events) ELSE events
  /\ UNCHANGED <<phase, due, viewers, laden>>

IdleReady ==
  /\ Take("IDLE_READY")
  /\ OnRobotIdle(Now.agv)
  /\ UNCHANGED <<queue, missionVars, cur, headsHome, working>>

PickupCompleted ==
  /\ Take("PICKUP_COMPLETED")
  /\ OnRobotLoadCompleted(Now.agv, tickets)
  /\ UNCHANGED <<queue, wakes, cur, headsHome, working>>

(* Mutant: one ticket too many is looked at.                               *)
DropCompletedOneMore ==
  /\ Take("DROP_COMPLETED")
  /\ OnRobotIdle(Now.agv)
  /\ wakes' = Len(tickets) + 1
  /\ UNCHANGED <<queue, tickets, stranded, cur, headsHome, working>>

(* OnRobotUnloadCompleted: the AGV is idle, and then ProcessNextDispatch   *)
(* goes once through the tickets that are out now.                         *)
DropCompleted ==
  /\ Take("DROP_COMPLETED")
  /\ OnRobotIdle(Now.agv)
  /\ wakes' = Len(tickets)
  /\ UNCHANGED <<queue, tickets, stranded, cur, headsHome, working>>

ProcessNextDispatch ==
  /\ wakes > 0
  /\ wakes' = wakes - 1
  /\ OnRobotLoadCompleted(Head(tickets), Tail(tickets))
  /\ UNCHANGED <<phase, due, queue, events, subscribers, cur, headsHome, working, laden>>

-----------------------------------------------------------------------------
(* RoutePlanner::OnRobotStepCompleted, the handler of NODE_ARRIVED.        *)

IgnoreArrival ==
  /\ Take("NODE_ARRIVED")
  /\ plan[Now.agv] = NONE
  /\ UNCHANGED <<queue, missionVars, state, purpose, cur, headsHome, working, routeVars>>

StepCompleted ==
  /\ Take("NODE_ARRIVED")
  /\ plan[Now.agv] # NONE
  /\ cur' = [cur EXCEPT ![Now.agv] = Now.node]
  /\ UNCHANGED missionVars

PlanExhausted(p) == Len(p.rest) = 1

StepOn ==
  LET a == Now.agv IN
  /\ StepCompleted
  /\ ~PlanExhausted(plan[a])
  /\ plan' = [plan EXCEPT ![a].rest = Tail(@)]
  /\ headsHome' = [headsHome EXCEPT ![a] = plan[a].rest[2] = HomeNode]
  /\ state' = [state EXCEPT ![a] = "MOVING"]
  /\ UNCHANGED <<queue, purpose, working, pending, ride>>

(* Case A: what happens at the target is up to the purpose of the AGV, not *)
(* to that of the plan.                                                    *)
ReachTarget ==
  LET a == Now.agv IN
  /\ StepCompleted
  /\ PlanExhausted(plan[a])
  /\ Now.node = plan[a].target
  /\ \/ /\ purpose[a] = "PICKUP"
        /\ state' = [state EXCEPT ![a] = "LOADING"]
        /\ working' = [working EXCEPT ![a] = TRUE]
        /\ UNCHANGED queue
     \/ /\ purpose[a] = "DROP"
        /\ state' = [state EXCEPT ![a] = "UNLOADING"]
        /\ working' = [working EXCEPT ![a] = TRUE]
        /\ UNCHANGED queue
     \/ /\ purpose[a] = "HOME"
        /\ state' = [state EXCEPT ![a] = "IDLE"]
        /\ working' = [working EXCEPT ![a] = FALSE]
        /\ Publish(Event("IDLE_READY", a, Now.node))
  /\ plan' = [plan EXCEPT ![a] = NONE]
  /\ UNCHANGED <<purpose, headsHome, pending, ride>>

(* Case B: the rest of the way is planned with the purpose of the plan.    *)
ReachWindowEnd ==
  LET a == Now.agv IN
  /\ StepCompleted
  /\ PlanExhausted(plan[a])
  /\ Now.node # plan[a].target
  /\ CreateRoute(a, Now.node, plan[a].target, plan[a].purpose,
                 [plan EXCEPT ![a] = NONE])
  /\ UNCHANGED <<queue, headsHome, working>>

-----------------------------------------------------------------------------
(* RoutePlanner::Update: the routes whose timer has run out, one by one.   *)
Update ==
  /\ phase = "process"
  /\ wakes = 0
  /\ events = <<>>
  /\ phase' = "retry"
  /\ due' \in SUBSET {a \in Agvs : pending[a] # NONE}
  /\ UNCHANGED <<queue, events, subscribers, missionVars, roboVars, routeVars>>

Retry(a) ==
  /\ phase = "retry"
  /\ a \in due
  /\ due' = due \ {a}
  /\ CreateRoute(a, cur[a], pending[a].target, pending[a].purpose, plan)
  /\ UNCHANGED <<phase, queue, events, subscribers, missionVars, cur, headsHome, working, laden>>

-----------------------------------------------------------------------------
(* Robo::UpdateWorkTimer for every AGV; the timers of "done" run out.  An  *)
(* expired timer counts only if its AGV still loads or unloads.            *)
Works(a) == state[a] \in {"LOADING", "UNLOADING"}

Completed(a) ==
  Event(IF state[a] = "LOADING" THEN "PICKUP_COMPLETED" ELSE "DROP_COMPLETED", a, NONE)

UpdateWorkTimers ==
  /\ phase = "retry"
  /\ due = {}
  /\ phase' = "collect"
  /\ \E done \in SUBSET {a \in Agvs : working[a]} :
       LET ready == {a \in done : Works(a)} IN
       /\ working' = [a \in Agvs |-> working[a] /\ a \notin done]
       /\ state' = [a \in Agvs |-> IF a \in ready THEN "IDLE" ELSE state[a]]
       /\ laden' = [a \in Agvs |-> IF a \in ready THEN state[a] = "LOADING" ELSE laden[a]]
       /\ \E order \in SetToSeqs(ready) :
            queue' = queue \o [i \in DOMAIN order |-> Completed(order[i])]
  /\ UNCHANGED <<due, events, subscribers, missionVars, purpose, cur, headsHome, routeVars>>

-----------------------------------------------------------------------------
Next ==
  \/ Collect
  \/ IdleReady \/ PickupCompleted \/ DropCompleted \/ ProcessNextDispatch
  \/ IgnoreArrival \/ StepOn \/ ReachTarget \/ ReachWindowEnd
  \/ Update \/ (\E a \in Agvs : Retry(a))
  \/ UpdateWorkTimers

Spec == Init /\ [][Next]_vars

(* The loop of the server never stops.                                     *)
FairSpec == Spec /\ WF_vars(Next)

-----------------------------------------------------------------------------
(* Safety.                                                                 *)

(* An AGV that loads or unloads has its timer running, however often it    *)
(* was woken or sent elsewhere in between: the end of the work will be     *)
(* reported.                                                               *)
WorkTimed ==
  \A a \in Agvs : state[a] \in {"LOADING", "UNLOADING"} => working[a]

(* An AGV that counts as moving has a plan: its next arrival is not thrown *)
(* away, and the end of the plan will take it out of this state.           *)
MovingHasPlan ==
  \A a \in Agvs : state[a] = "MOVING" => plan[a] # NONE

(* What the state of an AGV promises is on its way, whatever came between. *)
StateTrue == WorkTimed /\ MovingHasPlan

(* Whose turn is still to come: there is a plan, a retry, a job, a ticket  *)
(* or a message that will make TaskManager look at the AGV again.          *)
Remembered(a) ==
  \/ plan[a] # NONE
  \/ pending[a] # NONE
  \/ state[a] # "IDLE"
  \/ \E i \in 1..Len(tickets) : tickets[i] = a
  \/ \E i \in 1..Len(queue) : queue[i].agv = a
  \/ \E i \in 1..Len(events) : events[i].agv = a /\ events[i].type # "NODE_ARRIVED"

(* An AGV that always found a drop node is forgotten by the server only at *)
(* home.                                                                   *)
ForgottenOnlyAtHome ==
  \A a \in Agvs \ stranded : Remembered(a) \/ cur[a] = HomeNode

(* A load is never forgotten: as long as it is on the AGV, something will  *)
(* make the server look at that AGV again.                                 *)
LadenRemembered == \A a \in Agvs : laden[a] => Remembered(a)

(* The end of a mission is not reported twice: at most one message of an   *)
(* AGV waits to be handled.                                                *)
ReportedOnce ==
  \A a \in Agvs :
    LET news == queue \o events IN
    Cardinality({i \in 1..Len(news) : news[i].agv = a /\ news[i].type # "NODE_ARRIVED"}) <= 1

(* Where the server believes it has sent the robot is where it is going.   *)
RideFollowsPlan ==
  \A a \in Agvs : plan[a] # NONE /\ ride[a] # <<>> =>
     Last(ride[a]) = Last(plan[a].rest)

(* The mission of each AGV, as the dispatcher sees it.                     *)
job ==
  [a \in Agvs |->
     LET sent == {p \in {plan[a], pending[a]} : p # NONE} IN
     IF a \in stranded THEN "stranded"
     ELSE IF laden[a]
     THEN IF \E p \in sent : p.purpose = "DROP" THEN "delivering"
          ELSE IF state[a] = "UNLOADING" THEN "delivering" ELSE "laden"
     ELSE IF \E p \in sent : p.purpose = "PICKUP" THEN "fetching"
          ELSE IF state[a] = "LOADING" THEN "fetching" ELSE "empty"]

Jobs == INSTANCE JobCycle

(* Every AGV goes through the cycle of fetching and delivering, whatever   *)
(* routes fail or are cut and however often an arrival is handled, until   *)
(* it finds no drop node for its load.                                     *)
JobSpec == Jobs!Spec

(* What TaskManager says of an AGV that finds no drop node: it keeps its   *)
(* ticket and waits, with its load, until a drop node is free.             *)
LadenWaits ==
  \A a \in Agvs : laden[a] /\ plan[a] # NONE => plan[a].purpose # "PICKUP"

(* What TaskManager says of an AGV that was sent home: a timer wakes it    *)
(* again.                                                                  *)
WokenAtHome ==
  \A a \in Agvs : ~Remembered(a) /\ cur[a] = HomeNode ~> Remembered(a)

=============================================================================
