--------------------------- MODULE Mission_proofs ---------------------------
(***************************************************************************)
(* Proofs about Mission, for all fleets, all sets of load and drop nodes   *)
(* and any number of viewers: state, plan and robot of an AGV keep in step;*)
(* the mail of the event manager reports every end of a mission once; an   *)
(* AGV that always found a drop node has its turn at exactly one place (a  *)
(* plan, a retry, a job or a message), and so its mission goes through the *)
(* cycle that JobCycle asks for.                                           *)
(***************************************************************************)
EXTENDS Mission, FiniteSetTheorems, SequenceTheorems, TLAPS

(* A plan in force has a step still ahead of it.                           *)
PlansGoOn == \A a \in Agvs : plan[a] # NONE => plan[a].rest # <<>>

(* What state, plan and robot have to do with one another.                 *)
InStep == WorkTimed /\ MovingHasPlan /\ PlansGoOn /\ RideFollowsPlan

IInv == TypeOK /\ InStep

(* The types of what CreateRoute changes.                                  *)
RouteTypes ==
  /\ state \in [Agvs -> {"IDLE", "MOVING", "LOADING", "UNLOADING"}]
  /\ purpose \in [Agvs -> Purposes]
  /\ plan \in [Agvs -> Plans \cup {NONE}]
  /\ pending \in [Agvs -> Retries \cup {NONE}]
  /\ ride \in [Agvs -> Seq(Nodes)]

(* The types of the rest, without the queues and the tickets.              *)
FrameTypes ==
  /\ phase \in {"collect", "process", "retry"}
  /\ due \subseteq Agvs
  /\ cur \in [Agvs -> Nodes]
  /\ headsHome \in [Agvs -> BOOLEAN]
  /\ working \in [Agvs -> BOOLEAN]
  /\ laden \in [Agvs -> BOOLEAN]

QueueTypes == queue \in Seq(Events) /\ events \in Seq(Events)
CallTypes == viewers \in 1..MaxViewers /\ calls \in 0..viewers - 1
TicketTypes == tickets \in Seq(Agvs) /\ wakes \in 0..Len(tickets) /\ stranded \subseteq Agvs

LEMMA TypesTogether ==
  TypeOK <=> RouteTypes /\ FrameTypes /\ QueueTypes /\ CallTypes /\ TicketTypes
BY Zenon DEF TypeOK, RouteTypes, FrameTypes, QueueTypes, CallTypes, TicketTypes

LEMMA TypesTogetherAfter ==
  TypeOK' <=> (RouteTypes /\ FrameTypes /\ QueueTypes /\ CallTypes /\ TicketTypes)'
BY Zenon DEF TypeOK, RouteTypes, FrameTypes, QueueTypes, CallTypes, TicketTypes

-----------------------------------------------------------------------------
LEMMA OrderIsSequence ==
  ASSUME NEW S, IsFiniteSet(S), NEW order \in SetToSeqs(S)
  PROVE  order \in Seq(S)
<1>1. Cardinality(S) \in Nat
  BY FS_CardinalityType
<1>2. order \in [1..Cardinality(S) -> S]
  BY Zenon DEF SetToSeqs
<1> QED  BY <1>1, <1>2

(* An event for each of some AGVs, in some order, at the end of a queue.   *)
LEMMA EventsAppended ==
  ASSUME NEW S \in SUBSET Agvs, NEW order \in SetToSeqs(S), NEW news, NEW q \in Seq(Events),
         news \in [1..Len(order) -> Events], DOMAIN order = 1..Len(order)
  PROVE  q \o news \in Seq(Events)
<1>1. IsFiniteSet(S)
  BY FleetAssumption, FS_Subset
<1>2. Len(order) \in Nat
  BY <1>1, OrderIsSequence
<1> QED  BY <1>2

LEMMA TailGoesOn ==
  ASSUME NEW S, NEW s \in Seq(S), s # <<>>, Len(s) # 1
  PROVE  Tail(s) \in Seq(S) /\ Tail(s) # <<>>
<1>1. Len(s) \in Nat /\ Len(s) > 1
  BY EmptySeq
<1>2. Tail(s) \in Seq(S) /\ Len(Tail(s)) = Len(s) - 1
  BY <1>1
<1>3. Len(Tail(s)) # 0
  BY <1>1, <1>2
<1> QED  BY <1>2, <1>3, EmptySeq

LEMMA LastOfTail ==
  ASSUME NEW S, NEW s \in Seq(S), s # <<>>, Tail(s) # <<>>
  PROVE  Last(Tail(s)) = Last(s)
<1>1. Len(s) \in Nat /\ Len(s) > 1 /\ Tail(s) \in Seq(S) /\ Len(Tail(s)) = Len(s) - 1
  OBVIOUS
<1>2. Tail(s)[Len(s) - 1] = s[Len(s)]
  BY <1>1
<1> QED  BY <1>1, <1>2 DEF Last

LEMMA RoutesAreSequences ==
  ASSUME NEW from, NEW target \in Targets, NEW r \in RoutesTo(from, target)
  PROVE  r \in Seq(Nodes) /\ r # <<>>
<1>1. target \in Nodes /\ Way \in Nodes
  BY DEF Nodes
<1>2. r = <<target>> \/ r = <<Way, target>> \/ r = <<Way>>
  BY DEF RoutesTo
<1>3. <<target>> \in Seq(Nodes) /\ <<Way, target>> \in Seq(Nodes) /\ <<Way>> \in Seq(Nodes)
  BY <1>1
<1>4. <<target>> # <<>> /\ <<Way, target>> # <<>> /\ <<Way>> # <<>>
  OBVIOUS
<1> QED  BY <1>2, <1>3, <1>4

-----------------------------------------------------------------------------
(* CreateRoute keeps the types and keeps plan, state and robot in step.    *)
(* The plan may have been erased before: then the AGV is not there yet.    *)
LEMMA CreateRouteKeeps ==
  ASSUME RouteTypes, InStep, NEW a \in Agvs, NEW from, NEW target \in Targets,
         NEW why \in Purposes, NEW plans,
         plans = plan \/ (plans = [plan EXCEPT ![a] = NONE] /\ from # target),
         CreateRoute(a, from, target, why, plans), working' = working
  PROVE  RouteTypes' /\ InStep'
<1>0. plans \in [Agvs -> Plans \cup {NONE}]
  BY DEF RouteTypes
<1>1. CASE AlreadyThere(a, from, target, why, plans)
  <2>1. plan' = plan
    BY <1>1 DEF AlreadyThere
  <2>2. RouteTypes'
    BY <1>1, <2>1 DEF AlreadyThere, RouteTypes
  <2>3. InStep'
    BY <1>1, <2>1
       DEF AlreadyThere, InStep, WorkTimed, MovingHasPlan, PlansGoOn, RideFollowsPlan
  <2> QED  BY <2>2, <2>3
<1>2. CASE RouteFound(a, from, target, why, plans)
  <2> DEFINE new(r) == [rest |-> r, target |-> target, purpose |-> why]
  <2>1. PICK r \in RoutesTo(from, target) :
          plan' = [plans EXCEPT ![a] = new(r)] /\ ride' = [ride EXCEPT ![a] = r]
    BY <1>2 DEF RouteFound
  <2>2. r \in Seq(Nodes) /\ r # <<>> /\ new(r) \in Plans /\ new(r) # NONE /\ new(r).rest = r
    BY RoutesAreSequences, NoneAssumption DEF Plans
  <2> HIDE DEF new
  <2>3. /\ state' = [state EXCEPT ![a] = "MOVING"]
        /\ purpose' = [purpose EXCEPT ![a] = why]
        /\ pending' = [pending EXCEPT ![a] = NONE]
    BY <1>2 DEF RouteFound
  <2>4. RouteTypes'
    BY <1>0, <2>1, <2>2, <2>3 DEF RouteTypes
  <2>5. /\ plan'[a] = new(r) /\ ride'[a] = r /\ state'[a] = "MOVING"
        /\ \A b \in Agvs \ {a} : plan'[b] = plan[b] /\ ride'[b] = ride[b] /\ state'[b] = state[b]
    BY <2>1, <2>3 DEF RouteTypes
  <2>6. WorkTimed' /\ MovingHasPlan' /\ PlansGoOn'
    BY <2>2, <2>5 DEF InStep, WorkTimed, MovingHasPlan, PlansGoOn
  <2>7. RideFollowsPlan'
    BY <2>2, <2>5 DEF InStep, RideFollowsPlan
  <2> QED  BY <2>4, <2>6, <2>7 DEF InStep
<1>3. CASE RouteFailed(a, from, target, why, plans)
  <2>1. /\ plan' = plans /\ purpose' = purpose /\ ride' = ride
        /\ state' = [state EXCEPT ![a] = "IDLE"]
        /\ pending' = [pending EXCEPT ![a] = [target |-> target, purpose |-> why]]
    BY <1>3 DEF RouteFailed
  <2>2. [target |-> target, purpose |-> why] \in Retries
    BY DEF Retries
  <2>3. RouteTypes'
    BY <1>0, <2>1, <2>2 DEF RouteTypes
  <2>4. /\ state'[a] = "IDLE" /\ (plan'[a] = plan[a] \/ plan'[a] = NONE)
        /\ \A b \in Agvs \ {a} : plan'[b] = plan[b] /\ state'[b] = state[b]
    BY <2>1 DEF RouteTypes
  <2>5. InStep'
    BY <2>1, <2>4 DEF InStep, WorkTimed, MovingHasPlan, PlansGoOn, RideFollowsPlan
  <2> QED  BY <2>3, <2>5
<1> QED  BY <1>1, <1>2, <1>3 DEF CreateRoute

LEMMA NoRouteKeeps ==
  ASSUME RouteTypes, InStep, NoRoute, working' = working
  PROVE  RouteTypes' /\ InStep'
BY DEF NoRoute, routeVars, RouteTypes, InStep, WorkTimed, MovingHasPlan, PlansGoOn,
       RideFollowsPlan

LEMMA IdleKeeps ==
  ASSUME RouteTypes, InStep, NEW a \in Agvs, OnRobotIdle(a), working' = working
  PROVE  RouteTypes' /\ InStep'
<1>1. CASE state[a] # "IDLE"
  BY <1>1, NoRouteKeeps DEF OnRobotIdle
<1>2. CASE state[a] = "IDLE"
  <2>1. PICK n \in FindBestLoadNode(a) :
          IF n = NONE THEN CreateRoute(a, cur[a], HomeNode, "HOME", plan)
                      ELSE CreateRoute(a, cur[a], n, "PICKUP", plan)
    BY <1>2 DEF OnRobotIdle
  <2>2. HomeNode \in Targets /\ {"HOME", "PICKUP"} \subseteq Purposes
    BY DEF Targets, Purposes
  <2>3. n # NONE => n \in Targets
    BY DEF FindBestLoadNode, Targets
  <2> QED  BY <2>1, <2>2, <2>3, CreateRouteKeeps
<1> QED  BY <1>1, <1>2

LEMMA LoadCompletedKeeps ==
  ASSUME RouteTypes, InStep, NEW a \in Agvs, NEW waiting \in Seq(Agvs), stranded \subseteq Agvs,
         OnRobotLoadCompleted(a, waiting), working' = working
  PROVE  /\ RouteTypes' /\ InStep'
         /\ tickets' \in Seq(Agvs) /\ Len(tickets') >= Len(waiting)
         /\ stranded' \subseteq Agvs
<1>1. PICK n \in FindBestDispatchNode(a) :
        IF n # NONE
        THEN /\ tickets' = waiting
             /\ UNCHANGED stranded
             /\ CreateRoute(a, cur[a], n, "DROP", plan)
        ELSE /\ Len(waiting) < MaxTickets
             /\ tickets' = Append(waiting, a)
             /\ stranded' = stranded \cup {a}
             /\ IF ~headsHome[a] /\ purpose[a] # "HOME"
                THEN CreateRoute(a, cur[a], HomeNode, "HOME", plan)
                ELSE NoRoute
  BY Zenon DEF OnRobotLoadCompleted
<1>2. HomeNode \in Targets /\ {"HOME", "DROP"} \subseteq Purposes
  BY DEF Targets, Purposes
<1>3. n # NONE => n \in Targets
  BY DEF FindBestDispatchNode, Targets
<1>4. RouteTypes' /\ InStep'
  BY <1>1, <1>2, <1>3, CreateRouteKeeps, NoRouteKeeps
<1>5. tickets' \in Seq(Agvs) /\ Len(tickets') >= Len(waiting)
  <2>1. tickets' = waiting \/ tickets' = Append(waiting, a)
    BY <1>1
  <2> QED  BY <2>1
<1>6. stranded' \subseteq Agvs
  BY <1>1
<1> QED  BY <1>4, <1>5, <1>6

-----------------------------------------------------------------------------
(* The event that is handled, and what the queue keeps.                    *)
LEMMA TakeKeeps ==
  ASSUME IInv, NEW type, Take(type)
  PROVE  /\ Now.agv \in Agvs /\ Now.type = type
         /\ type = "NODE_ARRIVED" => Now.node \in Nodes
         /\ events' \in Seq(Events) /\ CallTypes'
         /\ phase' = phase /\ due' = due /\ laden' = laden
<1>1. events \in Seq(Events) /\ events # <<>> /\ viewers \in 1..MaxViewers /\ calls \in 0..viewers - 1
  BY TypesTogether DEF IInv, Take, QueueTypes, CallTypes
<1>2. Now \in Events /\ Tail(events) \in Seq(Events)
  BY <1>1 DEF Now
<1>3. Subscriptions(type) \in 1..viewers
  BY <1>1, FleetAssumption DEF Subscriptions
<1>4. calls' \in 0..viewers - 1
  <2>1. calls' = (calls + 1) % Subscriptions(type)
    BY DEF Take
  <2>2. calls + 1 \in Nat /\ Subscriptions(type) \in Nat \ {0} /\ viewers \in Nat
    BY <1>1, <1>3, FleetAssumption
  <2>3. (calls + 1) % Subscriptions(type) \in 0..Subscriptions(type) - 1
    BY <2>2
  <2> QED  BY <1>3, <2>1, <2>2, <2>3
<1>5. viewers' = viewers /\ phase' = phase /\ due' = due /\ laden' = laden
      /\ (events' = Tail(events) \/ events' = events)
  BY DEF Take
<1>6. Now.agv \in Agvs /\ Now.type = type /\ (type = "NODE_ARRIVED" => Now.node \in Nodes)
  BY <1>2 DEF Events, Take
<1> QED  BY <1>1, <1>2, <1>4, <1>5, <1>6 DEF CallTypes

-----------------------------------------------------------------------------
LEMMA InitIInv == Init => IInv
<1> SUFFICES ASSUME Init PROVE IInv
  OBVIOUS
<1> USE DEF Init
<1>1. queue \in Seq(Events)
  <2> DEFINE ready(a) == Event("IDLE_READY", a, NONE)
             S == {ready(a) : a \in Agvs}
  <2>1. \A a \in Agvs : ready(a) \in Events
    BY DEF Event, Events, EventTypes
  <2>2. IsFiniteSet(S)
    <3> DEFINE f == [a \in Agvs |-> ready(a)]
    <3>1. f \in Surjection(Agvs, S)
      BY DEF Surjection
    <3> HIDE DEF f, S
    <3> QED  BY <3>1, FleetAssumption, FS_Surjection
  <2>3. S \subseteq Events /\ queue \in SetToSeqs(S)
    BY <2>1
  <2> HIDE DEF S
  <2> QED  BY <2>2, <2>3, OrderIsSequence
<1>2. HomeNode \in Nodes
  BY DEF Nodes, Targets
<1>3. RouteTypes
  BY DEF RouteTypes, Purposes
<1>4. FrameTypes /\ TicketTypes
  BY <1>2 DEF FrameTypes, TicketTypes
<1>5. QueueTypes /\ CallTypes
  BY <1>1, FleetAssumption DEF QueueTypes, CallTypes
<1>6. InStep
  BY DEF InStep, WorkTimed, MovingHasPlan, PlansGoOn, RideFollowsPlan
<1> QED  BY <1>3, <1>4, <1>5, <1>6, TypesTogether DEF IInv

LEMMA CollectIInv == IInv /\ Collect => IInv'
<1> SUFFICES ASSUME IInv, Collect PROVE IInv'
  OBVIOUS
<1> USE DEF IInv
<1>0. RouteTypes /\ FrameTypes /\ QueueTypes /\ CallTypes /\ TicketTypes
  BY TypesTogether
<1>1. PICK arrived \in SUBSET {a \in Agvs : ride[a] # <<>>} :
        /\ \E order \in SetToSeqs(arrived) :
             events' = queue \o [i \in DOMAIN order |->
                         Event("NODE_ARRIVED", order[i], Head(ride[order[i]]))]
        /\ ride' = [a \in Agvs |-> IF a \in arrived THEN Tail(ride[a]) ELSE ride[a]]
  BY DEF Collect
<1>2. PICK order \in SetToSeqs(arrived) :
        events' = queue \o [i \in DOMAIN order |->
                    Event("NODE_ARRIVED", order[i], Head(ride[order[i]]))]
  BY <1>1
<1>3. events' \in Seq(Events)
  <2> DEFINE news == [i \in DOMAIN order |->
                        Event("NODE_ARRIVED", order[i], Head(ride[order[i]]))]
  <2>1. arrived \in SUBSET Agvs /\ IsFiniteSet(arrived)
    BY FleetAssumption, FS_Subset
  <2>2. order \in Seq(arrived) /\ DOMAIN order = 1..Len(order)
    BY <2>1, OrderIsSequence
  <2>3. ASSUME NEW i \in 1..Len(order)
        PROVE  Event("NODE_ARRIVED", order[i], Head(ride[order[i]])) \in Events
    <3>1. order[i] \in Agvs /\ ride[order[i]] # <<>> /\ ride[order[i]] \in Seq(Nodes)
      BY <1>0, <2>2 DEF RouteTypes
    <3>2. Head(ride[order[i]]) \in Nodes
      BY <3>1
    <3> QED  BY <3>1, <3>2 DEF Event, Events
  <2>4. news \in [1..Len(order) -> Events]
    BY <2>2, <2>3
  <2>5. queue \in Seq(Events) /\ events' = queue \o news
    BY <1>0, <1>2 DEF QueueTypes
  <2> HIDE DEF news
  <2> QED  BY <2>1, <2>2, <2>4, <2>5, EventsAppended
<1>4. \A a \in Agvs :
        /\ ride'[a] \in Seq(Nodes)
        /\ ride'[a] # <<>> => ride[a] # <<>> /\ Last(ride'[a]) = Last(ride[a])
  <2> TAKE a \in Agvs
  <2>1. ride[a] \in Seq(Nodes)
    BY <1>0 DEF RouteTypes
  <2>2. CASE a \in arrived
    <3>1. ride'[a] = Tail(ride[a]) /\ ride[a] # <<>>
      BY <1>1, <2>2
    <3> QED  BY <2>1, <3>1, LastOfTail
  <2>3. CASE a \notin arrived
    BY <1>1, <2>1, <2>3
  <2> QED  BY <2>2, <2>3
<1>5. RouteTypes'
  BY <1>0, <1>1, <1>4 DEF RouteTypes, Collect, roboVars
<1>6. FrameTypes' /\ CallTypes' /\ TicketTypes'
  BY <1>0 DEF FrameTypes, CallTypes, TicketTypes, Collect, roboVars, subscribers, missionVars
<1>7. QueueTypes'
  BY <1>3 DEF QueueTypes, Collect
<1>8. InStep'
  BY <1>4 DEF InStep, WorkTimed, MovingHasPlan, PlansGoOn, RideFollowsPlan, Collect, roboVars
<1> QED  BY <1>5, <1>6, <1>7, <1>8, TypesTogetherAfter

-----------------------------------------------------------------------------
(* The handlers of TaskManager.                                            *)
LEMMA IdleReadyIInv == IInv /\ IdleReady => IInv'
<1> SUFFICES ASSUME IInv, IdleReady PROVE IInv'
  OBVIOUS
<1> USE DEF IInv, IdleReady
<1>0. RouteTypes /\ FrameTypes /\ QueueTypes /\ CallTypes /\ TicketTypes
  BY TypesTogether
<1>1. /\ Now.agv \in Agvs /\ events' \in Seq(Events) /\ CallTypes'
      /\ phase' = phase /\ due' = due /\ laden' = laden
  BY TakeKeeps
<1>2. RouteTypes' /\ InStep'
  BY <1>0, <1>1, IdleKeeps
<1>3. FrameTypes' /\ QueueTypes' /\ TicketTypes'
  BY <1>0, <1>1 DEF FrameTypes, QueueTypes, TicketTypes, missionVars
<1> QED  BY <1>1, <1>2, <1>3, TypesTogetherAfter

LEMMA PickupCompletedIInv == IInv /\ PickupCompleted => IInv'
<1> SUFFICES ASSUME IInv, PickupCompleted PROVE IInv'
  OBVIOUS
<1> USE DEF IInv, PickupCompleted
<1>0. RouteTypes /\ FrameTypes /\ QueueTypes /\ CallTypes /\ TicketTypes
  BY TypesTogether
<1>1. /\ Now.agv \in Agvs /\ events' \in Seq(Events) /\ CallTypes'
      /\ phase' = phase /\ due' = due /\ laden' = laden
  BY TakeKeeps
<1>2. /\ RouteTypes' /\ InStep'
      /\ tickets' \in Seq(Agvs) /\ Len(tickets') >= Len(tickets) /\ stranded' \subseteq Agvs
  BY <1>0, <1>1, LoadCompletedKeeps DEF TicketTypes
<1>3. TicketTypes'
  <2>1. wakes' = wakes /\ wakes \in 0..Len(tickets) /\ Len(tickets) \in Nat
    BY <1>0 DEF TicketTypes
  <2> QED  BY <1>2, <2>1 DEF TicketTypes
<1>4. FrameTypes' /\ QueueTypes'
  BY <1>0, <1>1 DEF FrameTypes, QueueTypes
<1> QED  BY <1>1, <1>2, <1>3, <1>4, TypesTogetherAfter

LEMMA DropCompletedIInv == IInv /\ DropCompleted => IInv'
<1> SUFFICES ASSUME IInv, DropCompleted PROVE IInv'
  OBVIOUS
<1> USE DEF IInv, DropCompleted
<1>0. RouteTypes /\ FrameTypes /\ QueueTypes /\ CallTypes /\ TicketTypes
  BY TypesTogether
<1>1. /\ Now.agv \in Agvs /\ events' \in Seq(Events) /\ CallTypes'
      /\ phase' = phase /\ due' = due /\ laden' = laden
  BY TakeKeeps
<1>2. RouteTypes' /\ InStep'
  BY <1>0, <1>1, IdleKeeps
<1>3. FrameTypes' /\ QueueTypes' /\ TicketTypes'
  BY <1>0, <1>1 DEF FrameTypes, QueueTypes, TicketTypes
<1> QED  BY <1>1, <1>2, <1>3, TypesTogetherAfter

LEMMA ProcessNextDispatchIInv == IInv /\ ProcessNextDispatch => IInv'
<1> SUFFICES ASSUME IInv, ProcessNextDispatch PROVE IInv'
  OBVIOUS
<1> USE DEF IInv, ProcessNextDispatch
<1>0. RouteTypes /\ FrameTypes /\ QueueTypes /\ CallTypes /\ TicketTypes
  BY TypesTogether
<1>1. /\ tickets \in Seq(Agvs) /\ tickets # <<>> /\ wakes \in 1..Len(tickets)
      /\ Len(tickets) \in Nat
  BY <1>0 DEF TicketTypes
<1>2. /\ Head(tickets) \in Agvs /\ Tail(tickets) \in Seq(Agvs)
      /\ Len(Tail(tickets)) = Len(tickets) - 1
  BY <1>1
<1>3. /\ RouteTypes' /\ InStep' /\ tickets' \in Seq(Agvs)
      /\ Len(tickets') >= Len(Tail(tickets)) /\ stranded' \subseteq Agvs
  BY <1>0, <1>2, LoadCompletedKeeps DEF TicketTypes
<1>4. TicketTypes'
  BY <1>1, <1>2, <1>3 DEF TicketTypes
<1>5. FrameTypes' /\ QueueTypes' /\ CallTypes'
  BY <1>0 DEF FrameTypes, QueueTypes, CallTypes, subscribers
<1> QED  BY <1>3, <1>4, <1>5, TypesTogetherAfter

-----------------------------------------------------------------------------
(* The handler of NODE_ARRIVED.                                            *)
LEMMA IgnoreArrivalIInv == IInv /\ IgnoreArrival => IInv'
<1> SUFFICES ASSUME IInv, IgnoreArrival PROVE IInv'
  OBVIOUS
<1> USE DEF IInv, IgnoreArrival
<1>0. RouteTypes /\ FrameTypes /\ QueueTypes /\ CallTypes /\ TicketTypes
  BY TypesTogether
<1>1. /\ events' \in Seq(Events) /\ CallTypes'
      /\ phase' = phase /\ due' = due /\ laden' = laden
  BY TakeKeeps
<1>2. RouteTypes' /\ FrameTypes' /\ QueueTypes' /\ TicketTypes'
  BY <1>0, <1>1 DEF RouteTypes, FrameTypes, QueueTypes, TicketTypes, routeVars, missionVars
<1>3. InStep'
  BY DEF InStep, WorkTimed, MovingHasPlan, PlansGoOn, RideFollowsPlan, routeVars
<1> QED  BY <1>1, <1>2, <1>3, TypesTogetherAfter

(* What the three outcomes of an arrival have in common.                   *)
LEMMA StepCompletedKeeps ==
  ASSUME IInv, StepCompleted
  PROVE  /\ RouteTypes /\ FrameTypes /\ QueueTypes /\ InStep
         /\ Now.agv \in Agvs /\ Now.node \in Nodes
         /\ plan[Now.agv] \in Plans /\ plan[Now.agv] # NONE
         /\ plan[Now.agv].rest \in Seq(Nodes) /\ plan[Now.agv].rest # <<>>
         /\ events' \in Seq(Events) /\ CallTypes' /\ TicketTypes'
         /\ cur' \in [Agvs -> Nodes]
         /\ phase' = phase /\ due' = due /\ laden' = laden
<1> USE DEF IInv, StepCompleted
<1>0. RouteTypes /\ FrameTypes /\ QueueTypes /\ CallTypes /\ TicketTypes
  BY TypesTogether
<1>1. /\ Now.agv \in Agvs /\ Now.node \in Nodes /\ events' \in Seq(Events) /\ CallTypes'
      /\ phase' = phase /\ due' = due /\ laden' = laden
  BY TakeKeeps
<1>2. plan[Now.agv] \in Plans /\ plan[Now.agv] # NONE
  BY <1>0, <1>1 DEF RouteTypes
<1>3. plan[Now.agv].rest \in Seq(Nodes) /\ plan[Now.agv].rest # <<>>
  BY <1>1, <1>2 DEF Plans, InStep, PlansGoOn
<1>4. TicketTypes' /\ cur' \in [Agvs -> Nodes]
  BY <1>0, <1>1 DEF TicketTypes, FrameTypes, missionVars
<1> QED  BY <1>0, <1>1, <1>2, <1>3, <1>4

LEMMA StepOnIInv == IInv /\ StepOn => IInv'
<1> SUFFICES ASSUME IInv, StepOn PROVE IInv'
  OBVIOUS
<1> DEFINE a == Now.agv
           p == plan[a]
<1>1. StepCompleted
  BY DEF StepOn
<1>2. /\ RouteTypes /\ FrameTypes /\ QueueTypes /\ InStep /\ a \in Agvs
      /\ p \in Plans /\ p # NONE /\ p.rest \in Seq(Nodes) /\ p.rest # <<>>
      /\ events' \in Seq(Events) /\ CallTypes' /\ TicketTypes' /\ cur' \in [Agvs -> Nodes]
      /\ phase' = phase /\ due' = due /\ laden' = laden
  BY <1>1, StepCompletedKeeps
<1>3. /\ Len(p.rest) # 1 /\ plan' = [plan EXCEPT ![a] = [p EXCEPT !.rest = Tail(p.rest)]]
      /\ headsHome' = [headsHome EXCEPT ![a] = p.rest[2] = HomeNode]
      /\ state' = [state EXCEPT ![a] = "MOVING"]
      /\ queue' = queue /\ purpose' = purpose /\ working' = working
      /\ pending' = pending /\ ride' = ride
  BY DEF StepOn, PlanExhausted
<1> DEFINE q == [p EXCEPT !.rest = Tail(p.rest)]
<1>4. Tail(p.rest) \in Seq(Nodes) /\ Tail(p.rest) # <<>> /\ Last(Tail(p.rest)) = Last(p.rest)
  <2> HIDE DEF p
  <2>2. Tail(p.rest) \in Seq(Nodes) /\ Tail(p.rest) # <<>>
    BY <1>2, <1>3, TailGoesOn
  <2> QED  BY <1>2, <2>2, LastOfTail
<1>5. q \in Plans /\ q # NONE /\ q.rest = Tail(p.rest)
  <2> HIDE DEF p
  <2> QED  BY <1>2, <1>4, NoneAssumption DEF Plans
<1>6. /\ plan'[a] = q /\ state'[a] = "MOVING"
      /\ \A b \in Agvs \ {a} : plan'[b] = plan[b] /\ state'[b] = state[b]
  BY <1>2, <1>3 DEF RouteTypes
<1>7. RouteTypes'
  <2>1. plan' = [plan EXCEPT ![a] = q]
    BY <1>3
  <2> HIDE DEF q, p, a
  <2>2. plan' \in [Agvs -> Plans \cup {NONE}]
    BY <1>2, <1>5, <2>1 DEF RouteTypes
  <2>3. state' \in [Agvs -> {"IDLE", "MOVING", "LOADING", "UNLOADING"}]
    BY <1>2, <1>3 DEF RouteTypes
  <2> QED  BY <1>2, <1>3, <2>2, <2>3 DEF RouteTypes
<1>8. FrameTypes' /\ QueueTypes'
  BY <1>2, <1>3 DEF FrameTypes, QueueTypes
<1>9. InStep'
  <2> HIDE DEF q
  <2> HIDE DEF p, a
  <2>1. WorkTimed'
    BY <1>2, <1>3, <1>6 DEF InStep, WorkTimed
  <2>2. MovingHasPlan'
    BY <1>2, <1>5, <1>6 DEF InStep, MovingHasPlan
  <2>3. PlansGoOn'
    BY <1>2, <1>4, <1>5, <1>6 DEF InStep, PlansGoOn
  <2>4. RideFollowsPlan'
    <3>1. ASSUME NEW b \in Agvs, b # a, plan'[b] # NONE, ride'[b] # <<>>
          PROVE  Last(ride'[b]) = Last(plan'[b].rest)
      BY <1>2, <1>3, <1>6, <3>1 DEF InStep, RideFollowsPlan
    <3>2. ASSUME ride'[a] # <<>>
          PROVE  Last(ride'[a]) = Last(plan'[a].rest)
      <4>1. ride'[a] = ride[a] /\ plan'[a].rest = Tail(p.rest)
        BY <1>3, <1>5, <1>6
      <4>2. Last(ride[a]) = Last(p.rest)
        BY <1>2, <3>2, <4>1 DEF InStep, RideFollowsPlan, p
      <4> QED  BY <1>4, <4>1, <4>2
    <3> QED  BY <3>1, <3>2 DEF RideFollowsPlan
  <2> QED  BY <2>1, <2>2, <2>3, <2>4 DEF InStep
<1> QED  BY <1>2, <1>7, <1>8, <1>9, TypesTogetherAfter DEF IInv

LEMMA ReachTargetIInv == IInv /\ ReachTarget => IInv'
<1> SUFFICES ASSUME IInv, ReachTarget PROVE IInv'
  OBVIOUS
<1> DEFINE a == Now.agv
<1>1. StepCompleted
  BY DEF ReachTarget
<1>2. /\ RouteTypes /\ FrameTypes /\ QueueTypes /\ InStep /\ a \in Agvs /\ Now.node \in Nodes
      /\ events' \in Seq(Events) /\ CallTypes' /\ TicketTypes' /\ cur' \in [Agvs -> Nodes]
      /\ phase' = phase /\ due' = due /\ laden' = laden
  BY <1>1, StepCompletedKeeps
<1>3. /\ plan' = [plan EXCEPT ![a] = NONE] /\ purpose' = purpose
      /\ headsHome' = headsHome /\ pending' = pending /\ ride' = ride
  BY DEF ReachTarget
<1>4. \/ \E s \in {"LOADING", "UNLOADING"} :
           /\ state' = [state EXCEPT ![a] = s] /\ working' = [working EXCEPT ![a] = TRUE]
           /\ queue' = queue
      \/ /\ state' = [state EXCEPT ![a] = "IDLE"] /\ working' = [working EXCEPT ![a] = FALSE]
         /\ queue' = Append(queue, Event("IDLE_READY", a, Now.node))
  BY DEF ReachTarget, Publish
<1>5. queue' \in Seq(Events)
  <2>1. Event("IDLE_READY", a, Now.node) \in Events /\ queue \in Seq(Events)
    BY <1>2 DEF Event, Events, EventTypes, QueueTypes
  <2> QED  BY <1>4, <2>1
<1>6. RouteTypes'
  BY <1>2, <1>3, <1>4 DEF RouteTypes
<1>7. FrameTypes' /\ QueueTypes'
  BY <1>2, <1>3, <1>4, <1>5 DEF FrameTypes, QueueTypes
<1>8. /\ plan'[a] = NONE /\ state'[a] # "MOVING"
      /\ state'[a] \in {"LOADING", "UNLOADING"} => working'[a]
      /\ \A b \in Agvs \ {a} :
           plan'[b] = plan[b] /\ state'[b] = state[b] /\ working'[b] = working[b]
  <2>1. plan'[a] = NONE /\ \A b \in Agvs \ {a} : plan'[b] = plan[b]
    BY <1>2, <1>3 DEF RouteTypes
  <2> QED  BY <1>2, <1>4, <2>1 DEF RouteTypes, FrameTypes
<1>9. InStep'
  BY <1>2, <1>3, <1>8 DEF InStep, WorkTimed, MovingHasPlan, PlansGoOn, RideFollowsPlan
<1> QED  BY <1>2, <1>6, <1>7, <1>9, TypesTogetherAfter DEF IInv

LEMMA ReachWindowEndIInv == IInv /\ ReachWindowEnd => IInv'
<1> SUFFICES ASSUME IInv, ReachWindowEnd PROVE IInv'
  OBVIOUS
<1> DEFINE a == Now.agv
<1>1. StepCompleted
  BY DEF ReachWindowEnd
<1>2. /\ RouteTypes /\ FrameTypes /\ QueueTypes /\ InStep /\ a \in Agvs
      /\ plan[a] \in Plans
      /\ events' \in Seq(Events) /\ CallTypes' /\ TicketTypes' /\ cur' \in [Agvs -> Nodes]
      /\ phase' = phase /\ due' = due /\ laden' = laden
  BY <1>1, StepCompletedKeeps
<1>3. plan[a].target \in Targets /\ plan[a].purpose \in Purposes
  BY <1>2 DEF Plans
<1>4. /\ Now.node # plan[a].target
      /\ CreateRoute(a, Now.node, plan[a].target, plan[a].purpose, [plan EXCEPT ![a] = NONE])
      /\ queue' = queue /\ headsHome' = headsHome /\ working' = working
  BY DEF ReachWindowEnd
<1>5. RouteTypes' /\ InStep'
  BY <1>2, <1>3, <1>4, CreateRouteKeeps
<1>6. FrameTypes' /\ QueueTypes'
  BY <1>2, <1>4 DEF FrameTypes, QueueTypes
<1> QED  BY <1>2, <1>5, <1>6, TypesTogetherAfter DEF IInv

-----------------------------------------------------------------------------
(* The end of the frame.                                                   *)
LEMMA UpdateIInv == IInv /\ Update => IInv'
<1> SUFFICES ASSUME IInv, Update PROVE IInv'
  OBVIOUS
<1> USE DEF IInv, Update, subscribers, missionVars, roboVars, routeVars
<1>1. RouteTypes /\ FrameTypes /\ QueueTypes /\ CallTypes /\ TicketTypes
  BY TypesTogether
<1>2. (RouteTypes /\ FrameTypes /\ QueueTypes /\ CallTypes /\ TicketTypes)'
  BY <1>1 DEF RouteTypes, FrameTypes, QueueTypes, CallTypes, TicketTypes
<1>3. InStep'
  BY DEF InStep, WorkTimed, MovingHasPlan, PlansGoOn, RideFollowsPlan
<1> QED  BY <1>2, <1>3, TypesTogetherAfter

(* The AGVs that are due have a pending route.                             *)
LEMMA RetryIInv ==
  ASSUME IInv, NEW a \in Agvs, Retry(a), pending[a] # NONE
  PROVE  IInv'
<1> USE DEF IInv, Retry
<1>1. RouteTypes /\ FrameTypes /\ QueueTypes /\ CallTypes /\ TicketTypes
  BY TypesTogether
<1>2. pending[a].target \in Targets /\ pending[a].purpose \in Purposes
  BY <1>1 DEF RouteTypes, Retries
<1>3. RouteTypes' /\ InStep'
  BY <1>1, <1>2, CreateRouteKeeps
<1>4. (FrameTypes /\ QueueTypes /\ CallTypes /\ TicketTypes)'
  BY <1>1 DEF FrameTypes, QueueTypes, CallTypes, TicketTypes, subscribers, missionVars
<1> QED  BY <1>3, <1>4, TypesTogetherAfter

LEMMA UpdateWorkTimersIInv == IInv /\ UpdateWorkTimers => IInv'
<1> SUFFICES ASSUME IInv, UpdateWorkTimers PROVE IInv'
  OBVIOUS
<1> USE DEF IInv
<1>0. RouteTypes /\ FrameTypes /\ QueueTypes /\ CallTypes /\ TicketTypes
  BY TypesTogether
<1>1. PICK done \in SUBSET {a \in Agvs : working[a]} :
        LET ready == {a \in done : Works(a)} IN
        /\ working' = [a \in Agvs |-> working[a] /\ a \notin done]
        /\ state' = [a \in Agvs |-> IF a \in ready THEN "IDLE" ELSE state[a]]
        /\ laden' = [a \in Agvs |-> IF a \in ready THEN state[a] = "LOADING" ELSE laden[a]]
        /\ \E order \in SetToSeqs(ready) :
             queue' = queue \o [i \in DOMAIN order |-> Completed(order[i])]
  BY DEF UpdateWorkTimers
<1> DEFINE ready == {a \in done : Works(a)}
<1>2. PICK order \in SetToSeqs(ready) :
        queue' = queue \o [i \in DOMAIN order |-> Completed(order[i])]
  BY <1>1
<1>3. queue' \in Seq(Events)
  <2> DEFINE news == [i \in DOMAIN order |-> Completed(order[i])]
  <2>1. ready \in SUBSET Agvs /\ IsFiniteSet(ready)
    BY FleetAssumption, FS_Subset
  <2>2. order \in Seq(ready) /\ DOMAIN order = 1..Len(order)
    BY <2>1, OrderIsSequence
  <2>3. \A a \in Agvs : Completed(a) \in Events
    BY DEF Completed, Event, Events, EventTypes
  <2>4. news \in [1..Len(order) -> Events]
    BY <2>1, <2>2, <2>3
  <2>5. queue \in Seq(Events) /\ queue' = queue \o news
    BY <1>0, <1>2 DEF QueueTypes
  <2> HIDE DEF news, ready
  <2> QED  BY <2>1, <2>2, <2>4, <2>5, EventsAppended
<1>4. RouteTypes'
  BY <1>0, <1>1 DEF RouteTypes, UpdateWorkTimers, routeVars
<1>5. FrameTypes' /\ CallTypes' /\ TicketTypes'
  <2>1. working' \in [Agvs -> BOOLEAN]
    BY <1>0, <1>1 DEF FrameTypes
  <2>2. laden' \in [Agvs -> BOOLEAN]
    BY <1>0, <1>1 DEF FrameTypes
  <2> QED  BY <1>0, <2>1, <2>2
           DEF FrameTypes, CallTypes, TicketTypes, UpdateWorkTimers, subscribers, missionVars
<1>6. QueueTypes'
  BY <1>0, <1>3 DEF QueueTypes, UpdateWorkTimers
<1>7. \A a \in Agvs :
        \/ state'[a] = "IDLE"
        \/ state'[a] = state[a] /\ (Works(a) /\ working[a] => working'[a])
  <2> TAKE a \in Agvs
  <2>1. CASE a \in ready
    BY <1>1, <2>1
  <2>2. CASE a \notin ready
    <3>1. state'[a] = state[a]
      BY <1>1, <2>2
    <3>2. Works(a) => a \notin done
      BY <2>2
    <3>3. working[a] /\ a \notin done => working'[a]
      BY <1>1
    <3> QED  BY <3>1, <3>2, <3>3
  <2> QED  BY <2>1, <2>2
<1>8. InStep'
  <2>1. WorkTimed' /\ MovingHasPlan'
    BY <1>7 DEF InStep, WorkTimed, MovingHasPlan, Works, UpdateWorkTimers, routeVars
  <2>2. PlansGoOn' /\ RideFollowsPlan'
    BY DEF InStep, PlansGoOn, RideFollowsPlan, UpdateWorkTimers, routeVars
  <2> QED  BY <2>1, <2>2 DEF InStep
<1> QED  BY <1>4, <1>5, <1>6, <1>8, TypesTogetherAfter

-----------------------------------------------------------------------------
(* The parts of the frame: tickets are called up while events are handled, *)
(* and an AGV that is due for a retry has a route to be retried.           *)
Phases ==
  /\ wakes > 0 => phase = "process"
  /\ phase # "retry" => due = {}
  /\ \A a \in due : pending[a] # NONE

LEMMA InitPhases == Init => Phases
BY DEF Init, Phases

LEMMA NextPhases ==
  ASSUME IInv, Phases, [Next]_vars  PROVE Phases'
<1> USE DEF Phases
<1>0. pending \in [Agvs -> Retries \cup {NONE}] /\ due \subseteq Agvs /\ wakes \in Nat
  <2>1. wakes \in 0..Len(tickets) /\ tickets \in Seq(Agvs)
    BY DEF IInv, TypeOK
  <2> QED  BY <2>1 DEF IInv, TypeOK
<1>1. CASE Collect \/ UNCHANGED vars
  BY <1>1 DEF Collect, vars, missionVars, routeVars
<1>2. CASE IdleReady \/ PickupCompleted \/ DropCompleted \/ IgnoreArrival
           \/ StepOn \/ ReachTarget \/ ReachWindowEnd
  BY <1>2 DEF IdleReady, PickupCompleted, DropCompleted, IgnoreArrival, StepOn, ReachTarget,
              ReachWindowEnd, StepCompleted, Take
<1>3. CASE ProcessNextDispatch
  BY <1>3 DEF ProcessNextDispatch
<1>4. CASE Update
  BY <1>0, <1>4 DEF Update, missionVars, routeVars
<1>5. ASSUME NEW a \in Agvs, Retry(a)
      PROVE  Phases'
  <2>1. \A b \in Agvs \ {a} : pending'[b] = pending[b]
    BY <1>0, <1>5 DEF Retry, CreateRoute, AlreadyThere, RouteFound, RouteFailed
  <2>2. phase' = phase /\ phase = "retry" /\ due' = due \ {a} /\ wakes' = wakes
    BY <1>5 DEF Retry, missionVars
  <2> QED  BY <1>0, <2>1, <2>2
<1>6. CASE UpdateWorkTimers
  BY <1>6 DEF UpdateWorkTimers, missionVars, routeVars
<1> QED  BY <1>1, <1>2, <1>3, <1>4, <1>5, <1>6 DEF Next

LEMMA NextIInv == IInv /\ Phases /\ [Next]_vars => IInv'
<1> SUFFICES ASSUME IInv, Phases, [Next]_vars PROVE IInv'
  OBVIOUS
<1>1. CASE Collect
  BY <1>1, CollectIInv
<1>2. CASE IdleReady
  BY <1>2, IdleReadyIInv
<1>3. CASE PickupCompleted
  BY <1>3, PickupCompletedIInv
<1>4. CASE DropCompleted
  BY <1>4, DropCompletedIInv
<1>5. CASE ProcessNextDispatch
  BY <1>5, ProcessNextDispatchIInv
<1>6. CASE IgnoreArrival
  BY <1>6, IgnoreArrivalIInv
<1>7. CASE StepOn
  BY <1>7, StepOnIInv
<1>8. CASE ReachTarget
  BY <1>8, ReachTargetIInv
<1>9. CASE ReachWindowEnd
  BY <1>9, ReachWindowEndIInv
<1>10. CASE Update
  BY <1>10, UpdateIInv
<1>11. ASSUME NEW a \in Agvs, Retry(a)
       PROVE  IInv'
  <2>1. pending[a] # NONE
    BY <1>11 DEF Retry, Phases
  <2> QED  BY <1>11, <2>1, RetryIInv
<1>12. CASE UpdateWorkTimers
  BY <1>12, UpdateWorkTimersIInv
<1>13. CASE UNCHANGED vars
  <2>1. TypeOK'
    BY <1>13 DEF IInv, TypeOK, vars, subscribers, missionVars, roboVars, routeVars
  <2>2. InStep'
    BY <1>13 DEF IInv, InStep, WorkTimed, MovingHasPlan, PlansGoOn, RideFollowsPlan,
                 vars, roboVars, routeVars
  <2> QED  BY <2>1, <2>2 DEF IInv
<1> QED  BY <1>1, <1>2, <1>3, <1>4, <1>5, <1>6, <1>7, <1>8, <1>9, <1>10, <1>11, <1>12,
            <1>13 DEF Next

(* The books of planner, task manager and robot stay in step.              *)
THEOREM MissionInvariant == Spec => [](IInv /\ Phases)
<1>1. Init => IInv /\ Phases
  BY InitIInv, InitPhases
<1>2. IInv /\ Phases /\ [Next]_vars => (IInv /\ Phases)'
  BY NextIInv, NextPhases
<1> QED  BY <1>1, <1>2, PTL DEF Spec

-----------------------------------------------------------------------------
(* The variables of the mission keep their types; above all as many        *)
(* tickets are called up as were out.                                      *)
THEOREM TypeCorrect == Spec => []TypeOK
<1>1. IInv => TypeOK
  BY DEF IInv
<1> QED  BY <1>1, MissionInvariant, PTL

(* An AGV at work has its timer running and one that counts as moving has  *)
(* a plan, whatever woke or diverted it in between.                        *)
THEOREM StatesAreTrue == Spec => []StateTrue
<1>1. IInv => StateTrue
  BY DEF IInv, InStep, StateTrue
<1> QED  BY <1>1, MissionInvariant, PTL

(* The robot goes where the plan of its AGV ends, also when every arrival  *)
(* is handled more than once.                                              *)
THEOREM RidesFollowPlans == Spec => []RideFollowsPlan
<1>1. IInv => RideFollowsPlan
  BY DEF IInv, InStep
<1> QED  BY <1>1, MissionInvariant, PTL

-----------------------------------------------------------------------------
(* The mail.                                                               *)

NewsTypes == EventTypes \ {"NODE_ARRIVED"}

(* No AGV has two pieces of news in s.                                     *)
OnceIn(s) ==
  \A i, j \in 1..Len(s) :
    s[i].agv = s[j].agv /\ s[i].type \in NewsTypes /\ s[j].type \in NewsTypes => i = j

(* The news comes before the arrivals.                                     *)
NewsFirst(s) ==
  \A i, j \in 1..Len(s) : i < j /\ s[j].type \in NewsTypes => s[i].type \in NewsTypes

(* Events are in hand only while they are processed; news that is          *)
(* published meanwhile comes from an arrival, so no older news is left and *)
(* no ticket is called up; and its AGV neither has a plan that could end   *)
(* nor a job that could be completed before the news is read.              *)
Mail ==
  /\ phase # "process" => events = <<>>
  /\ NewsFirst(events)
  /\ phase = "process" /\ queue # <<>> =>
       wakes = 0 /\ \A i \in 1..Len(events) : events[i].type = "NODE_ARRIVED"
  /\ \A i \in 1..Len(queue) : queue[i].type \in NewsTypes
  /\ OnceIn(queue) /\ OnceIn(events)
  /\ \A i \in 1..Len(queue) :
       /\ phase = "process" => plan[queue[i].agv] = NONE
       /\ phase # "collect" => ~Works(queue[i].agv)

MInv == IInv /\ Phases /\ Mail

LEMMA EventTypesOf ==
  ASSUME NEW e \in Events
  PROVE  /\ e.agv \in Agvs
         /\ e.type \in NewsTypes <=> e.type # "NODE_ARRIVED"
BY DEF Events, NewsTypes, EventTypes

LEMMA SeqTail ==
  ASSUME NEW S, NEW s \in Seq(S), s # <<>>
  PROVE  /\ Tail(s) \in Seq(S) /\ Len(s) \in Nat /\ Len(s) >= 1
         /\ Len(Tail(s)) = Len(s) - 1
         /\ \A i \in 1..Len(Tail(s)) : i + 1 \in 1..Len(s) /\ Tail(s)[i] = s[i + 1]
         /\ Head(s) = s[1] /\ s[1] \in S
OBVIOUS

LEMMA SeqConcat ==
  ASSUME NEW S, NEW s \in Seq(S), NEW u \in Seq(S)
  PROVE  /\ s \o u \in Seq(S) /\ Len(s) \in Nat /\ Len(u) \in Nat
         /\ Len(s \o u) = Len(s) + Len(u)
         /\ \A i \in 1..Len(s) : (s \o u)[i] = s[i]
         /\ \A i \in 1..Len(s \o u) :
              i \notin 1..Len(s) => i - Len(s) \in 1..Len(u) /\ (s \o u)[i] = u[i - Len(s)]
OBVIOUS

LEMMA MailOfTail ==
  ASSUME NEW s \in Seq(Events), s # <<>>
  PROVE  /\ OnceIn(s) => OnceIn(Tail(s))
         /\ NewsFirst(s) => NewsFirst(Tail(s))
<1>1. /\ Len(s) \in Nat /\ Len(Tail(s)) = Len(s) - 1
      /\ \A i \in 1..Len(Tail(s)) : i + 1 \in 1..Len(s) /\ Tail(s)[i] = s[i + 1]
  BY SeqTail
<1>2. ASSUME OnceIn(s) PROVE OnceIn(Tail(s))
  <2>1. ASSUME NEW i \in 1..Len(Tail(s)), NEW j \in 1..Len(Tail(s)),
               Tail(s)[i].agv = Tail(s)[j].agv,
               Tail(s)[i].type \in NewsTypes, Tail(s)[j].type \in NewsTypes
        PROVE  i = j
    <3>1. i + 1 = j + 1
      BY <1>1, <1>2, <2>1 DEF OnceIn
    <3>2. QED
      BY <3>1
  <2>2. QED
    BY <2>1 DEF OnceIn
<1>3. ASSUME NewsFirst(s) PROVE NewsFirst(Tail(s))
  <2>1. ASSUME NEW i \in 1..Len(Tail(s)), NEW j \in 1..Len(Tail(s)), i < j,
               Tail(s)[j].type \in NewsTypes
        PROVE  Tail(s)[i].type \in NewsTypes
    <3>1. i + 1 < j + 1
      BY <2>1
    <3>2. QED
      BY <1>1, <1>3, <2>1, <3>1 DEF NewsFirst
  <2>2. QED
    BY <2>1 DEF NewsFirst
<1>4. QED
  BY <1>2, <1>3

(* If the oldest event is an arrival, all events are.                      *)
LEMMA ArrivalsOnly ==
  ASSUME NEW s \in Seq(Events), s # <<>>, NewsFirst(s), Head(s).type = "NODE_ARRIVED"
  PROVE  /\ \A i \in 1..Len(s) : s[i].type = "NODE_ARRIVED"
         /\ \A i \in 1..Len(Tail(s)) : Tail(s)[i].type = "NODE_ARRIVED"
<1>1. /\ Len(s) \in Nat /\ Len(s) >= 1 /\ Head(s) = s[1]
      /\ \A i \in 1..Len(Tail(s)) : i + 1 \in 1..Len(s) /\ Tail(s)[i] = s[i + 1]
  BY SeqTail
<1>2. 1 \in 1..Len(s) /\ s[1].type \notin NewsTypes
  BY <1>1 DEF NewsTypes
<1>3. ASSUME NEW i \in 1..Len(s) PROVE s[i].type = "NODE_ARRIVED"
  <2>1. CASE i = 1
    BY <1>1, <2>1
  <2>2. CASE 1 < i
    <3>1. s[i].type \notin NewsTypes
      BY <1>2, <2>2 DEF NewsFirst
    <3>2. s[i] \in Events
      OBVIOUS
    <3>3. QED
      BY <3>1, <3>2, EventTypesOf
  <2>3. QED
    BY <2>1, <2>2
<1>4. QED
  BY <1>1, <1>3

(* Something is added at the end of a queue that has no news of its AGVs.  *)
LEMMA MailOfConcat ==
  ASSUME NEW s \in Seq(Events), NEW u \in Seq(Events), OnceIn(s), OnceIn(u),
         \A i \in 1..Len(s), j \in 1..Len(u) :
           s[i].type \in NewsTypes /\ u[j].type \in NewsTypes => s[i].agv # u[j].agv
  PROVE  OnceIn(s \o u)
<1>1. /\ Len(s) \in Nat /\ Len(u) \in Nat /\ Len(s \o u) = Len(s) + Len(u)
      /\ \A i \in 1..Len(s) : (s \o u)[i] = s[i]
      /\ \A i \in 1..Len(s \o u) :
           i \notin 1..Len(s) => i - Len(s) \in 1..Len(u) /\ (s \o u)[i] = u[i - Len(s)]
  BY SeqConcat
<1> DEFINE w == s \o u
<1>2. ASSUME NEW i \in 1..Len(w), NEW j \in 1..Len(w), w[i].agv = w[j].agv,
             w[i].type \in NewsTypes, w[j].type \in NewsTypes
      PROVE  i = j
  <2>1. CASE i \in 1..Len(s) /\ j \in 1..Len(s)
    BY <1>1, <1>2, <2>1 DEF OnceIn
  <2>2. CASE i \in 1..Len(s) /\ j \notin 1..Len(s)
    BY <1>1, <1>2, <2>2
  <2>3. CASE i \notin 1..Len(s) /\ j \in 1..Len(s)
    BY <1>1, <1>2, <2>3
  <2>4. CASE i \notin 1..Len(s) /\ j \notin 1..Len(s)
    <3>1. i - Len(s) = j - Len(s)
      BY <1>1, <1>2, <2>4 DEF OnceIn
    <3>2. QED
      BY <1>1, <3>1
  <2>5. QED
    BY <2>1, <2>2, <2>3, <2>4
<1>3. QED
  BY <1>2 DEF OnceIn

LEMMA OrderIsInjective ==
  ASSUME NEW S, IsFiniteSet(S), NEW order \in SetToSeqs(S)
  PROVE  /\ order \in Seq(S) /\ DOMAIN order = 1..Len(order) /\ Len(order) \in Nat
         /\ \A i, j \in 1..Len(order) : order[i] = order[j] => i = j
<1>1. order \in Seq(S)
  BY OrderIsSequence
<1>2. DOMAIN order = 1..Len(order) /\ Len(order) \in Nat
  BY <1>1
<1>3. \A i, j \in DOMAIN order : order[i] = order[j] => i = j
  BY DEF SetToSeqs
<1>4. QED
  BY <1>1, <1>2, <1>3

(* An order lists all of its set.                                          *)
LEMMA OrderIsOnto ==
  ASSUME NEW S, IsFiniteSet(S), NEW order \in SetToSeqs(S)
  PROVE  \A x \in S : \E i \in 1..Len(order) : order[i] = x
<1> DEFINE n == Cardinality(S)
           D == 1..n
<1>1. n \in Nat
  BY FS_CardinalityType
<1>2. order \in [D -> S] /\ \A i, j \in D : order[i] = order[j] => i = j
  BY DEF SetToSeqs
<1>3. Cardinality(D) = Cardinality(S)
  BY <1>1, FS_Interval
<1>4. order \in Injection(D, S)
  BY <1>2 DEF Injection, IsInjective
<1> HIDE DEF D
<1>5. order \in Surjection(D, S)
  BY <1>3, <1>4, FS_Injection
<1>6. Len(order) = n
  BY <1>1, <1>2 DEF D
<1>7. QED
  BY <1>5, <1>6 DEF Surjection, D

(* What CreateRoute does for one AGV leaves the others as they were.       *)
LEMMA RouteOfOne ==
  ASSUME RouteTypes, NEW a \in Agvs, NEW from, NEW target, NEW why, NEW plans,
         plans = plan \/ plans = [plan EXCEPT ![a] = NONE],
         CreateRoute(a, from, target, why, plans)
  PROVE  /\ \A b \in Agvs \ {a} :
              /\ plan'[b] = plan[b] /\ pending'[b] = pending[b]
              /\ state'[b] = state[b] /\ purpose'[b] = purpose[b]
         /\ state'[a] \in {state[a], "IDLE", "MOVING"}
<1>1. \A b \in Agvs \ {a} : plans[b] = plan[b]
  BY DEF RouteTypes
<1>2. CASE AlreadyThere(a, from, target, why, plans)
  BY <1>1, <1>2 DEF AlreadyThere, RouteTypes
<1>3. CASE RouteFound(a, from, target, why, plans)
  BY <1>1, <1>3 DEF RouteFound, RouteTypes
<1>4. CASE RouteFailed(a, from, target, why, plans)
  BY <1>1, <1>4 DEF RouteFailed, RouteTypes
<1>5. QED
  BY <1>2, <1>3, <1>4 DEF CreateRoute

-----------------------------------------------------------------------------
LEMMA MailInit == Init => Mail
<1> SUFFICES ASSUME Init PROVE Mail
  OBVIOUS
<1> DEFINE ready(a) == Event("IDLE_READY", a, NONE)
           S == {ready(a) : a \in Agvs}
<1>1. IsFiniteSet(S)
  <2> DEFINE f == [a \in Agvs |-> ready(a)]
  <2>1. f \in Surjection(Agvs, S)
    BY DEF Surjection
  <2> HIDE DEF f, S
  <2>2. QED
    BY <2>1, FleetAssumption, FS_Surjection
<1>2. queue \in SetToSeqs(S)
  BY DEF Init
<1> HIDE DEF S
<1>3. /\ queue \in Seq(S) /\ Len(queue) \in Nat
      /\ \A i, j \in 1..Len(queue) : queue[i] = queue[j] => i = j
  BY <1>1, <1>2, OrderIsInjective
<1>4. \A e \in S : e.type = "IDLE_READY" /\ e = Event("IDLE_READY", e.agv, NONE)
  BY DEF S, Event
<1>5. \A i \in 1..Len(queue) : queue[i] \in S
  BY <1>3
<1>6. OnceIn(queue)
  BY <1>3, <1>4, <1>5 DEF OnceIn
<1>7. \A i \in 1..Len(queue) : queue[i].type \in NewsTypes
  BY <1>4, <1>5 DEF NewsTypes, EventTypes
<1>8. events = <<>> /\ phase = "collect"
  BY DEF Init
<1>9. NewsFirst(events) /\ OnceIn(events)
  BY <1>8 DEF NewsFirst, OnceIn
<1>10. QED
  BY <1>6, <1>7, <1>8, <1>9 DEF Mail

(* While events are handled and nothing new is published.                  *)
LEMMA MailHandled ==
  ASSUME MInv, phase = "process", phase' = phase, queue' = queue,
         events' = events \/ (events # <<>> /\ events' = Tail(events)),
         queue # <<>> => wakes' = 0,
         \A i \in 1..Len(queue) : plan'[queue[i].agv] = NONE /\ ~Works(queue[i].agv)'
  PROVE  Mail'
<1>1. events \in Seq(Events) /\ queue \in Seq(Events)
  BY DEF MInv, IInv, TypeOK
<1>2. NewsFirst(events) /\ OnceIn(events)
  BY DEF MInv, Mail
<1>3. NewsFirst(events)' /\ OnceIn(events)'
  <2>2. CASE events' = events
    BY <1>2, <2>2 DEF NewsFirst, OnceIn
  <2>3. CASE events # <<>> /\ events' = Tail(events)
    BY <1>1, <1>2, <2>3, MailOfTail DEF NewsFirst, OnceIn
  <2>4. QED
    BY <2>2, <2>3
<1>4. OnceIn(queue)' /\ \A i \in 1..Len(queue') : queue'[i].type \in NewsTypes
  BY DEF MInv, Mail, OnceIn
<1>5. ASSUME queue # <<>>
      PROVE  \A i \in 1..Len(events') : events'[i].type = "NODE_ARRIVED"
  <2>1. \A i \in 1..Len(events) : events[i].type = "NODE_ARRIVED"
    BY <1>5 DEF MInv, Mail
  <2>2. CASE events' = events
    BY <2>1, <2>2
  <2>3. CASE events # <<>> /\ events' = Tail(events)
    BY <1>1, <2>1, <2>3, SeqTail
  <2>4. QED
    BY <2>2, <2>3
<1>6. QED
  BY <1>3, <1>4, <1>5 DEF Mail

(* News is handled while the other queue is still empty, and by one        *)
(* subscriber only.                                                        *)
LEMMA NewsAlone ==
  ASSUME MInv, NEW type \in NewsTypes, Take(type)
  PROVE  /\ queue = <<>> /\ events' = Tail(events)
         /\ events \in Seq(Events) /\ events # <<>> /\ Now = events[1]
         /\ Now \in Events /\ Now.type = type /\ phase = "process" /\ phase' = phase
<1>1. events \in Seq(Events) /\ events # <<>> /\ Now = Head(events) /\ Now.type = type
      /\ phase = "process" /\ phase' = phase
  BY DEF MInv, IInv, TypeOK, Take, Now
<1>2. Now = events[1] /\ 1 \in 1..Len(events) /\ Now \in Events
  BY <1>1, SeqTail
<1>3. queue = <<>>
  BY <1>1, <1>2 DEF MInv, Mail, NewsTypes
<1>4. events' = Tail(events)
  <2>1. Subscriptions(type) = 1 /\ calls \in Nat
    <3>1. viewers \in Nat /\ calls \in 0..viewers - 1
      BY FleetAssumption DEF MInv, IInv, TypeOK
    <3>2. QED
      BY <3>1 DEF Subscriptions, NewsTypes
  <2>2. calls' = (calls + 1) % Subscriptions(type)
        /\ events' = IF calls' = 0 THEN Tail(events) ELSE events
    BY DEF Take
  <2>3. (calls + 1) % 1 = 0
    BY <2>1
  <2>4. QED
    BY <2>1, <2>2, <2>3
<1>5. QED
  BY <1>1, <1>2, <1>3, <1>4

(* An arrival is handled when no news is left in hand.                     *)
LEMMA ArrivalLast ==
  ASSUME MInv, Take("NODE_ARRIVED")
  PROVE  /\ events \in Seq(Events) /\ events # <<>> /\ events' \in Seq(Events)
         /\ events' = events \/ events' = Tail(events)
         /\ \A i \in 1..Len(events) : events[i].type = "NODE_ARRIVED"
         /\ \A i \in 1..Len(events') : events'[i].type = "NODE_ARRIVED"
         /\ phase = "process" /\ phase' = phase /\ wakes = 0 /\ Now.agv \in Agvs
<1>1. /\ events \in Seq(Events) /\ events # <<>> /\ Head(events).type = "NODE_ARRIVED"
      /\ events' = events \/ events' = Tail(events)
      /\ phase = "process" /\ phase' = phase /\ wakes = 0
  BY DEF MInv, IInv, TypeOK, Take, Now
<1>2. Now.agv \in Agvs /\ events' \in Seq(Events)
  BY TakeKeeps DEF MInv
<1>3. /\ \A i \in 1..Len(events) : events[i].type = "NODE_ARRIVED"
      /\ \A i \in 1..Len(Tail(events)) : Tail(events)[i].type = "NODE_ARRIVED"
  BY <1>1, ArrivalsOnly DEF MInv, Mail
<1>4. QED
  BY <1>1, <1>2, <1>3

-----------------------------------------------------------------------------
(* The mail, step by step.                                                 *)
LEMMA TaskManagerMail ==
  ASSUME MInv, IdleReady \/ PickupCompleted \/ DropCompleted \/ ProcessNextDispatch
  PROVE  Mail'
<1>1. ASSUME NEW type \in NewsTypes, Take(type), queue' = queue
      PROVE  Mail'
  <2>1. /\ queue = <<>> /\ events # <<>> /\ events' = Tail(events)
        /\ phase = "process" /\ phase' = phase
    BY <1>1, NewsAlone
  <2>2. QED
    BY <1>1, <2>1, MailHandled
<1>2. {"IDLE_READY", "PICKUP_COMPLETED", "DROP_COMPLETED"} \subseteq NewsTypes
  BY DEF NewsTypes, EventTypes
<1>3. CASE IdleReady
  BY <1>1, <1>2, <1>3 DEF IdleReady
<1>4. CASE PickupCompleted
  BY <1>1, <1>2, <1>4 DEF PickupCompleted
<1>5. CASE DropCompleted
  BY <1>1, <1>2, <1>5 DEF DropCompleted
<1>6. CASE ProcessNextDispatch
  <2>1. wakes > 0 /\ phase' = phase /\ queue' = queue /\ events' = events
    BY <1>6 DEF ProcessNextDispatch
  <2>2. phase = "process"
    BY <2>1 DEF MInv, Phases
  <2>3. wakes # 0
    BY <2>1
  <2>4. queue = <<>>
    BY <2>2, <2>3 DEF MInv, Mail
  <2>5. QED
    BY <2>1, <2>2, <2>4, MailHandled
<1>7. QED
  BY <1>3, <1>4, <1>5, <1>6

(* The handlers of an arrival that publish nothing.                        *)
LEMMA ArrivalMail ==
  ASSUME MInv, IgnoreArrival \/ StepOn \/ ReachWindowEnd
  PROVE  Mail'
<1>1. queue \in Seq(Events) /\ RouteTypes
  BY TypesTogether DEF MInv, IInv, QueueTypes
<1>2. Take("NODE_ARRIVED") /\ queue' = queue
  BY DEF IgnoreArrival, StepOn, ReachWindowEnd, StepCompleted
<1>3. /\ events # <<>> /\ (events' = events \/ events' = Tail(events))
      /\ phase = "process" /\ phase' = phase /\ wakes = 0 /\ Now.agv \in Agvs
  BY <1>2, ArrivalLast
<1>4. wakes' = wakes
  BY DEF IgnoreArrival, StepOn, ReachWindowEnd, StepCompleted, missionVars
<1>5. \A b \in Agvs : plan[b] = NONE => plan'[b] = NONE /\ state'[b] = state[b]
  <2>1. CASE IgnoreArrival
    BY <2>1 DEF IgnoreArrival, routeVars
  <2>2. CASE StepOn
    BY <1>1, <1>3, <2>2 DEF StepOn, StepCompleted, RouteTypes
  <2>3. CASE ReachWindowEnd
    <3>1. /\ plan[Now.agv] # NONE
          /\ CreateRoute(Now.agv, Now.node, plan[Now.agv].target, plan[Now.agv].purpose,
                         [plan EXCEPT ![Now.agv] = NONE])
      BY <2>3 DEF ReachWindowEnd, StepCompleted
    <3>2. QED
      BY <1>1, <1>3, <3>1, RouteOfOne
  <2>4. QED
    BY <2>1, <2>2, <2>3
<1>6. ASSUME NEW i \in 1..Len(queue)
      PROVE  plan'[queue[i].agv] = NONE /\ ~Works(queue[i].agv)'
  <2>1. queue[i].agv \in Agvs
    BY <1>1, EventTypesOf
  <2>2. plan[queue[i].agv] = NONE /\ ~Works(queue[i].agv)
    BY <1>3 DEF MInv, Mail
  <2>3. QED
    BY <1>2, <1>5, <2>1, <2>2 DEF Works
<1>7. QED
  BY <1>2, <1>3, <1>4, <1>6, MailHandled

LEMMA ReachTargetMail ==
  ASSUME MInv, ReachTarget
  PROVE  Mail'
<1> DEFINE a == Now.agv
           e == Event("IDLE_READY", a, Now.node)
<1>1. queue \in Seq(Events) /\ RouteTypes
  BY TypesTogether DEF MInv, IInv, QueueTypes
<1>2. Take("NODE_ARRIVED") /\ plan[a] # NONE /\ plan' = [plan EXCEPT ![a] = NONE]
      /\ wakes' = wakes
  BY DEF ReachTarget, StepCompleted, missionVars
<1>3. /\ events # <<>> /\ (events' = events \/ events' = Tail(events))
      /\ \A i \in 1..Len(events') : events'[i].type = "NODE_ARRIVED"
      /\ phase = "process" /\ phase' = phase /\ wakes = 0 /\ a \in Agvs
  BY <1>2, ArrivalLast
<1>4. \A b \in Agvs : plan[b] = NONE => b # a /\ plan'[b] = NONE /\ state'[b] = state[b]
  BY <1>1, <1>2, <1>3 DEF ReachTarget, RouteTypes
<1>5. ASSUME NEW i \in 1..Len(queue)
      PROVE  /\ queue[i].agv \in Agvs /\ queue[i].agv # a
             /\ plan'[queue[i].agv] = NONE /\ state'[queue[i].agv] \notin {"LOADING", "UNLOADING"}
  <2>1. queue[i].agv \in Agvs
    BY <1>1, EventTypesOf
  <2>2. plan[queue[i].agv] = NONE /\ ~Works(queue[i].agv)
    BY <1>3 DEF MInv, Mail
  <2>3. QED
    BY <1>4, <2>1, <2>2 DEF Works
<1>6. CASE queue' = queue
  <2>1. \A i \in 1..Len(queue) : plan'[queue[i].agv] = NONE /\ ~Works(queue[i].agv)'
    BY <1>5, <1>6 DEF Works
  <2>2. QED
    BY <1>2, <1>3, <1>6, <2>1, MailHandled
<1>7. CASE state' = [state EXCEPT ![a] = "IDLE"] /\ queue' = Append(queue, e)
  <2>1. e \in Events /\ e.agv = a /\ e.type = "IDLE_READY" /\ e.type \in NewsTypes
    <3>1. Now.node \in Nodes
      BY <1>2, TakeKeeps DEF MInv
    <3>2. QED
      BY <1>3, <3>1 DEF Event, Events, EventTypes, NewsTypes
  <2> HIDE DEF e, a
  <2>2. /\ queue' \in Seq(Events) /\ Len(queue) \in Nat /\ Len(queue') = Len(queue) + 1
        /\ \A i \in 1..Len(queue) : queue'[i] = queue[i]
        /\ queue'[Len(queue) + 1] = e
        /\ \A i \in 1..Len(queue') : i \in 1..Len(queue) \/ i = Len(queue) + 1
    BY <1>1, <1>7, <2>1
  <2>3. \A i \in 1..Len(queue') : queue'[i].type \in NewsTypes
    BY <2>1, <2>2 DEF MInv, Mail
  <2>4. plan'[a] = NONE /\ state'[a] = "IDLE"
    BY <1>1, <1>2, <1>3, <1>7 DEF RouteTypes
  <2>5. \A i \in 1..Len(queue') : plan'[queue'[i].agv] = NONE /\ ~Works(queue[i].agv)'
    BY <1>5, <2>1, <2>2, <2>4 DEF Works
  <2>6. OnceIn(queue')
    <3>1. OnceIn(queue)
      BY DEF MInv, Mail
    <3>2. ASSUME NEW i \in 1..Len(queue'), NEW j \in 1..Len(queue'),
                 queue'[i].agv = queue'[j].agv, queue'[i].type \in NewsTypes,
                 queue'[j].type \in NewsTypes
          PROVE  i = j
      <4>1. CASE i \in 1..Len(queue) /\ j \in 1..Len(queue)
        BY <2>2, <3>1, <3>2, <4>1 DEF OnceIn
      <4>2. CASE i \in 1..Len(queue) /\ j = Len(queue) + 1
        BY <1>5, <2>1, <2>2, <3>2, <4>2
      <4>3. CASE i = Len(queue) + 1 /\ j \in 1..Len(queue)
        BY <1>5, <2>1, <2>2, <3>2, <4>3
      <4>4. QED
        BY <2>2, <4>1, <4>2, <4>3
    <3>3. QED
      BY <3>2 DEF OnceIn
  <2>7. NewsFirst(events') /\ OnceIn(events')
    BY <1>3 DEF NewsFirst, OnceIn, NewsTypes
  <2>8. wakes' = 0 /\ phase' = "process"
    BY <1>2, <1>3
  <2>9. QED
    BY <1>3, <2>3, <2>5, <2>6, <2>7, <2>8 DEF Mail, OnceIn, NewsFirst
<1>8. QED
  BY <1>6, <1>7 DEF ReachTarget, Publish

LEMMA CollectMail ==
  ASSUME MInv, Collect
  PROVE  Mail'
<1>1. queue \in Seq(Events) /\ RouteTypes
  BY TypesTogether DEF MInv, IInv, QueueTypes
<1>2. PICK arrived \in SUBSET {a \in Agvs : ride[a] # <<>>} :
        \E order \in SetToSeqs(arrived) :
          events' = queue \o [i \in DOMAIN order |->
                      Event("NODE_ARRIVED", order[i], Head(ride[order[i]]))]
  BY DEF Collect
<1>3. PICK order \in SetToSeqs(arrived) :
        events' = queue \o [i \in DOMAIN order |->
                    Event("NODE_ARRIVED", order[i], Head(ride[order[i]]))]
  BY <1>2
<1> DEFINE u == [i \in DOMAIN order |->
                   Event("NODE_ARRIVED", order[i], Head(ride[order[i]]))]
<1>4. /\ DOMAIN order = 1..Len(order) /\ Len(order) \in Nat /\ order \in Seq(arrived)
  <2>1. IsFiniteSet(arrived)
    BY FleetAssumption, FS_Subset
  <2>2. QED
    BY <2>1, OrderIsInjective
<1>5. ASSUME NEW i \in DOMAIN order
      PROVE  u[i] \in Events /\ u[i].type = "NODE_ARRIVED"
  <2>1. order[i] \in Agvs /\ ride[order[i]] \in Seq(Nodes) /\ ride[order[i]] # <<>>
    BY <1>1, <1>4 DEF RouteTypes
  <2>2. Head(ride[order[i]]) \in Nodes
    BY <2>1
  <2>3. QED
    BY <2>1, <2>2 DEF Event, Events
<1>6. u \in Seq(Events) /\ Len(u) = Len(order)
  BY <1>4, <1>5
<1>7. \A i \in 1..Len(u) : u[i].type = "NODE_ARRIVED" /\ u[i].type \notin NewsTypes
  BY <1>4, <1>5, <1>6 DEF NewsTypes
<1>8. events' = queue \o u
  BY <1>3
<1> HIDE DEF u
<1>9. OnceIn(queue) /\ \A i \in 1..Len(queue) : queue[i].type \in NewsTypes
  BY DEF MInv, Mail
<1>10. OnceIn(events')
  <2>1. OnceIn(u)
    BY <1>7 DEF OnceIn
  <2>2. QED
    BY <1>1, <1>6, <1>7, <1>8, <1>9, <2>1, MailOfConcat
<1>11. NewsFirst(events')
  <2> DEFINE w == queue \o u
  <2>1. /\ Len(queue) \in Nat /\ Len(u) \in Nat
        /\ \A i \in 1..Len(queue) : w[i] = queue[i]
        /\ \A i \in 1..Len(w) :
             i \notin 1..Len(queue) => i - Len(queue) \in 1..Len(u) /\ w[i] = u[i - Len(queue)]
    BY <1>1, <1>6, SeqConcat
  <2> HIDE DEF w
  <2>2. ASSUME NEW i \in 1..Len(w), NEW j \in 1..Len(w), i < j, w[j].type \in NewsTypes
        PROVE  w[i].type \in NewsTypes
    <3>1. j \in 1..Len(queue)
      BY <1>7, <2>1, <2>2
    <3>2. i \in 1..Len(queue)
      BY <2>1, <2>2, <3>1
    <3>3. QED
      BY <1>9, <2>1, <3>2
  <2>3. NewsFirst(w)
    BY <2>2 DEF NewsFirst
  <2>4. QED
    BY <1>8, <2>3 DEF w
<1>12. queue' = <<>> /\ phase' = "process"
  BY DEF Collect
<1>13. QED
  BY <1>10, <1>11, <1>12 DEF Mail, OnceIn, NewsFirst

LEMMA UpdateMail ==
  ASSUME MInv, Update
  PROVE  Mail'
<1>1. phase = "process" /\ phase' = "retry" /\ events = <<>> /\ events' = events
      /\ queue' = queue /\ state' = state
  BY DEF Update, roboVars
<1>2. \A i \in 1..Len(queue) : ~Works(queue[i].agv)'
  BY <1>1 DEF MInv, Mail, Works
<1>3. QED
  BY <1>1, <1>2 DEF MInv, Mail, OnceIn, NewsFirst

LEMMA RetryMail ==
  ASSUME MInv, NEW a \in Agvs, Retry(a)
  PROVE  Mail'
<1>1. phase = "retry" /\ phase' = phase /\ events' = events /\ queue' = queue
      /\ queue \in Seq(Events)
  BY DEF Retry, MInv, IInv, TypeOK
<1>2. /\ \A b \in Agvs \ {a} : state'[b] = state[b]
      /\ state'[a] \in {state[a], "IDLE", "MOVING"}
  <2>1. RouteTypes
    BY TypesTogether DEF MInv, IInv
  <2>2. CreateRoute(a, cur[a], pending[a].target, pending[a].purpose, plan)
    BY DEF Retry
  <2>3. QED
    BY <2>1, <2>2, RouteOfOne
<1>3. ASSUME NEW i \in 1..Len(queue)
      PROVE  ~Works(queue[i].agv)'
  <2>1. queue[i].agv \in Agvs
    BY <1>1, EventTypesOf
  <2>2. ~Works(queue[i].agv)
    BY <1>1 DEF MInv, Mail
  <2>3. QED
    BY <1>1, <1>2, <2>1, <2>2 DEF Works
<1>4. QED
  BY <1>1, <1>3 DEF MInv, Mail, OnceIn, NewsFirst

LEMMA UpdateWorkTimersMail ==
  ASSUME MInv, UpdateWorkTimers
  PROVE  Mail'
<1>1. PICK done \in SUBSET {a \in Agvs : working[a]} :
        LET ready == {a \in done : Works(a)} IN
        \E order \in SetToSeqs(ready) :
          queue' = queue \o [i \in DOMAIN order |-> Completed(order[i])]
  BY DEF UpdateWorkTimers
<1> DEFINE ready == {a \in done : Works(a)}
<1>2. PICK order \in SetToSeqs(ready) :
        queue' = queue \o [i \in DOMAIN order |-> Completed(order[i])]
  BY <1>1
<1> DEFINE u == [i \in DOMAIN order |-> Completed(order[i])]
<1>3. ready \in SUBSET Agvs /\ \A a \in ready : Works(a)
  OBVIOUS
<1> HIDE DEF ready
<1>4. /\ DOMAIN order = 1..Len(order) /\ Len(order) \in Nat /\ order \in Seq(ready)
      /\ \A i, j \in 1..Len(order) : order[i] = order[j] => i = j
  <2>1. IsFiniteSet(ready)
    BY <1>3, FleetAssumption, FS_Subset
  <2>2. QED
    BY <2>1, OrderIsInjective
<1>5. \A i \in DOMAIN order : order[i] \in Agvs /\ Works(order[i])
  BY <1>3, <1>4
<1>6. ASSUME NEW i \in DOMAIN order
      PROVE  u[i] \in Events /\ u[i].type \in NewsTypes /\ u[i].agv = order[i]
  BY <1>5, <1>6 DEF Completed, Event, Events, EventTypes, NewsTypes
<1>7. u \in Seq(Events) /\ Len(u) = Len(order)
  BY <1>4, <1>6
<1>8. queue' = queue \o u
  BY <1>2
<1> HIDE DEF u
<1>9. /\ queue \in Seq(Events) /\ OnceIn(queue) /\ phase = "retry" /\ phase' = "collect"
      /\ events = <<>> /\ events' = events
      /\ \A i \in 1..Len(queue) : queue[i].type \in NewsTypes /\ ~Works(queue[i].agv)
  BY DEF MInv, IInv, TypeOK, Mail, UpdateWorkTimers
<1>10. OnceIn(queue')
  <2>1. OnceIn(u)
    BY <1>4, <1>6, <1>7 DEF OnceIn
  <2>2. ASSUME NEW i \in 1..Len(queue), NEW j \in 1..Len(u)
        PROVE  queue[i].agv # u[j].agv
    BY <1>4, <1>5, <1>6, <1>7, <1>9
  <2>3. QED
    BY <1>7, <1>8, <1>9, <2>1, <2>2, MailOfConcat
<1>11. \A i \in 1..Len(queue') : queue'[i].type \in NewsTypes
  <2> DEFINE w == queue \o u
  <2>1. /\ \A i \in 1..Len(queue) : w[i] = queue[i]
        /\ \A i \in 1..Len(w) :
             i \notin 1..Len(queue) => i - Len(queue) \in 1..Len(u) /\ w[i] = u[i - Len(queue)]
    BY <1>7, <1>9, SeqConcat
  <2> HIDE DEF w
  <2>2. \A i \in 1..Len(w) : w[i].type \in NewsTypes
    BY <1>4, <1>6, <1>7, <1>9, <2>1
  <2>3. QED
    BY <1>8, <2>2 DEF w
<1>12. QED
  BY <1>9, <1>10, <1>11 DEF Mail, OnceIn, NewsFirst

LEMMA MailNext == MInv /\ [Next]_vars => Mail'
<1> SUFFICES ASSUME MInv, [Next]_vars PROVE Mail'
  OBVIOUS
<1>1. CASE UNCHANGED vars
  BY <1>1 DEF MInv, Mail, OnceIn, NewsFirst, Works, vars, missionVars, roboVars, routeVars
<1>2. CASE Next
  BY <1>2, TaskManagerMail, ArrivalMail, ReachTargetMail, CollectMail, UpdateMail, RetryMail,
     UpdateWorkTimersMail DEF Next
<1>3. QED
  BY <1>1, <1>2

THEOREM MailInvariant == Spec => []MInv
<1>1. Init => MInv
  BY InitIInv, InitPhases, MailInit DEF MInv
<1>2. MInv /\ [Next]_vars => MInv'
  BY NextIInv, NextPhases, MailNext DEF MInv
<1>3. QED
  BY <1>1, <1>2, PTL DEF Spec

(* The end of a mission is not reported twice: at most one message of an   *)
(* AGV waits to be handled, in the two queues together.                    *)
THEOREM EndsAreReportedOnce == Spec => []ReportedOnce
<1>1. MInv => ReportedOnce
  <2> SUFFICES ASSUME MInv, NEW a \in Agvs
               PROVE  LET news == queue \o events IN
                      Cardinality({i \in 1..Len(news) :
                        news[i].agv = a /\ news[i].type # "NODE_ARRIVED"}) <= 1
    BY DEF ReportedOnce
  <2> DEFINE w == queue \o events
             S == {i \in 1..Len(w) : w[i].agv = a /\ w[i].type # "NODE_ARRIVED"}
  <2>1. queue \in Seq(Events) /\ events \in Seq(Events) /\ w \in Seq(Events)
    BY DEF MInv, IInv, TypeOK
  <2>2. OnceIn(w)
    <3>1. OnceIn(queue) /\ OnceIn(events)
      BY DEF MInv, Mail
    <3>2. \/ events = <<>> \/ queue = <<>>
          \/ \A i \in 1..Len(events) : events[i].type \notin NewsTypes
      BY DEF MInv, Mail, NewsTypes
    <3>3. QED
      BY <2>1, <3>1, <3>2, MailOfConcat
  <2> HIDE DEF w
  <2>3. \A i, j \in S : i = j
    BY <2>1, <2>2, EventTypesOf DEF OnceIn
  <2> HIDE DEF S
  <2>4. Cardinality(S) <= 1
    <3>1. CASE S = {}
      BY <3>1, FS_EmptySet
    <3>2. ASSUME NEW i \in S PROVE Cardinality(S) <= 1
      <4>1. S = {i}
        BY <2>3, <3>2
      <4>2. Cardinality({i}) = 1
        BY Zenon, FS_Singleton
      <4>3. QED
        BY <4>1, <4>2
    <3>3. QED
      BY <3>1, <3>2
  <2>5. QED
    BY <2>4 DEF S, w
<1>2. QED
  BY <1>1, MailInvariant, PTL

-----------------------------------------------------------------------------
(* Whose turn it is.                                                       *)

Says(s, a, type) == \E i \in 1..Len(s) : s[i].agv = a /\ s[i].type = type
News(a, type) == Says(queue, a, type) \/ Says(events, a, type)
Quiet(a) == \A type \in NewsTypes : ~News(a, type)

(* Where an AGV is sent for a purpose, and whether with a load.            *)
Errand(a, target, why) ==
  \/ why = "PICKUP" /\ target \in Loads /\ ~laden[a]
  \/ why = "DROP" /\ target \in Drops /\ laden[a]
  \/ why = "HOME" /\ target = HomeNode /\ ~laden[a]

Riding(a) ==
  /\ plan[a] # NONE /\ pending[a] = NONE /\ state[a] = "MOVING" /\ Quiet(a)
  /\ plan[a].purpose = purpose[a]
  /\ Errand(a, plan[a].target, plan[a].purpose)

Waiting(a) ==
  /\ plan[a] = NONE /\ pending[a] # NONE /\ state[a] = "IDLE" /\ Quiet(a)
  /\ cur[a] # pending[a].target
  /\ Errand(a, pending[a].target, pending[a].purpose)

AtWork(a) ==
  /\ plan[a] = NONE /\ pending[a] = NONE /\ Quiet(a)
  /\ \/ state[a] = "LOADING" /\ ~laden[a] /\ cur[a] \in Loads
     \/ state[a] = "UNLOADING" /\ laden[a] /\ cur[a] \in Drops

(* Nothing but a message makes TaskManager look at it again; where there   *)
(* is none, it is at home.                                                 *)
Idle(a) ==
  /\ plan[a] = NONE /\ pending[a] = NONE /\ state[a] = "IDLE"
  /\ (News(a, "PICKUP_COMPLETED") => laden[a] /\ cur[a] \in Loads)
  /\ (News(a, "DROP_COMPLETED") => ~laden[a] /\ cur[a] \in Drops)
  /\ (News(a, "IDLE_READY") => ~laden[a] /\ cur[a] = HomeNode)
  /\ (Quiet(a) => ~laden[a] /\ cur[a] = HomeNode)

Turn(a) == Riding(a) \/ Waiting(a) \/ AtWork(a) \/ Idle(a)

OneTurn ==
  /\ \A i \in 1..Len(tickets) : tickets[i] \in stranded
  /\ \A a \in Agvs \ stranded : Turn(a)

TInv == MInv /\ OneTurn

(* What an AGV on its way for a purpose is about.                          *)
Bound(why) ==
  CASE why = "PICKUP" -> "fetching" [] why = "DROP" -> "delivering" [] OTHER -> "empty"

(* The job of an AGV, by the place where its turn is.                      *)
JobByTurn ==
  /\ \A a \in Agvs : a \in stranded => job[a] = "stranded"
  /\ \A a \in Agvs \ stranded :
       /\ Riding(a) => job[a] = Bound(plan[a].purpose)
       /\ Waiting(a) => job[a] = Bound(pending[a].purpose)
       /\ AtWork(a) => job[a] = IF laden[a] THEN "delivering" ELSE "fetching"
       /\ Idle(a) => job[a] = IF laden[a] THEN "laden" ELSE "empty"

LEMMA JobIsByTurn == JobByTurn
<1> DEFINE sent(a) == {p \in {plan[a], pending[a]} : p # NONE}
           bound(a, why) == \E p \in sent(a) : p.purpose = why
<1>1. \A a \in Agvs :
        job[a] = IF a \in stranded THEN "stranded"
                 ELSE IF laden[a]
                 THEN IF bound(a, "DROP") THEN "delivering"
                      ELSE IF state[a] = "UNLOADING" THEN "delivering" ELSE "laden"
                 ELSE IF bound(a, "PICKUP") THEN "fetching"
                      ELSE IF state[a] = "LOADING" THEN "fetching" ELSE "empty"
  BY DEF job
<1>2. \A a \in Agvs, why \in Purposes :
        bound(a, why) <=> \/ plan[a] # NONE /\ plan[a].purpose = why
                          \/ pending[a] # NONE /\ pending[a].purpose = why
  OBVIOUS
<1> HIDE DEF bound
<1>3. {"PICKUP", "DROP"} \subseteq Purposes
  BY DEF Purposes
<1>4. \A a \in Agvs : a \in stranded => job[a] = "stranded"
  BY <1>1
<1>5. ASSUME NEW a \in Agvs \ stranded, Riding(a)
      PROVE  job[a] = Bound(plan[a].purpose)
  BY <1>1, <1>2, <1>3, <1>5 DEF Riding, Errand, Bound
<1>6. ASSUME NEW a \in Agvs \ stranded, Waiting(a)
      PROVE  job[a] = Bound(pending[a].purpose)
  BY <1>1, <1>2, <1>3, <1>6 DEF Waiting, Errand, Bound
<1>7. ASSUME NEW a \in Agvs \ stranded, AtWork(a)
      PROVE  job[a] = IF laden[a] THEN "delivering" ELSE "fetching"
  BY <1>1, <1>2, <1>3, <1>7 DEF AtWork
<1>8. ASSUME NEW a \in Agvs \ stranded, Idle(a)
      PROVE  job[a] = IF laden[a] THEN "laden" ELSE "empty"
  BY <1>1, <1>2, <1>3, <1>8 DEF Idle
<1>9. QED
  BY <1>4, <1>5, <1>6, <1>7, <1>8 DEF JobByTurn

LEMMA JobIsByTurnAfter == JobByTurn'
BY JobIsByTurn, PTL

(* A job goes on or turns into the next.                                   *)
Goes(from, to) == to = from \/ to \in Jobs!After[from]

(* Nothing has happened to an AGV.                                         *)
Untouched(b) ==
  /\ plan'[b] = plan[b] /\ pending'[b] = pending[b]
  /\ state'[b] = state[b] /\ purpose'[b] = purpose[b]
  /\ cur'[b] = cur[b] /\ laden'[b] = laden[b]
  /\ \A type \in NewsTypes : News(b, type)' <=> News(b, type)

(* What a step may do to the turn and the job of an AGV.                   *)
Proceeds(a) ==
  a \notin stranded =>
    /\ a \in stranded' \/ Turn(a)'
    /\ Goes(job[a], job'[a])

LEMMA UntouchedProceeds ==
  ASSUME OneTurn, NEW b \in Agvs, Untouched(b), b \in stranded' <=> b \in stranded
  PROVE  Proceeds(b)
<1> SUFFICES ASSUME b \notin stranded, b \notin stranded'
             PROVE  Turn(b)' /\ job'[b] = job[b]
  BY DEF Proceeds, Goes
<1>1. Quiet(b)' <=> Quiet(b)
  BY DEF Untouched, Quiet
<1>2. /\ News(b, "PICKUP_COMPLETED")' <=> News(b, "PICKUP_COMPLETED")
      /\ News(b, "DROP_COMPLETED")' <=> News(b, "DROP_COMPLETED")
      /\ News(b, "IDLE_READY")' <=> News(b, "IDLE_READY")
  BY DEF Untouched, NewsTypes, EventTypes
<1>3. /\ Riding(b)' <=> Riding(b)
      /\ Waiting(b)' <=> Waiting(b)
      /\ AtWork(b)' <=> AtWork(b)
  BY <1>1 DEF Untouched, Riding, Waiting, AtWork, Errand
<1>4. Idle(b)' <=> Idle(b)
  BY <1>1, <1>2 DEF Untouched, Idle
<1>5. Turn(b)
  BY DEF OneTurn
<1>6. job'[b] = job[b]
  BY <1>3, <1>4, <1>5, JobIsByTurn, JobIsByTurnAfter DEF JobByTurn, Turn, Untouched
<1>7. QED
  BY <1>3, <1>4, <1>5, <1>6 DEF Turn

-----------------------------------------------------------------------------
(* What the queues say of an AGV.                                          *)
LEMMA SaysTail ==
  ASSUME NEW s \in Seq(Events), s # <<>>, NEW b, NEW type
  PROVE  Says(s, b, type) <=> (s[1].agv = b /\ s[1].type = type) \/ Says(Tail(s), b, type)
<1>1. /\ Len(s) \in Nat /\ Len(s) >= 1 /\ Len(Tail(s)) = Len(s) - 1
      /\ \A i \in 1..Len(Tail(s)) : i + 1 \in 1..Len(s) /\ Tail(s)[i] = s[i + 1]
  BY SeqTail
<1>2. ASSUME NEW i \in 1..Len(s), i # 1
      PROVE  i - 1 \in 1..Len(Tail(s)) /\ Tail(s)[i - 1] = s[i]
  <2>1. i - 1 \in 1..Len(Tail(s))
    BY <1>1, <1>2
  <2>2. Tail(s)[i - 1] = s[(i - 1) + 1] /\ (i - 1) + 1 = i
    BY <1>1, <2>1
  <2>3. QED
    BY <2>1, <2>2
<1>3. 1 \in 1..Len(s)
  BY <1>1
<1>4. ASSUME Says(s, b, type)
      PROVE  (s[1].agv = b /\ s[1].type = type) \/ Says(Tail(s), b, type)
  <2>1. PICK i \in 1..Len(s) : s[i].agv = b /\ s[i].type = type
    BY <1>4 DEF Says
  <2>2. CASE i = 1
    BY <2>1, <2>2
  <2>3. CASE i # 1
    BY <1>2, <2>1, <2>3 DEF Says
  <2>4. QED
    BY <2>2, <2>3
<1>5. Says(Tail(s), b, type) => Says(s, b, type)
  BY <1>1 DEF Says
<1>6. s[1].agv = b /\ s[1].type = type => Says(s, b, type)
  BY <1>3 DEF Says
<1>7. QED
  BY <1>4, <1>5, <1>6

LEMMA SaysConcat ==
  ASSUME NEW s \in Seq(Events), NEW u \in Seq(Events), NEW b, NEW type
  PROVE  Says(s \o u, b, type) <=> Says(s, b, type) \/ Says(u, b, type)
<1> DEFINE w == s \o u
<1>1. /\ Len(s) \in Nat /\ Len(u) \in Nat /\ Len(w) = Len(s) + Len(u)
      /\ \A i \in 1..Len(s) : w[i] = s[i]
      /\ \A i \in 1..Len(w) :
           i \notin 1..Len(s) => i - Len(s) \in 1..Len(u) /\ w[i] = u[i - Len(s)]
  BY SeqConcat
<1> HIDE DEF w
<1>2. ASSUME NEW j \in 1..Len(u)
      PROVE  Len(s) + j \in 1..Len(w) /\ w[Len(s) + j] = u[j]
  <2>1. Len(s) + j \in 1..Len(w) /\ Len(s) + j \notin 1..Len(s) /\ (Len(s) + j) - Len(s) = j
    BY <1>1
  <2>2. w[Len(s) + j] = u[(Len(s) + j) - Len(s)]
    BY <1>1, <2>1
  <2>3. QED
    BY <2>1, <2>2
<1>3. \A i \in 1..Len(s) : i \in 1..Len(w)
  BY <1>1
<1>4. Says(w, b, type) => Says(s, b, type) \/ Says(u, b, type)
  BY <1>1 DEF Says
<1>5. Says(s, b, type) \/ Says(u, b, type) => Says(w, b, type)
  BY <1>1, <1>2, <1>3 DEF Says
<1>6. QED
  BY <1>4, <1>5 DEF w

LEMMA SaysNothing == \A b, type : ~Says(<<>>, b, type)
BY DEF Says

(* An AGV whose news is handled was reported, and no news of it is left;   *)
(* of the others, all news is left.                                        *)
LEMMA NewsTaken ==
  ASSUME MInv, NEW type \in NewsTypes, Take(type), queue' = queue, NEW a, a = Now.agv
  PROVE  /\ a \in Agvs /\ News(a, type) /\ Quiet(a)'
         /\ \A b \in Agvs \ {a}, t \in NewsTypes : News(b, t)' <=> News(b, t)
<1>1. /\ queue = <<>> /\ events' = Tail(events)
      /\ events \in Seq(Events) /\ events # <<>> /\ Now = events[1]
      /\ Now \in Events /\ Now.type = type
  BY NewsAlone
<1>2. Now.agv \in Agvs
  BY <1>1, EventTypesOf
<1>3. \A b, t : Says(events, b, t) <=> (Now.agv = b /\ Now.type = t) \/ Says(events', b, t)
  BY <1>1, SaysTail
<1>4. \A b, t : ~Says(queue, b, t) /\ ~Says(queue', b, t)
  BY <1>1, SaysNothing
<1>5. ASSUME NEW t \in NewsTypes, Says(events', a, t)
      PROVE  FALSE
  <2>1. PICK i \in 1..Len(Tail(events)) : Tail(events)[i].agv = Now.agv /\ Tail(events)[i].type = t
    BY <1>1, <1>5 DEF Says
  <2>2. i + 1 \in 1..Len(events) /\ events[i + 1] = Tail(events)[i] /\ 1 \in 1..Len(events)
    BY <1>1, SeqTail
  <2>3. OnceIn(events)
    BY DEF MInv, Mail
  <2>4. i + 1 = 1
    BY <1>1, <2>1, <2>2, <2>3 DEF OnceIn
  <2>5. QED
    BY <2>1, <2>4
<1>6. Quiet(a)'
  BY <1>4, <1>5 DEF Quiet, News
<1>7. QED
  BY <1>1, <1>2, <1>3, <1>4, <1>6 DEF News

(* An arrival is not news.                                                 *)
LEMMA NoNewsTaken ==
  ASSUME MInv, Take("NODE_ARRIVED"), NEW b, NEW type \in NewsTypes
  PROVE  /\ News(b, type) <=> Says(queue, b, type)
         /\ News(b, type)' <=> Says(queue', b, type)
<1>1. /\ \A i \in 1..Len(events) : events[i].type = "NODE_ARRIVED"
      /\ \A i \in 1..Len(events') : events'[i].type = "NODE_ARRIVED"
  BY ArrivalLast
<1>2. type # "NODE_ARRIVED"
  BY DEF NewsTypes
<1>3. ~Says(events, b, type) /\ ~Says(events', b, type)
  BY <1>1, <1>2 DEF Says
<1>4. QED
  BY <1>3 DEF News

-----------------------------------------------------------------------------
(* A route that is asked for an AGV without a plan, to a node where it is  *)
(* not: it rides, or it waits for a retry, on the same errand.             *)
LEMMA RouteTurn ==
  ASSUME RouteTypes, NEW a \in Agvs, NEW from, NEW target \in Targets,
         NEW why \in Purposes, NEW plans,
         (plans = plan /\ plan[a] = NONE) \/ plans = [plan EXCEPT ![a] = NONE],
         from # target, CreateRoute(a, from, target, why, plans),
         cur'[a] = from, laden'[a] = laden[a], Quiet(a)', Errand(a, target, why)
  PROVE  \/ Riding(a)' /\ plan'[a].purpose = why
         \/ Waiting(a)' /\ pending'[a].purpose = why
<1>1. plans \in [Agvs -> Plans \cup {NONE}] /\ plans[a] = NONE
  BY DEF RouteTypes
<1>2. Errand(a, target, why)'
  BY DEF Errand
<1>3. CASE RouteFound(a, from, target, why, plans)
  <2> DEFINE new(r) == [rest |-> r, target |-> target, purpose |-> why]
  <2>1. PICK r \in RoutesTo(from, target) : plan' = [plans EXCEPT ![a] = new(r)]
    BY <1>3 DEF RouteFound
  <2>2. new(r) # NONE /\ new(r).target = target /\ new(r).purpose = why
    BY RoutesAreSequences, NoneAssumption DEF Plans
  <2> HIDE DEF new
  <2>3. plan'[a] # NONE /\ plan'[a].target = target /\ plan'[a].purpose = why
    BY <1>1, <2>1, <2>2
  <2>4. state'[a] = "MOVING" /\ purpose'[a] = why /\ pending'[a] = NONE
    BY <1>3 DEF RouteFound, RouteTypes
  <2>5. QED
    BY <1>2, <2>2, <2>3, <2>4 DEF Riding, Errand
<1>4. CASE RouteFailed(a, from, target, why, plans)
  <2> DEFINE new == [target |-> target, purpose |-> why]
  <2>1. new # NONE /\ new.target = target /\ new.purpose = why
    BY NoneAssumption DEF Retries
  <2> HIDE DEF new
  <2>2. plan'[a] = NONE /\ pending'[a] = new /\ state'[a] = "IDLE"
    BY <1>1, <1>4 DEF RouteFailed, RouteTypes, new
  <2>3. QED
    BY <1>2, <2>1, <2>2 DEF Waiting, Errand
<1>5. QED
  BY <1>3, <1>4 DEF CreateRoute, AlreadyThere

(* TaskManager looks at an idle AGV without a load.                        *)
LEMMA IdleProceeds ==
  ASSUME TInv, NEW a \in Agvs, OnRobotIdle(a),
         a \notin stranded =>
           Idle(a) /\ ~laden[a] /\ cur[a] \in Drops \cup {HomeNode} /\ Quiet(a)',
         cur' = cur, laden' = laden, stranded' = stranded
  PROVE  /\ Proceeds(a)
         /\ \A b \in Agvs \ {a} :
              /\ plan'[b] = plan[b] /\ pending'[b] = pending[b]
              /\ state'[b] = state[b] /\ purpose'[b] = purpose[b]
<1>1. RouteTypes
  BY TypesTogether DEF TInv, MInv, IInv
<1>2. state[a] # "IDLE" => NoRoute
  BY DEF OnRobotIdle
<1>3. ASSUME state[a] = "IDLE"
      PROVE  \E n \in FindBestLoadNode(a) :
               IF n = NONE THEN CreateRoute(a, cur[a], HomeNode, "HOME", plan)
                           ELSE CreateRoute(a, cur[a], n, "PICKUP", plan)
  BY <1>3 DEF OnRobotIdle
<1>4. \A b \in Agvs \ {a} :
        /\ plan'[b] = plan[b] /\ pending'[b] = pending[b]
        /\ state'[b] = state[b] /\ purpose'[b] = purpose[b]
  <2>1. CASE state[a] # "IDLE"
    BY <1>2, <2>1 DEF NoRoute, routeVars
  <2>2. CASE state[a] = "IDLE"
    BY <1>1, <1>3, <2>2, RouteOfOne
  <2>3. QED
    BY <2>1, <2>2
<1>5. ASSUME a \notin stranded
      PROVE  Turn(a)' /\ Goes(job[a], job'[a])
  <2>1. /\ Idle(a) /\ ~laden[a] /\ cur[a] \in Drops \cup {HomeNode} /\ Quiet(a)'
        /\ plan[a] = NONE /\ state[a] = "IDLE"
    BY <1>5 DEF Idle
  <2>2. job[a] = "empty" /\ a \notin stranded'
    BY <1>5, <2>1, JobIsByTurn DEF JobByTurn
  <2>3. PICK n \in FindBestLoadNode(a) :
          IF n = NONE THEN CreateRoute(a, cur[a], HomeNode, "HOME", plan)
                      ELSE CreateRoute(a, cur[a], n, "PICKUP", plan)
    BY <1>3, <2>1
  <2>4. CASE n = NONE /\ cur[a] = HomeNode
    <3>1. AlreadyThere(a, cur[a], HomeNode, "HOME", plan)
      BY <2>3, <2>4 DEF CreateRoute, RouteFound, RouteFailed
    <3>2. plan' = plan /\ state' = state /\ pending'[a] = NONE
      BY <1>1, <3>1 DEF AlreadyThere, RouteTypes
    <3>3. ~News(a, "PICKUP_COMPLETED")' /\ ~News(a, "DROP_COMPLETED")' /\ ~News(a, "IDLE_READY")'
      BY <2>1 DEF Quiet, NewsTypes, EventTypes
    <3>4. Idle(a)'
      BY <2>1, <2>4, <3>2, <3>3 DEF Idle
    <3>5. job'[a] = "empty"
      BY <2>1, <2>2, <3>4, JobIsByTurnAfter DEF JobByTurn
    <3>6. QED
      BY <2>2, <3>4, <3>5 DEF Turn, Goes
  <2>5. CASE n = NONE /\ cur[a] # HomeNode
    <3>1. HomeNode \in Targets /\ "HOME" \in Purposes /\ Errand(a, HomeNode, "HOME")
      BY <2>1 DEF Targets, Purposes, Errand
    <3>2. \/ Riding(a)' /\ plan'[a].purpose = "HOME"
          \/ Waiting(a)' /\ pending'[a].purpose = "HOME"
      BY <1>1, <2>1, <2>3, <2>5, <3>1, RouteTurn
    <3>3. job'[a] = "empty"
      BY <2>2, <3>2, JobIsByTurnAfter DEF JobByTurn, Bound
    <3>4. QED
      BY <2>2, <3>2, <3>3 DEF Turn, Goes
  <2>6. CASE n # NONE
    <3>1. n \in Loads
      BY <2>6 DEF FindBestLoadNode
    <3>2. n \in Targets /\ "PICKUP" \in Purposes /\ Errand(a, n, "PICKUP") /\ cur[a] # n
      BY <2>1, <3>1, NodesAssumption DEF Targets, Purposes, Errand
    <3>3. \/ Riding(a)' /\ plan'[a].purpose = "PICKUP"
          \/ Waiting(a)' /\ pending'[a].purpose = "PICKUP"
      BY <1>1, <2>1, <2>3, <2>6, <3>2, RouteTurn
    <3>4. job'[a] = "fetching"
      BY <2>2, <3>3, JobIsByTurnAfter DEF JobByTurn, Bound
    <3>5. QED
      BY <2>2, <3>3, <3>4 DEF Turn, Goes, Jobs!After
  <2>7. QED
    BY <2>4, <2>5, <2>6
<1>6. QED
  BY <1>4, <1>5 DEF Proceeds

(* TaskManager looks for a drop node: only for an AGV with a load that has *)
(* just been reported, or for one that waits for a drop node.              *)
LEMMA LoadCompletedProceeds ==
  ASSUME TInv, NEW a \in Agvs, NEW waiting \in Seq(Agvs), OnRobotLoadCompleted(a, waiting),
         a \notin stranded => Idle(a) /\ laden[a] /\ cur[a] \in Loads /\ Quiet(a)',
         \A i \in 1..Len(waiting) : waiting[i] \in stranded,
         cur' = cur, laden' = laden
  PROVE  /\ Proceeds(a)
         /\ \A b \in Agvs \ {a} :
              /\ plan'[b] = plan[b] /\ pending'[b] = pending[b]
              /\ state'[b] = state[b] /\ purpose'[b] = purpose[b]
              /\ b \in stranded' <=> b \in stranded
         /\ stranded \subseteq stranded'
         /\ \A i \in 1..Len(tickets') : tickets'[i] \in stranded'
<1>1. RouteTypes
  BY TypesTogether DEF TInv, MInv, IInv
<1>2. PICK n \in FindBestDispatchNode(a) :
        IF n # NONE
        THEN /\ tickets' = waiting
             /\ UNCHANGED stranded
             /\ CreateRoute(a, cur[a], n, "DROP", plan)
        ELSE /\ Len(waiting) < MaxTickets
             /\ tickets' = Append(waiting, a)
             /\ stranded' = stranded \cup {a}
             /\ IF ~headsHome[a] /\ purpose[a] # "HOME"
                THEN CreateRoute(a, cur[a], HomeNode, "HOME", plan)
                ELSE NoRoute
  BY Zenon DEF OnRobotLoadCompleted
<1>3. \A b \in Agvs \ {a} :
        /\ plan'[b] = plan[b] /\ pending'[b] = pending[b]
        /\ state'[b] = state[b] /\ purpose'[b] = purpose[b]
  <2>1. CASE NoRoute
    BY <2>1 DEF NoRoute, routeVars
  <2>2. ASSUME NEW target, NEW why, CreateRoute(a, cur[a], target, why, plan)
        PROVE  \A b \in Agvs \ {a} :
                 /\ plan'[b] = plan[b] /\ pending'[b] = pending[b]
                 /\ state'[b] = state[b] /\ purpose'[b] = purpose[b]
    BY <1>1, <2>2, RouteOfOne
  <2>3. QED
    BY <1>2, <2>1, <2>2
<1>4. stranded' = IF n # NONE THEN stranded ELSE stranded \cup {a}
  BY <1>2
<1>5. \A i \in 1..Len(tickets') : tickets'[i] \in stranded'
  <2>1. CASE n # NONE
    BY <1>2, <1>4, <2>1
  <2>2. CASE n = NONE
    <3>1. tickets' = Append(waiting, a)
      BY <1>2, <2>2
    <3>2. \A i \in 1..Len(tickets') : tickets'[i] = a \/ (i \in 1..Len(waiting) /\ tickets'[i] = waiting[i])
      BY <3>1
    <3>3. QED
      BY <1>4, <2>2, <3>2
  <2>3. QED
    BY <2>1, <2>2
<1>6. ASSUME a \notin stranded
      PROVE  (a \in stranded' \/ Turn(a)') /\ Goes(job[a], job'[a])
  <2>1. /\ Idle(a) /\ laden[a] /\ cur[a] \in Loads /\ Quiet(a)' /\ plan[a] = NONE
    BY <1>6 DEF Idle
  <2>2. job[a] = "laden"
    BY <1>6, <2>1, JobIsByTurn DEF JobByTurn
  <2>3. CASE n = NONE
    <3>1. a \in stranded'
      BY <1>4, <2>3
    <3>2. job'[a] = "stranded"
      BY <3>1, JobIsByTurnAfter DEF JobByTurn
    <3>3. QED
      BY <2>2, <3>1, <3>2 DEF Goes, Jobs!After
  <2>4. CASE n # NONE
    <3>1. n \in Drops /\ a \notin stranded'
      BY <1>4, <1>6, <2>4 DEF FindBestDispatchNode
    <3>2. n \in Targets /\ "DROP" \in Purposes /\ Errand(a, n, "DROP") /\ cur[a] # n
      BY <2>1, <3>1, NodesAssumption DEF Targets, Purposes, Errand
    <3>3. \/ Riding(a)' /\ plan'[a].purpose = "DROP"
          \/ Waiting(a)' /\ pending'[a].purpose = "DROP"
      BY <1>1, <1>2, <2>1, <2>4, <3>2, RouteTurn
    <3>4. job'[a] = "delivering"
      BY <3>1, <3>3, JobIsByTurnAfter DEF JobByTurn, Bound
    <3>5. QED
      BY <2>2, <3>3, <3>4 DEF Turn, Goes, Jobs!After
  <2>5. QED
    BY <2>3, <2>4
<1>7. QED
  BY <1>3, <1>4, <1>5, <1>6 DEF Proceeds

-----------------------------------------------------------------------------
(* The turn, step by step.                                                 *)
Progress ==
  /\ stranded \subseteq stranded'
  /\ \A i \in 1..Len(tickets') : tickets'[i] \in stranded'
  /\ \A a \in Agvs : Proceeds(a)

LEMMA NoTicketProgress ==
  ASSUME TInv, tickets' = tickets, stranded' = stranded, \A a \in Agvs : Proceeds(a)
  PROVE  Progress
BY DEF TInv, OneTurn, Progress

(* An AGV with news of a type is idle.                                     *)
LEMMA ReportedIsIdle ==
  ASSUME OneTurn, NEW a \in Agvs \ stranded, NEW type \in NewsTypes, News(a, type)
  PROVE  Idle(a)
BY DEF OneTurn, Turn, Riding, Waiting, AtWork, Quiet

LEMMA IdleReadyProgress ==
  ASSUME TInv, IdleReady PROVE Progress
<1>1. PICK a : a = Now.agv
  OBVIOUS
<1>2. /\ Take("IDLE_READY") /\ OnRobotIdle(a) /\ queue' = queue /\ tickets' = tickets
      /\ stranded' = stranded /\ cur' = cur /\ laden' = laden
  BY <1>1 DEF IdleReady, missionVars, Take
<1>3. "IDLE_READY" \in NewsTypes
  BY DEF NewsTypes, EventTypes
<1>4. /\ a \in Agvs /\ News(a, "IDLE_READY") /\ Quiet(a)'
      /\ \A b \in Agvs \ {a}, t \in NewsTypes : News(b, t)' <=> News(b, t)
  BY <1>1, <1>2, <1>3, NewsTaken DEF TInv
<1>5. a \notin stranded => Idle(a) /\ ~laden[a] /\ cur[a] = HomeNode
  BY <1>3, <1>4, ReportedIsIdle DEF TInv, Idle
<1>6. /\ Proceeds(a)
      /\ \A b \in Agvs \ {a} :
           /\ plan'[b] = plan[b] /\ pending'[b] = pending[b]
           /\ state'[b] = state[b] /\ purpose'[b] = purpose[b]
  BY <1>2, <1>4, <1>5, IdleProceeds
<1>7. \A b \in Agvs \ {a} : Untouched(b)
  BY <1>2, <1>4, <1>6 DEF Untouched
<1>8. \A b \in Agvs : Proceeds(b)
  BY <1>2, <1>6, <1>7, UntouchedProceeds DEF TInv
<1>9. QED
  BY <1>2, <1>8, NoTicketProgress

LEMMA DropCompletedProgress ==
  ASSUME TInv, DropCompleted PROVE Progress
<1>1. PICK a : a = Now.agv
  OBVIOUS
<1>2. /\ Take("DROP_COMPLETED") /\ OnRobotIdle(a) /\ queue' = queue /\ tickets' = tickets
      /\ stranded' = stranded /\ cur' = cur /\ laden' = laden
  BY <1>1 DEF DropCompleted, Take
<1>3. "DROP_COMPLETED" \in NewsTypes
  BY DEF NewsTypes, EventTypes
<1>4. /\ a \in Agvs /\ News(a, "DROP_COMPLETED") /\ Quiet(a)'
      /\ \A b \in Agvs \ {a}, t \in NewsTypes : News(b, t)' <=> News(b, t)
  BY <1>1, <1>2, <1>3, NewsTaken DEF TInv
<1>5. a \notin stranded => Idle(a) /\ ~laden[a] /\ cur[a] \in Drops
  BY <1>3, <1>4, ReportedIsIdle DEF TInv, Idle
<1>6. /\ Proceeds(a)
      /\ \A b \in Agvs \ {a} :
           /\ plan'[b] = plan[b] /\ pending'[b] = pending[b]
           /\ state'[b] = state[b] /\ purpose'[b] = purpose[b]
  BY <1>2, <1>4, <1>5, IdleProceeds
<1>7. \A b \in Agvs \ {a} : Untouched(b)
  BY <1>2, <1>4, <1>6 DEF Untouched
<1>8. \A b \in Agvs : Proceeds(b)
  BY <1>2, <1>6, <1>7, UntouchedProceeds DEF TInv
<1>9. QED
  BY <1>2, <1>8, NoTicketProgress

LEMMA PickupCompletedProgress ==
  ASSUME TInv, PickupCompleted PROVE Progress
<1>1. PICK a : a = Now.agv
  OBVIOUS
<1>2. /\ Take("PICKUP_COMPLETED") /\ OnRobotLoadCompleted(a, tickets) /\ queue' = queue
      /\ cur' = cur /\ laden' = laden
  BY <1>1 DEF PickupCompleted, Take
<1>3. "PICKUP_COMPLETED" \in NewsTypes
  BY DEF NewsTypes, EventTypes
<1>4. /\ a \in Agvs /\ News(a, "PICKUP_COMPLETED") /\ Quiet(a)'
      /\ \A b \in Agvs \ {a}, t \in NewsTypes : News(b, t)' <=> News(b, t)
  BY <1>1, <1>2, <1>3, NewsTaken DEF TInv
<1>5. a \notin stranded => Idle(a) /\ laden[a] /\ cur[a] \in Loads
  BY <1>3, <1>4, ReportedIsIdle DEF TInv, Idle
<1>6. tickets \in Seq(Agvs) /\ \A i \in 1..Len(tickets) : tickets[i] \in stranded
  BY DEF TInv, MInv, IInv, TypeOK, OneTurn
<1>7. /\ Proceeds(a)
      /\ \A b \in Agvs \ {a} :
           /\ plan'[b] = plan[b] /\ pending'[b] = pending[b]
           /\ state'[b] = state[b] /\ purpose'[b] = purpose[b]
           /\ b \in stranded' <=> b \in stranded
      /\ stranded \subseteq stranded'
      /\ \A i \in 1..Len(tickets') : tickets'[i] \in stranded'
  BY <1>2, <1>4, <1>5, <1>6, LoadCompletedProceeds
<1>8. \A b \in Agvs \ {a} : Untouched(b)
  BY <1>2, <1>4, <1>7 DEF Untouched
<1>9. \A b \in Agvs : Proceeds(b)
  BY <1>7, <1>8, UntouchedProceeds DEF TInv
<1>10. QED
  BY <1>7, <1>9 DEF Progress

(* The AGV that is called up has had a ticket.                             *)
LEMMA ProcessNextDispatchProgress ==
  ASSUME TInv, ProcessNextDispatch PROVE Progress
<1>1. PICK a : a = Head(tickets)
  OBVIOUS
<1>2. /\ wakes > 0 /\ OnRobotLoadCompleted(a, Tail(tickets)) /\ queue' = queue
      /\ events' = events /\ cur' = cur /\ laden' = laden
  BY <1>1 DEF ProcessNextDispatch
<1>3. /\ tickets \in Seq(Agvs) /\ \A i \in 1..Len(tickets) : tickets[i] \in stranded
      /\ wakes \in 0..Len(tickets)
  BY DEF TInv, MInv, IInv, TypeOK, OneTurn
<1>4. tickets # <<>>
  BY <1>2, <1>3
<1>5. /\ Tail(tickets) \in Seq(Agvs) /\ a \in Agvs /\ a \in stranded
      /\ \A i \in 1..Len(Tail(tickets)) : Tail(tickets)[i] \in stranded
  <2>1. /\ Tail(tickets) \in Seq(Agvs) /\ Len(tickets) >= 1 /\ Len(tickets) \in Nat
        /\ a = tickets[1] /\ tickets[1] \in Agvs
        /\ \A i \in 1..Len(Tail(tickets)) :
             i + 1 \in 1..Len(tickets) /\ Tail(tickets)[i] = tickets[i + 1]
    BY <1>1, <1>3, <1>4, SeqTail
  <2>2. 1 \in 1..Len(tickets)
    BY <2>1
  <2>3. QED
    BY <1>3, <2>1, <2>2
<1>6. /\ Proceeds(a)
      /\ \A b \in Agvs \ {a} :
           /\ plan'[b] = plan[b] /\ pending'[b] = pending[b]
           /\ state'[b] = state[b] /\ purpose'[b] = purpose[b]
           /\ b \in stranded' <=> b \in stranded
      /\ stranded \subseteq stranded'
      /\ \A i \in 1..Len(tickets') : tickets'[i] \in stranded'
  BY <1>2, <1>5, LoadCompletedProceeds
<1>7. \A b \in Agvs \ {a} : Untouched(b)
  BY <1>2, <1>6 DEF Untouched, News
<1>8. \A b \in Agvs : Proceeds(b)
  BY <1>6, <1>7, UntouchedProceeds DEF TInv
<1>9. QED
  BY <1>6, <1>8 DEF Progress

(* Steps at which no AGV is touched: a lost arrival, the arrivals of the   *)
(* robots, the look at the timers of the failed routes.                    *)
LEMMA QuietProgress ==
  ASSUME TInv, IgnoreArrival \/ Collect \/ Update \/ UNCHANGED vars PROVE Progress
<1>1. /\ tickets' = tickets /\ stranded' = stranded /\ plan' = plan /\ pending' = pending
      /\ state' = state /\ purpose' = purpose /\ cur' = cur /\ laden' = laden
  BY DEF IgnoreArrival, Collect, Update, vars, Take, missionVars, roboVars, routeVars
<1>2. \A b, t : t \in NewsTypes => (News(b, t)' <=> News(b, t))
  <2>1. CASE IgnoreArrival
    <3>1. Take("NODE_ARRIVED") /\ queue' = queue
      BY <2>1 DEF IgnoreArrival
    <3>2. QED
      BY <3>1, NoNewsTaken DEF TInv
  <2>2. CASE Collect
    <3>1. PICK arrived \in SUBSET {a \in Agvs : ride[a] # <<>>} :
            \E order \in SetToSeqs(arrived) :
              events' = queue \o [i \in DOMAIN order |->
                          Event("NODE_ARRIVED", order[i], Head(ride[order[i]]))]
      BY <2>2 DEF Collect
    <3>2. PICK order \in SetToSeqs(arrived) :
            events' = queue \o [i \in DOMAIN order |->
                        Event("NODE_ARRIVED", order[i], Head(ride[order[i]]))]
      BY <3>1
    <3> DEFINE u == [i \in DOMAIN order |->
                       Event("NODE_ARRIVED", order[i], Head(ride[order[i]]))]
    <3>3. /\ DOMAIN order = 1..Len(order) /\ Len(order) \in Nat /\ order \in Seq(arrived)
      <4>1. IsFiniteSet(arrived)
        BY FleetAssumption, FS_Subset
      <4>2. QED
        BY <4>1, OrderIsInjective
    <3>4. ASSUME NEW i \in DOMAIN order
          PROVE  u[i] \in Events /\ u[i].type \notin NewsTypes
      <4>1. order[i] \in Agvs /\ ride[order[i]] \in Seq(Nodes) /\ ride[order[i]] # <<>>
        BY <3>3 DEF TInv, MInv, IInv, TypeOK
      <4>2. Head(ride[order[i]]) \in Nodes
        BY <4>1
      <4>3. QED
        BY <4>1, <4>2 DEF Event, Events, NewsTypes
    <3>5. u \in Seq(Events) /\ \A i \in 1..Len(u) : u[i].type \notin NewsTypes
      BY <3>3, <3>4
    <3>6. events' = queue \o u
      BY <3>2
    <3> HIDE DEF u
    <3>7. queue' = <<>> /\ events = <<>> /\ queue \in Seq(Events)
      BY <2>2 DEF Collect, TInv, MInv, Mail, IInv, TypeOK
    <3>8. \A b, t : t \in NewsTypes => ~Says(u, b, t)
      BY <3>5 DEF Says
    <3>9. QED
      BY <3>5, <3>6, <3>7, <3>8, SaysConcat, SaysNothing DEF News
  <2>3. CASE Update \/ UNCHANGED vars
    BY <2>3 DEF Update, vars, News
  <2>4. QED
    BY <2>1, <2>2, <2>3
<1>3. \A b \in Agvs : Untouched(b)
  BY <1>1, <1>2 DEF Untouched
<1>4. QED
  BY <1>1, <1>3, UntouchedProceeds, NoTicketProgress DEF TInv

(* An arrival that counts: its AGV rides, on the plan that is in force.    *)
LEMMA RiderArrives ==
  ASSUME TInv, StepCompleted, NEW a, a = Now.agv
  PROVE  /\ Take("NODE_ARRIVED") /\ a \in Agvs /\ plan[a] \in Plans
         /\ a \notin stranded => Riding(a) /\ job[a] = Bound(plan[a].purpose)
         /\ RouteTypes /\ queue \in Seq(Events) /\ cur' = [cur EXCEPT ![a] = Now.node]
         /\ cur \in [Agvs -> Nodes] /\ Now.node \in Nodes
         /\ tickets' = tickets /\ stranded' = stranded /\ laden' = laden
<1>1. Take("NODE_ARRIVED") /\ plan[a] # NONE /\ tickets' = tickets /\ stranded' = stranded
      /\ laden' = laden /\ cur' = [cur EXCEPT ![a] = Now.node]
  BY DEF StepCompleted, Take, missionVars
<1>2. RouteTypes /\ queue \in Seq(Events) /\ cur \in [Agvs -> Nodes]
  BY TypesTogether DEF TInv, MInv, IInv, QueueTypes, FrameTypes
<1>3. a \in Agvs /\ Now.node \in Nodes
  BY <1>1, TakeKeeps DEF TInv, MInv
<1>4. plan[a] \in Plans
  BY <1>1, <1>2, <1>3 DEF RouteTypes
<1>5. a \notin stranded => Riding(a)
  BY <1>1, <1>3 DEF TInv, OneTurn, Turn, Waiting, AtWork, Idle
<1>6. QED
  BY <1>1, <1>2, <1>3, <1>4, <1>5, JobIsByTurn DEF JobByTurn

LEMMA StepOnProgress ==
  ASSUME TInv, StepOn PROVE Progress
<1>1. PICK a : a = Now.agv
  OBVIOUS
<1>2. StepCompleted
  BY DEF StepOn
<1>3. /\ Take("NODE_ARRIVED") /\ a \in Agvs /\ plan[a] \in Plans
      /\ a \notin stranded => Riding(a) /\ job[a] = Bound(plan[a].purpose)
      /\ RouteTypes /\ cur' = [cur EXCEPT ![a] = Now.node]
      /\ cur \in [Agvs -> Nodes]
      /\ tickets' = tickets /\ stranded' = stranded /\ laden' = laden
  BY <1>1, <1>2, RiderArrives
<1>4. /\ plan' = [plan EXCEPT ![a] = [plan[a] EXCEPT !.rest = Tail(plan[a].rest)]]
      /\ state' = [state EXCEPT ![a] = "MOVING"]
      /\ queue' = queue /\ purpose' = purpose /\ pending' = pending
  BY <1>1 DEF StepOn
<1>5. \A b, t : t \in NewsTypes => (News(b, t)' <=> News(b, t))
  BY <1>3, <1>4, NoNewsTaken DEF TInv
<1>6. \A b \in Agvs \ {a} : Untouched(b)
  BY <1>3, <1>4, <1>5 DEF Untouched, RouteTypes
<1>7. plan'[a] # NONE /\ plan'[a].target = plan[a].target /\ plan'[a].purpose = plan[a].purpose
  <2> DEFINE p == plan[a]
             q == [p EXCEPT !.rest = Tail(p.rest)]
  <2>1. p.rest \in Seq(Nodes) /\ p.rest # <<>> /\ ~PlanExhausted(p)
    BY <1>1, <1>3 DEF StepOn, Plans, TInv, MInv, IInv, InStep, PlansGoOn, StepCompleted
  <2>2. plan'[a] = q
    BY <1>3, <1>4 DEF RouteTypes
  <2>3. p \in Plans
    BY <1>3
  <2> HIDE DEF p
  <2>4. q.target = p.target /\ q.purpose = p.purpose /\ q \in Plans
    BY <2>1, <2>3, TailGoesOn DEF Plans, PlanExhausted
  <2>5. QED
    BY <2>2, <2>4, NoneAssumption DEF p
<1>8. ASSUME a \notin stranded
      PROVE  Turn(a)' /\ job'[a] = job[a]
  <2>1. Riding(a) /\ job[a] = Bound(plan[a].purpose)
    BY <1>3, <1>8
  <2>2. Quiet(a)'
    BY <1>5, <2>1 DEF Riding, Quiet
  <2>3. state'[a] = "MOVING" /\ pending'[a] = NONE /\ purpose'[a] = purpose[a]
    BY <1>3, <1>4, <2>1 DEF RouteTypes, Riding
  <2>4. Riding(a)'
    BY <1>3, <1>7, <2>1, <2>2, <2>3 DEF Riding, Errand
  <2>5. QED
    BY <1>3, <1>7, <1>8, <2>1, <2>4, JobIsByTurnAfter DEF JobByTurn, Turn
<1>9. \A b \in Agvs : Proceeds(b)
  BY <1>3, <1>6, <1>8, UntouchedProceeds DEF TInv, Proceeds, Goes
<1>10. QED
  BY <1>3, <1>9, NoTicketProgress

LEMMA ReachTargetProgress ==
  ASSUME TInv, ReachTarget PROVE Progress
<1>1. PICK a : a = Now.agv
  OBVIOUS
<1>2. StepCompleted
  BY DEF ReachTarget
<1>3. /\ Take("NODE_ARRIVED") /\ a \in Agvs /\ plan[a] \in Plans
      /\ a \notin stranded => Riding(a) /\ job[a] = Bound(plan[a].purpose)
      /\ RouteTypes /\ queue \in Seq(Events) /\ cur' = [cur EXCEPT ![a] = Now.node]
      /\ cur \in [Agvs -> Nodes] /\ Now.node \in Nodes
      /\ tickets' = tickets /\ stranded' = stranded /\ laden' = laden
  BY <1>1, <1>2, RiderArrives
<1> DEFINE e == Event("IDLE_READY", a, Now.node)
<1>4. /\ plan' = [plan EXCEPT ![a] = NONE] /\ purpose' = purpose /\ pending' = pending
      /\ Now.node = plan[a].target
      /\ \/ /\ purpose[a] = "PICKUP" /\ state' = [state EXCEPT ![a] = "LOADING"]
            /\ queue' = queue
         \/ /\ purpose[a] = "DROP" /\ state' = [state EXCEPT ![a] = "UNLOADING"]
            /\ queue' = queue
         \/ /\ purpose[a] = "HOME" /\ state' = [state EXCEPT ![a] = "IDLE"]
            /\ queue' = queue \o <<e>>
  <2>1. queue \o <<e>> = Append(queue, e)
    BY <1>3
  <2>2. QED
    BY <1>1, <2>1 DEF ReachTarget, Publish
<1>5. \A b, t : t \in NewsTypes =>
        /\ News(b, t) <=> Says(queue, b, t)
        /\ News(b, t)' <=> Says(queue', b, t)
  BY <1>3, NoNewsTaken DEF TInv
<1>6. \A b, t : Says(queue \o <<e>>, b, t) <=> Says(queue, b, t) \/ (b = a /\ t = "IDLE_READY")
  <2>1. e \in Events
    BY <1>3 DEF Event, Events, EventTypes
  <2>2. e.agv = a /\ e.type = "IDLE_READY"
    BY DEF Event
  <2> HIDE DEF e
  <2>3. \A b, t : Says(<<e>>, b, t) <=> (b = a /\ t = "IDLE_READY")
    BY <2>2 DEF Says
  <2>4. <<e>> \in Seq(Events)
    BY <2>1
  <2>5. QED
    BY <1>3, <2>3, <2>4, SaysConcat
<1> HIDE DEF e
<1>7. \A b \in Agvs \ {a}, t \in NewsTypes : News(b, t)' <=> News(b, t)
  BY <1>4, <1>5, <1>6
<1>8. \A b \in Agvs \ {a} : Untouched(b)
  BY <1>3, <1>4, <1>7 DEF Untouched, RouteTypes
<1>9. ASSUME a \notin stranded
      PROVE  Turn(a)' /\ job'[a] = job[a]
  <2>1. /\ Riding(a) /\ job[a] = Bound(plan[a].purpose) /\ a \notin stranded'
        /\ \A t \in NewsTypes : ~Says(queue, a, t)
    BY <1>3, <1>5, <1>9 DEF Riding, Quiet
  <2>2. /\ plan'[a] = NONE /\ pending'[a] = NONE /\ cur'[a] = plan[a].target
        /\ plan[a].purpose = purpose[a] /\ laden'[a] = laden[a]
        /\ Errand(a, plan[a].target, purpose[a])
    BY <1>3, <1>4, <2>1 DEF RouteTypes, Riding
  <2>3. CASE purpose[a] = "PICKUP"
    <3>1. state'[a] = "LOADING" /\ queue' = queue
      BY <1>3, <1>4, <2>3 DEF RouteTypes
    <3>2. Quiet(a)'
      BY <1>5, <2>1, <3>1 DEF Quiet
    <3>3. ~laden[a] /\ plan[a].target \in Loads
      BY <2>2, <2>3 DEF Errand
    <3>4. AtWork(a)'
      BY <2>2, <3>1, <3>2, <3>3 DEF AtWork
    <3>5. QED
      BY <1>3, <2>1, <2>2, <2>3, <3>3, <3>4, JobIsByTurnAfter DEF JobByTurn, Bound, Turn
  <2>4. CASE purpose[a] = "DROP"
    <3>1. state'[a] = "UNLOADING" /\ queue' = queue
      BY <1>3, <1>4, <2>4 DEF RouteTypes
    <3>2. Quiet(a)'
      BY <1>5, <2>1, <3>1 DEF Quiet
    <3>3. laden[a] /\ plan[a].target \in Drops
      BY <2>2, <2>4 DEF Errand
    <3>4. AtWork(a)'
      BY <2>2, <3>1, <3>2, <3>3 DEF AtWork
    <3>5. QED
      BY <1>3, <2>1, <2>2, <2>4, <3>3, <3>4, JobIsByTurnAfter DEF JobByTurn, Bound, Turn
  <2>5. CASE purpose[a] = "HOME"
    <3>1. state'[a] = "IDLE" /\ queue' = queue \o <<e>>
      BY <1>3, <1>4, <2>5 DEF RouteTypes
    <3>2. /\ ~News(a, "PICKUP_COMPLETED")' /\ ~News(a, "DROP_COMPLETED")'
          /\ News(a, "IDLE_READY")' /\ ~Quiet(a)'
      BY <1>5, <1>6, <2>1, <3>1 DEF NewsTypes, EventTypes, Quiet
    <3>3. ~laden[a] /\ plan[a].target = HomeNode
      BY <2>2, <2>5 DEF Errand
    <3>4. Idle(a)'
      BY <2>2, <3>1, <3>2, <3>3 DEF Idle
    <3>5. QED
      BY <1>3, <2>1, <2>2, <2>5, <3>3, <3>4, JobIsByTurnAfter DEF JobByTurn, Bound, Turn
  <2>6. QED
    BY <2>2, <2>3, <2>4, <2>5 DEF Errand
<1>10. \A b \in Agvs : Proceeds(b)
  BY <1>3, <1>8, <1>9, UntouchedProceeds DEF TInv, Proceeds, Goes
<1>11. QED
  BY <1>3, <1>10, NoTicketProgress

LEMMA ReachWindowEndProgress ==
  ASSUME TInv, ReachWindowEnd PROVE Progress
<1>1. PICK a : a = Now.agv
  OBVIOUS
<1>2. StepCompleted
  BY DEF ReachWindowEnd
<1>3. /\ Take("NODE_ARRIVED") /\ a \in Agvs /\ plan[a] \in Plans
      /\ a \notin stranded => Riding(a) /\ job[a] = Bound(plan[a].purpose)
      /\ RouteTypes /\ cur' = [cur EXCEPT ![a] = Now.node]
      /\ cur \in [Agvs -> Nodes]
      /\ tickets' = tickets /\ stranded' = stranded /\ laden' = laden
  BY <1>1, <1>2, RiderArrives
<1>4. /\ Now.node # plan[a].target
      /\ CreateRoute(a, Now.node, plan[a].target, plan[a].purpose, [plan EXCEPT ![a] = NONE])
      /\ queue' = queue
  BY <1>1 DEF ReachWindowEnd
<1>5. PICK from, target, why : from = Now.node /\ target = plan[a].target /\ why = plan[a].purpose
  OBVIOUS
<1>6. \A b, t : t \in NewsTypes => (News(b, t)' <=> News(b, t))
  BY <1>3, <1>4, NoNewsTaken DEF TInv
<1>7. \A b \in Agvs \ {a} : Untouched(b)
  <2>1. \A b \in Agvs \ {a} :
          /\ plan'[b] = plan[b] /\ pending'[b] = pending[b]
          /\ state'[b] = state[b] /\ purpose'[b] = purpose[b]
    BY <1>3, <1>4, RouteOfOne
  <2>2. QED
    BY <1>3, <1>6, <2>1 DEF Untouched
<1>8. ASSUME a \notin stranded
      PROVE  Turn(a)' /\ job'[a] = job[a]
  <2>1. Riding(a) /\ job[a] = Bound(why)
    BY <1>3, <1>5, <1>8
  <2>2. Quiet(a)' /\ Errand(a, target, why)
    BY <1>5, <1>6, <2>1 DEF Riding, Quiet
  <2>3. target \in Targets /\ why \in Purposes
    BY <1>3, <1>5 DEF Plans
  <2>4. /\ CreateRoute(a, from, target, why, [plan EXCEPT ![a] = NONE])
        /\ from # target /\ cur'[a] = from /\ laden'[a] = laden[a]
    BY <1>3, <1>4, <1>5
  <2>5. \/ Riding(a)' /\ plan'[a].purpose = why
        \/ Waiting(a)' /\ pending'[a].purpose = why
    BY <1>3, <2>2, <2>3, <2>4, RouteTurn
  <2>6. QED
    BY <1>3, <1>8, <2>1, <2>5, JobIsByTurnAfter DEF JobByTurn, Turn
<1>9. \A b \in Agvs : Proceeds(b)
  BY <1>3, <1>7, <1>8, UntouchedProceeds DEF TInv, Proceeds, Goes
<1>10. QED
  BY <1>3, <1>9, NoTicketProgress

LEMMA RetryProgress ==
  ASSUME TInv, NEW a \in Agvs, Retry(a) PROVE Progress
<1>1. PICK target, why : target = pending[a].target /\ why = pending[a].purpose
  OBVIOUS
<1>2. /\ CreateRoute(a, cur[a], target, why, plan) /\ queue' = queue /\ events' = events
      /\ tickets' = tickets /\ stranded' = stranded /\ cur' = cur /\ laden' = laden
      /\ pending[a] # NONE
  BY <1>1 DEF Retry, missionVars, TInv, MInv, Phases
<1>3. RouteTypes
  BY TypesTogether DEF TInv, MInv, IInv
<1>4. \A b, t : News(b, t)' <=> News(b, t)
  BY <1>2 DEF News
<1>5. \A b \in Agvs \ {a} : Untouched(b)
  <2>1. \A b \in Agvs \ {a} :
          /\ plan'[b] = plan[b] /\ pending'[b] = pending[b]
          /\ state'[b] = state[b] /\ purpose'[b] = purpose[b]
    BY <1>2, <1>3, RouteOfOne
  <2>2. QED
    BY <1>2, <1>4, <2>1 DEF Untouched
<1>6. ASSUME a \notin stranded
      PROVE  Turn(a)' /\ job'[a] = job[a]
  <2>1. Waiting(a)
    BY <1>2, <1>6 DEF TInv, OneTurn, Turn, Riding, AtWork, Idle
  <2>2. Quiet(a)' /\ Errand(a, target, why) /\ cur[a] # target /\ plan[a] = NONE
    BY <1>1, <1>4, <2>1 DEF Waiting, Quiet
  <2>3. target \in Targets /\ why \in Purposes
    BY <1>1, <1>2, <1>3 DEF RouteTypes, Retries
  <2>4. \/ Riding(a)' /\ plan'[a].purpose = why
        \/ Waiting(a)' /\ pending'[a].purpose = why
    BY <1>2, <1>3, <2>2, <2>3, RouteTurn
  <2>5. job[a] = Bound(why)
    BY <1>1, <1>6, <2>1, JobIsByTurn DEF JobByTurn
  <2>6. QED
    BY <1>2, <1>6, <2>4, <2>5, JobIsByTurnAfter DEF JobByTurn, Turn
<1>7. \A b \in Agvs : Proceeds(b)
  BY <1>2, <1>5, <1>6, UntouchedProceeds DEF TInv, Proceeds, Goes
<1>8. QED
  BY <1>2, <1>7, NoTicketProgress

LEMMA UpdateWorkTimersProgress ==
  ASSUME TInv, UpdateWorkTimers PROVE Progress
<1>1. PICK done \in SUBSET {a \in Agvs : working[a]} :
        LET ready == {a \in done : Works(a)} IN
        /\ state' = [a \in Agvs |-> IF a \in ready THEN "IDLE" ELSE state[a]]
        /\ laden' = [a \in Agvs |-> IF a \in ready THEN state[a] = "LOADING" ELSE laden[a]]
        /\ \E order \in SetToSeqs(ready) :
             queue' = queue \o [i \in DOMAIN order |-> Completed(order[i])]
  BY DEF UpdateWorkTimers
<1> DEFINE ready == {a \in done : Works(a)}
<1>2. PICK order \in SetToSeqs(ready) :
        queue' = queue \o [i \in DOMAIN order |-> Completed(order[i])]
  BY <1>1
<1> DEFINE u == [i \in DOMAIN order |-> Completed(order[i])]
<1>3. /\ ready \in SUBSET Agvs /\ \A a \in ready : Works(a)
      /\ \A a \in ready : state'[a] = "IDLE" /\ laden'[a] = (state[a] = "LOADING")
      /\ \A a \in Agvs \ ready : state'[a] = state[a] /\ laden'[a] = laden[a]
  BY <1>1
<1> HIDE DEF ready
<1>4. /\ DOMAIN order = 1..Len(order) /\ Len(order) \in Nat /\ order \in Seq(ready)
      /\ \A a \in ready : \E i \in 1..Len(order) : order[i] = a
  <2>1. IsFiniteSet(ready)
    BY <1>3, FleetAssumption, FS_Subset
  <2>2. /\ DOMAIN order = 1..Len(order) /\ Len(order) \in Nat /\ order \in Seq(ready)
        /\ \A i, j \in 1..Len(order) : order[i] = order[j] => i = j
    BY <2>1, OrderIsInjective
  <2>3. QED
    BY <2>1, <2>2, OrderIsOnto
<1>5. \A i \in DOMAIN order : order[i] \in ready /\ order[i] \in Agvs
  BY <1>3, <1>4
<1>6. \A i \in DOMAIN order :
        /\ u[i] \in Events /\ u[i].agv = order[i]
        /\ u[i].type = IF state[order[i]] = "LOADING" THEN "PICKUP_COMPLETED" ELSE "DROP_COMPLETED"
  BY <1>5 DEF Completed, Event, Events, EventTypes
<1>7. u \in Seq(Events) /\ Len(u) = Len(order)
  BY <1>4, <1>6
<1>8. queue' = queue \o u
  BY <1>2
<1>9. \A b, t : Says(u, b, t) <=>
        /\ b \in ready
        /\ t = IF state[b] = "LOADING" THEN "PICKUP_COMPLETED" ELSE "DROP_COMPLETED"
  <2> HIDE DEF u
  <2>1. \A b, t : Says(u, b, t) =>
          /\ b \in ready
          /\ t = IF state[b] = "LOADING" THEN "PICKUP_COMPLETED" ELSE "DROP_COMPLETED"
    BY <1>4, <1>5, <1>6, <1>7 DEF Says
  <2>2. \A b \in ready :
          Says(u, b, IF state[b] = "LOADING" THEN "PICKUP_COMPLETED" ELSE "DROP_COMPLETED")
    BY <1>4, <1>6, <1>7 DEF Says
  <2>3. QED
    BY <2>1, <2>2
<1> HIDE DEF u
<1>10. /\ queue \in Seq(Events) /\ events' = events /\ tickets' = tickets
       /\ stranded' = stranded /\ plan' = plan /\ pending' = pending
       /\ purpose' = purpose /\ cur' = cur
  BY DEF UpdateWorkTimers, missionVars, routeVars, TInv, MInv, IInv, TypeOK
<1>11. \A b, t : News(b, t)' <=> News(b, t) \/ Says(u, b, t)
  <2>1. \A b, t : Says(queue', b, t) <=> Says(queue, b, t) \/ Says(u, b, t)
    BY <1>7, <1>8, <1>10, SaysConcat
  <2>2. QED
    BY <1>10, <2>1 DEF News
<1>12. \A b \in Agvs \ ready : Untouched(b)
  BY <1>3, <1>9, <1>10, <1>11 DEF Untouched
<1>13. ASSUME NEW a \in ready, a \notin stranded
       PROVE  Turn(a)' /\ Goes(job[a], job'[a])
  <2>1. /\ a \in Agvs /\ Works(a) /\ AtWork(a) /\ a \notin stranded'
        /\ plan'[a] = NONE /\ pending'[a] = NONE /\ state'[a] = "IDLE" /\ cur'[a] = cur[a]
    BY <1>3, <1>10, <1>13
       DEF TInv, OneTurn, Turn, Riding, Waiting, Idle, AtWork, Works
  <2>2. job[a] = IF laden[a] THEN "delivering" ELSE "fetching"
    BY <1>13, <2>1, JobIsByTurn DEF JobByTurn
  <2>3. \A t \in NewsTypes : News(a, t)' <=> Says(u, a, t)
    BY <1>11, <2>1 DEF AtWork, Quiet
  <2>4. {"IDLE_READY", "PICKUP_COMPLETED", "DROP_COMPLETED"} \subseteq NewsTypes
    BY DEF NewsTypes, EventTypes
  <2>5. CASE state[a] = "LOADING"
    <3>1. ~laden[a] /\ cur[a] \in Loads /\ laden'[a]
      BY <1>3, <1>13, <2>1, <2>5 DEF AtWork
    <3>2. /\ News(a, "PICKUP_COMPLETED")' /\ ~News(a, "DROP_COMPLETED")'
          /\ ~News(a, "IDLE_READY")' /\ ~Quiet(a)'
      BY <1>9, <1>13, <2>3, <2>4, <2>5 DEF Quiet
    <3>3. Idle(a)'
      BY <2>1, <3>1, <3>2 DEF Idle
    <3>4. job'[a] = "laden"
      BY <2>1, <3>1, <3>3, JobIsByTurnAfter DEF JobByTurn
    <3>5. QED
      BY <2>2, <3>1, <3>3, <3>4 DEF Turn, Goes, Jobs!After
  <2>6. CASE state[a] # "LOADING"
    <3>1. laden[a] /\ cur[a] \in Drops /\ ~laden'[a]
      BY <1>3, <1>13, <2>1, <2>6 DEF AtWork
    <3>2. /\ ~News(a, "PICKUP_COMPLETED")' /\ News(a, "DROP_COMPLETED")'
          /\ ~News(a, "IDLE_READY")' /\ ~Quiet(a)'
      BY <1>9, <1>13, <2>3, <2>4, <2>6 DEF Quiet
    <3>3. Idle(a)'
      BY <2>1, <3>1, <3>2 DEF Idle
    <3>4. job'[a] = "empty"
      BY <2>1, <3>1, <3>3, JobIsByTurnAfter DEF JobByTurn
    <3>5. QED
      BY <2>2, <3>1, <3>3, <3>4 DEF Turn, Goes, Jobs!After
  <2>7. QED
    BY <2>5, <2>6
<1>14. \A b \in Agvs : Proceeds(b)
  BY <1>10, <1>12, <1>13, UntouchedProceeds DEF TInv, Proceeds
<1>15. QED
  BY <1>10, <1>14, NoTicketProgress

-----------------------------------------------------------------------------
LEMMA NextProgress == TInv /\ [Next]_vars => Progress
<1> SUFFICES ASSUME TInv, [Next]_vars PROVE Progress
  OBVIOUS
<1>1. QED
  BY IdleReadyProgress, DropCompletedProgress, PickupCompletedProgress,
     ProcessNextDispatchProgress, QuietProgress, StepOnProgress, ReachTargetProgress,
     ReachWindowEndProgress, RetryProgress, UpdateWorkTimersProgress DEF Next

LEMMA TurnInit == Init => OneTurn
<1> SUFFICES ASSUME Init PROVE OneTurn
  OBVIOUS
<1> DEFINE ready(a) == Event("IDLE_READY", a, NONE)
           S == {ready(a) : a \in Agvs}
<1>1. IsFiniteSet(S)
  <2> DEFINE f == [a \in Agvs |-> ready(a)]
  <2>1. f \in Surjection(Agvs, S)
    BY DEF Surjection
  <2> HIDE DEF f, S
  <2>2. QED
    BY <2>1, FleetAssumption, FS_Surjection
<1>2. queue \in SetToSeqs(S)
  BY DEF Init
<1>3. \A e \in S : e.type = "IDLE_READY"
  BY DEF Event
<1>4. \A a \in Agvs : ready(a) \in S /\ ready(a).agv = a /\ ready(a).type = "IDLE_READY"
  BY DEF Event
<1> HIDE DEF S, ready
<1>5. queue \in Seq(S) /\ Len(queue) \in Nat /\ \A e \in S : \E i \in 1..Len(queue) : queue[i] = e
  BY <1>1, <1>2, OrderIsInjective, OrderIsOnto
<1>6. ASSUME NEW a \in Agvs
      PROVE  Idle(a)
  <2>1. News(a, "IDLE_READY")
    BY <1>4, <1>5 DEF News, Says
  <2>2. ~News(a, "PICKUP_COMPLETED") /\ ~News(a, "DROP_COMPLETED")
    <3>1. \A i \in 1..Len(queue) : queue[i].type = "IDLE_READY"
      BY <1>3, <1>5
    <3>2. ~Says(queue, a, "PICKUP_COMPLETED") /\ ~Says(queue, a, "DROP_COMPLETED")
      BY <3>1 DEF Says
    <3>3. QED
      BY <3>2, SaysNothing DEF News, Init
  <2>3. ~Quiet(a)
    BY <2>1 DEF Quiet, NewsTypes, EventTypes
  <2>4. QED
    BY <2>1, <2>2, <2>3 DEF Init, Idle
<1>7. QED
  BY <1>6 DEF OneTurn, Turn, Init

(* The turn of an AGV that always found a drop node is at one place.       *)
THEOREM TurnInvariant == Spec => []TInv
<1>1. Init => TInv
  BY InitIInv, InitPhases, MailInit, TurnInit DEF TInv, MInv
<1>2. TInv /\ [Next]_vars => TInv'
  <2> SUFFICES ASSUME TInv, [Next]_vars PROVE TInv'
    OBVIOUS
  <2>1. MInv'
    BY NextIInv, NextPhases, MailNext DEF TInv, MInv
  <2>2. OneTurn'
    BY NextProgress DEF Progress, Proceeds, OneTurn
  <2>3. QED
    BY <2>1, <2>2 DEF TInv
<1>3. QED
  BY <1>1, <1>2, PTL DEF Spec

(* An AGV that always found a drop node is forgotten by the server only at *)
(* home.                                                                   *)
THEOREM OnlyForgottenAtHome == Spec => []ForgottenOnlyAtHome
<1>1. TInv => ForgottenOnlyAtHome
  <2> SUFFICES ASSUME TInv, NEW a \in Agvs \ stranded, ~Remembered(a)
               PROVE  cur[a] = HomeNode
    BY DEF ForgottenOnlyAtHome
  <2>1. Idle(a)
    BY DEF TInv, OneTurn, Turn, Riding, Waiting, AtWork, Remembered
  <2>2. Quiet(a)
    BY DEF Quiet, News, Says, Remembered, NewsTypes
  <2>3. QED
    BY <2>1, <2>2 DEF Idle
<1>2. QED
  BY <1>1, TurnInvariant, PTL

(* Every AGV goes through the cycle of fetching and delivering, whatever   *)
(* routes fail or are cut and however often an arrival is handled, until   *)
(* it finds no drop node for its load.                                     *)
THEOREM MissionsCycle == Spec => JobSpec
<1>1. Init => Jobs!Init
  <2> SUFFICES ASSUME Init PROVE Jobs!Init
    OBVIOUS
  <2>1. \A a \in Agvs : job[a] = "empty"
    BY DEF Init, job
  <2>2. job = [a \in Agvs |-> job[a]]
    BY DEF job
  <2>3. QED
    BY <2>1, <2>2 DEF Jobs!Init
<1>2. TInv /\ [Next]_vars => [Jobs!Next]_job
  <2> SUFFICES ASSUME TInv, [Next]_vars PROVE Jobs!Next
    OBVIOUS
  <2>1. \A a \in Agvs : Goes(job[a], job'[a])
    <3>1. \A a \in Agvs \ stranded : Goes(job[a], job'[a])
      BY NextProgress DEF Progress, Proceeds
    <3>2. ASSUME NEW a \in Agvs, a \in stranded
          PROVE  job[a] = "stranded" /\ job'[a] = "stranded"
      BY <3>2, NextProgress, JobIsByTurn, JobIsByTurnAfter DEF Progress, JobByTurn
    <3>3. QED
      BY <3>1, <3>2 DEF Goes
  <2>2. job' \in [Agvs -> DOMAIN Jobs!After]
    <3>1. \A a \in Agvs : job'[a] \in {"empty", "fetching", "laden", "delivering", "stranded"}
      BY DEF job
    <3>2. job' = [a \in Agvs |-> job'[a]]
      BY DEF job
    <3>3. DOMAIN Jobs!After = {"empty", "fetching", "laden", "delivering", "stranded"}
      BY DEF Jobs!After
    <3>4. QED
      BY <3>1, <3>2, <3>3
  <2>3. QED
    BY <2>1, <2>2 DEF Jobs!Next, Goes
<1>3. QED
  BY <1>1, <1>2, TurnInvariant, PTL DEF Spec, JobSpec, Jobs!Spec

=============================================================================
