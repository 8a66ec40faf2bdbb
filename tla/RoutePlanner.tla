---------------------------- MODULE RoutePlanner ----------------------------
(***************************************************************************)
(* RoutePlanner (Server/RoutePlanner.cpp) with the reservation ledger: how *)
(* time tables are booked, driven, prolonged at the end of the time window *)
(* and retried after a failure.                                            *)
(*                                                                         *)
(* One frame of UpdateWorld is: the clock advances ("events"), step events *)
(* and new requests are handled, then RoutePlanner::Update counts the      *)
(* retry timers down ("retry") and repeats the requests that are due.      *)
(* OnRobotStepCompleted was subscribed once for every READY_MAP, so a step *)
(* event may be handled several times, and then the plan is ahead of the   *)
(* robot, which drives by a copy of the time table.                        *)
(*                                                                         *)
(* PathFinder::FindPath is represented by its contract (Found); which of   *)
(* the admissible time tables it returns depends on its heuristic, and it  *)
(* may return none although there is one: see PathSearch.                  *)
(***************************************************************************)
EXTENDS PathContract

CONSTANTS
  Tables,     \* time tables over the map, starting at time 0
  Home,       \* the node each AGV is placed on
  NONE,
  Penalty,    \* REPLAN_PENALTY_TIME
  Grace,      \* the second by which a hold outlasts the penalty
  SpawnHold,  \* the end of the reservation made when an AGV is placed
  MaxTime,    \* bound: the clock stops here
  MaxRequests,\* bound: the requests of the task manager in a run
  MaxViewers  \* bound: the READY_MAPs of a run

(* Clearance 0.6 s, penalty 1 s, horizon 48 s.                             *)
ASSUME TimesAssumption ==
  /\ {Clearance, Window, Penalty, Grace, SpawnHold, MaxTime, MaxRequests,
      MaxViewers} \subseteq Nat
  /\ Penalty > 0 /\ Grace > 0 /\ MaxViewers > 0
  /\ Clearance + Penalty < Horizon /\ Clearance < SpawnHold
(* The code keeps nodes and edges in two maps.                             *)
ASSUME PlacesAssumption == Nodes \cap Edges = {}
ASSUME HomeAssumption == Home \in [Agvs -> Nodes]
ASSUME TablesAssumption == \A p \in Tables : Timely(p)

VARIABLES
  now,      \* m_TotalElapsedServerTime
  phase,    \* "events", then "retry"
  ledger,   \* the reservations
  curNode,  \* Robo::m_CurrentNodeID
  plan,     \* m_MasterPlans, NONE where there is no entry
  pending,  \* m_PendingRoutes: target and retryTimer of each AGV, or NONE
  due,      \* retryList of Update: the AGVs still to be retried in this frame
  drive,    \* UnityRobotController: time table and link of each AGV, or NONE
  stale,    \* the node that a letter from before a new route reports, or NONE
  inHand,   \* the event that SwapAndProcessEvents has popped, with the number
            \* of callbacks it has still to be given to, or NONE
  viewers,  \* READY_MAPs so far: each subscribes OnRobotStepCompleted again
  requests, \* how many requests the task manager has made so far
  rerouted, \* the AGVs that were given an order while a plan was in force
            \* (not in the code)
  adrift    \* the AGVs that ever lost their plan while they were driving
            \* (not in the code)

planVars == <<ledger, plan, pending>>
robotVars == <<drive, stale, inHand>>
history == <<requests, rerouted, adrift>>
vars == <<now, phase, planVars, curNode, due, robotVars, viewers, history>>

Plans == [table : Tables, from : Int, index : Nat \ {0}, target : Nodes]
Retries == [target : Nodes, timer : Int]
Drives == [table : Tables, from : Int, index : Nat \ {0}]
Calls == [agv : Agvs, node : Nodes, calls : Nat \ {0}]

ASSUME NoneAssumption == NONE \notin Plans \cup Retries \cup Drives \cup Nodes \cup Calls

TypeOK ==
  /\ now \in Nat
  /\ phase \in {"events", "retry"}
  /\ ledger \subseteq Entries
  /\ curNode \in [Agvs -> Nodes]
  /\ plan \in [Agvs -> Plans \cup {NONE}]
  /\ pending \in [Agvs -> Retries \cup {NONE}]
  /\ due \subseteq Agvs
  /\ drive \in [Agvs -> Drives \cup {NONE}]
  /\ stale \in [Agvs -> Nodes \cup {NONE}]
  /\ inHand \in Calls \cup {NONE}
  /\ viewers \in 1..MaxViewers
  /\ requests \in 0..MaxRequests
  /\ rerouted \subseteq Agvs
  /\ adrift \subseteq Agvs

Entry(at, a, start, end, type, checked) ==
  [at |-> at, agv |-> a, start |-> start, end |-> end, type |-> type,
   checked |-> checked]

(* HandleReadyMap_Packet: every AGV is placed with one long reservation,   *)
(* and the first frame is about to start.                                  *)
Init ==
  /\ now = 0
  /\ phase = "retry"
  /\ ledger = {Entry(Home[a], a, 0, SpawnHold, "Goal", FALSE) : a \in Agvs}
  /\ curNode = Home
  /\ plan = [a \in Agvs |-> NONE]
  /\ pending = [a \in Agvs |-> NONE]
  /\ due = {}
  /\ drive = [a \in Agvs |-> NONE]
  /\ stale = [a \in Agvs |-> NONE]
  /\ inHand = NONE
  /\ viewers = 1
  /\ requests = 0
  /\ rerouted = {}
  /\ adrift = {}

-----------------------------------------------------------------------------
(* Mutant: the last step of any table is held for long.                    *)
LeaveLast(p, i, t, target) ==
  IF i = Len(p) THEN Arr(p, i, t) + Horizon ELSE Dep(p, i, t) + Clearance

(* Until when step i keeps its node: the target for the long horizon.      *)
Leave(p, i, t, target) ==
  IF p[i].node = target THEN Arr(p, i, t) + Horizon ELSE Dep(p, i, t) + Clearance

(* TryReservePathTransaction.  FindPath lets every table start at the time *)
(* of the request, so the branch for an initial wait is never taken.       *)
PathFree(a, p, target, t) ==
  /\ \A i \in 1..Len(p) :
       IsFree(ledger, p[i].node, Arr(p, i, t), Leave(p, i, t, target), a)
  /\ \A i \in Links(p) :
       IsFree(ledger, LinkEdge(p, i), Dep(p, i, t), LinkLeave(p, i, t), a)

PathEntries(a, p, target, t) ==
  {Entry(p[i].node, a, Arr(p, i, t), Leave(p, i, t, target),
         IF p[i].node = target THEN "Goal" ELSE "Normal", TRUE) : i \in 1..Len(p)}
    \cup
  {Entry(LinkEdge(p, i), a, Dep(p, i, t), LinkLeave(p, i, t), "Normal", TRUE)
     : i \in Links(p)}

(* Mutant: the old bookings are given up after the new ones were written.  *)
TryReserveThenOverride(a, p, target, t) ==
  /\ PathFree(a, p, target, t)
  /\ ledger' = OverrideFutureReservations(
                  Reserve(ledger, PathEntries(a, p, target, t)), a, t + Clearance)

TryReservePathTransaction(a, p, target, t) ==
  /\ PathFree(a, p, target, t)
  /\ ledger' = Reserve(OverrideFutureReservations(ledger, a, t + Clearance),
                       PathEntries(a, p, target, t))

-----------------------------------------------------------------------------
(* CreateRoute for AGV a, which is on node "from", as of time t.  "plans"  *)
(* are the plans as the caller left them.                                  *)

AlreadyThere(a, from, target, t, plans) ==
  /\ from = target
  /\ ledger' = Reserve(OverrideFutureReservations(ledger, a, t + Clearance),
                       {Entry(from, a, t, t + Horizon, "Goal", FALSE)})
  /\ plan' = plans
  /\ pending' = [pending EXCEPT ![a] = NONE]
  /\ UNCHANGED drive

(* Mutant: the index starts before the start node.                         *)
RouteFoundAtZero(a, from, target, t, plans) ==
  /\ from # target
  /\ \E p \in Tables :
       /\ Found(ledger, a, p, from, target, t)
       /\ TryReservePathTransaction(a, p, target, t)
       /\ plan' = [plans EXCEPT ![a] =
                     [table |-> p, from |-> t, index |-> 0, target |-> target]]
       /\ drive' = [drive EXCEPT ![a] = [table |-> p, from |-> t, index |-> 1]]
  /\ pending' = [pending EXCEPT ![a] = NONE]

(* The robot is sent the table (FollowRoute) and starts over with it.      *)
RouteFound(a, from, target, t, plans) ==
  /\ from # target
  /\ \E p \in Tables :
       /\ Found(ledger, a, p, from, target, t)
       /\ TryReservePathTransaction(a, p, target, t)
       /\ plan' = [plans EXCEPT ![a] =
                     [table |-> p, from |-> t, index |-> 1, target |-> target]]
       /\ drive' = [drive EXCEPT ![a] = [table |-> p, from |-> t, index |-> 1]]
  /\ pending' = [pending EXCEPT ![a] = NONE]

(* Mutant: the hold lasts no longer than the retry timer.                  *)
RouteFailedShortHold(a, from, target, t, plans) ==
  /\ from # target
  /\ ledger' = Reserve(ledger, {Entry(from, a, t, t + Penalty, "Normal", FALSE)})
  /\ plan' = plans
  /\ pending' = [pending EXCEPT ![a] = [target |-> target, timer |-> Penalty]]
  /\ UNCHANGED drive

(* No path, or refused: the hold on the node is prolonged unchecked, the   *)
(* rest of the ledger stays as it is.                                      *)
RouteFailed(a, from, target, t, plans) ==
  /\ from # target
  /\ ledger' = Reserve(ledger, {Entry(from, a, t, t + Penalty + Grace, "Normal", FALSE)})
  /\ plan' = plans
  /\ pending' = [pending EXCEPT ![a] = [target |-> target, timer |-> Penalty]]
  /\ UNCHANGED drive

CreateRoute(a, from, target, t, plans) ==
  \/ AlreadyThere(a, from, target, t, plans)
  \/ RouteFound(a, from, target, t, plans)
  \/ RouteFailed(a, from, target, t, plans)

-----------------------------------------------------------------------------
(* The robot of a drives towards this step.  It may be any time late; it   *)
(* is never early, and its letter is read in a later frame than it was     *)
(* written.                                                                *)
Ahead(a) == drive[a].table[drive[a].index + 1]

Arrived(a) == drive[a] # NONE /\ now > drive[a].from + Ahead(a).arr

(* The task manager sends an AGV to a target, either in answer to an event *)
(* of the last frame, as of the time that it bears, or because a node has  *)
(* become free.  Most AGVs have no plan then; one that holds a ticket for  *)
(* a drop node may be on its way home.  A letter that the robot has sent   *)
(* may be among the events already.                                        *)
Request(a) ==
  /\ phase = "events"
  /\ inHand = NONE
  /\ requests < MaxRequests
  /\ requests' = requests + 1
  /\ rerouted' = IF plan[a] = NONE THEN rerouted ELSE rerouted \cup {a}
  /\ \E target \in Nodes, t \in {now - 1, now} :
       CreateRoute(a, curNode[a], target, t, plan)
  /\ \/ UNCHANGED stale
     \/ Arrived(a) /\ drive' # drive /\ stale' = [stale EXCEPT ![a] = Ahead(a).node]
  /\ UNCHANGED <<now, phase, curNode, due, inHand, viewers, adrift>>

(* The ride d after one more link; it is over at the end of the table.     *)
DriveOn(d) ==
  IF d.index + 1 = Len(d.table) THEN NONE ELSE [d EXCEPT !.index = @ + 1]

(* SwapAndProcessEvents takes a step event from the queue: of the link the *)
(* robot has driven, or of one before its last route.                      *)
PopEvent(a) ==
  /\ phase = "events"
  /\ inHand = NONE
  /\ \/ /\ stale[a] # NONE
        /\ inHand' = [agv |-> a, node |-> stale[a], calls |-> viewers]
        /\ stale' = [stale EXCEPT ![a] = NONE]
        /\ UNCHANGED drive
     \/ /\ stale[a] = NONE
        /\ Arrived(a)
        /\ inHand' = [agv |-> a, node |-> Ahead(a).node, calls |-> viewers]
        /\ drive' = [drive EXCEPT ![a] = DriveOn(@)]
        /\ UNCHANGED stale
  /\ UNCHANGED <<now, phase, planVars, curNode, due, viewers, history>>

(* The event is given to the next callback.                                *)
Call(a) ==
  /\ phase = "events"
  /\ inHand # NONE
  /\ inHand.agv = a
  /\ inHand' = IF inHand.calls = 1 THEN NONE ELSE [inHand EXCEPT !.calls = @ - 1]
  /\ UNCHANGED <<now, phase, due, stale, viewers, requests, rerouted>>

(* OnRobotStepCompleted.  Without a plan the event is dropped.             *)
IgnoreStep(a) ==
  /\ Call(a)
  /\ plan[a] = NONE
  /\ UNCHANGED <<planVars, curNode, drive, adrift>>

StepCompleted(a) ==
  /\ Call(a)
  /\ plan[a] # NONE
  /\ curNode' = [curNode EXCEPT ![a] = inHand.node]

PlanExhausted(p) == p.index + 1 >= Len(p.table)

(* Steps are left: the plan advances, the robot drives on by itself.       *)
StepOn(a) ==
  /\ StepCompleted(a)
  /\ ~PlanExhausted(plan[a])
  /\ plan' = [plan EXCEPT ![a].index = @ + 1]
  /\ UNCHANGED <<ledger, pending, drive, adrift>>

(* Case A: the target; the reservation stays.                              *)
ReachTarget(a) ==
  /\ StepCompleted(a)
  /\ PlanExhausted(plan[a])
  /\ inHand.node = plan[a].target
  /\ plan' = [plan EXCEPT ![a] = NONE]
  /\ UNCHANGED <<ledger, pending, drive, adrift>>

(* Case B: the end of the plan short of the target, by the time window or  *)
(* because arrivals were counted more than once.  The next part starts     *)
(* when the table says, or now if the AGV is late.                         *)
NextStart(a) ==
  LET last == plan[a].from + plan[a].table[Len(plan[a].table)].dep
  IN  IF last > now THEN last ELSE now

ReachWindowEnd(a) ==
  /\ StepCompleted(a)
  /\ PlanExhausted(plan[a])
  /\ inHand.node # plan[a].target
  /\ CreateRoute(a, inHand.node, plan[a].target, NextStart(a),
                 [plan EXCEPT ![a] = NONE])
  /\ adrift' = IF plan'[a] = NONE /\ drive'[a] # NONE THEN adrift \cup {a}
                                                     ELSE adrift

(* Update: all timers run down by one frame, the expired ones are due.     *)
Waiting == {a \in Agvs : pending[a] # NONE}

Update ==
  /\ phase = "events"
  /\ inHand = NONE /\ \A a \in Agvs : stale[a] = NONE
  /\ phase' = "retry"
  /\ pending' = [a \in Agvs |->
                   IF a \in Waiting THEN [pending[a] EXCEPT !.timer = @ - 1]
                                    ELSE NONE]
  /\ due' = {a \in Waiting : pending[a].timer <= 1}
  /\ UNCHANGED <<now, ledger, curNode, plan, robotVars, viewers, history>>

Retry(a) ==
  /\ phase = "retry"
  /\ a \in due
  /\ due' = due \ {a}
  /\ CreateRoute(a, curNode[a], pending[a].target, now, plan)
  /\ UNCHANGED <<now, phase, curNode, stale, inHand, viewers, history>>

(* The next frame, before which viewers may have reported READY_MAP.       *)
Tick ==
  /\ phase = "retry"
  /\ due = {}
  /\ now < MaxTime
  /\ now' = now + 1
  /\ phase' = "events"
  /\ viewers' \in viewers..MaxViewers
  /\ UNCHANGED <<planVars, curNode, due, robotVars, history>>

Next ==
  \/ Update
  \/ Tick
  \/ \E a \in Agvs : \/ Request(a) \/ PopEvent(a)
                     \/ IgnoreStep(a) \/ StepOn(a) \/ ReachTarget(a)
                     \/ ReachWindowEnd(a) \/ Retry(a)

Spec == Init /\ [][Next]_vars

-----------------------------------------------------------------------------
(* Safety.                                                                 *)

(* AGVs that the planner has kept track of: none was given an order on its *)
(* way, and none had its plan run out under it, as it may when arrivals    *)
(* are counted more than once, without a new one.                          *)
Undisturbed == Agvs \ (rerouted \cup adrift)

Apart(e, f) == e.end <= f.start \/ f.end <= e.start

(* Bookings that the transaction made for two AGVs never overlap, whatever *)
(* was cut, skipped or written unchecked in between.                       *)
BookingsApart ==
  \A e, f \in ledger :
    e.checked /\ f.checked /\ e.at = f.at /\ e.agv # f.agv => Apart(e, f)

(* What the plan of a lays claim to from step "first" on.                  *)
Claims(a, first) ==
  LET p == plan[a].table
      steps == plan[a].index..Len(p)
  IN  {e \in PathEntries(a, p, plan[a].target, plan[a].from) :
         \/ \E i \in steps : i >= first /\ e.at = p[i].node
         \/ \E i \in steps \cap Links(p) : e.at = LinkEdge(p, i)}

(* The way ahead of a plan in force is backed by the ledger, every edge    *)
(* and every node behind the start: neither an override nor the skipping   *)
(* of double entries takes anything from it, however often arrivals are    *)
(* handled.  (Other AGVs than these may lose it: see the README.)          *)
WayAheadBacked ==
  \A a \in Undisturbed : plan[a] # NONE =>
    \A c \in Claims(a, 2) :
      \E e \in ledger : /\ e.at = c.at /\ e.agv = a
                        /\ e.start <= c.start /\ c.end <= e.end

(* An AGV that waits for a retry stands on a node that is booked for it at *)
(* this moment: a failure never leaves it without footing, unless it was   *)
(* given an order on its way, or lost its plan while it was driving.       *)
RetryKeepsFooting ==
  \A a \in Undisturbed : pending[a] # NONE /\ plan[a] = NONE =>
    \E e \in ledger : /\ e.at = curNode[a] /\ e.agv = a
                      /\ e.start <= now /\ now < e.end

(* Search and transaction agree: a table that FindPath returns to an AGV   *)
(* that is due for a retry is refused only over the start node, which the  *)
(* search does not look at.                                                *)
RefusedOnlyAtStart ==
  \A a \in due : \A p \in Tables :
    LET target == pending[a].target IN
    Found(ledger, a, p, curNode[a], target, now) /\ ~PathFree(a, p, target, now)
      => ~IsFree(ledger, curNode[a], now, Leave(p, 1, now, target), a)

(* What RoutePlanner.hpp says of the transaction: it checks everything and *)
(* then writes it down, so that the plans in force of two AGVs that were   *)
(* not disturbed meet nowhere.                                             *)
PlansApart ==
  \A a, b \in Undisturbed : a # b /\ plan[a] # NONE /\ plan[b] # NONE =>
    \A c \in Claims(a, 1), d \in Claims(b, 1) : c.at = d.at => Apart(c, d)

=============================================================================
