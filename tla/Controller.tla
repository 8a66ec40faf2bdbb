----------------------------- MODULE Controller -----------------------------
(***************************************************************************)
(* UnityRobotController (Server/UnityRobotController.cpp): how one robot   *)
(* follows the time table it was given, frame by frame.  In every frame    *)
(* the server first empties its letter box and may give it a new route,    *)
(* then the controller is updated.  Whether the edge ahead is clear is the *)
(* answer of a callback, here a choice.                                    *)
(*                                                                         *)
(* All times are multiples of one unit.  A step of a time table is         *)
(* [arr |-> arrival, dep |-> departure]; a letter is the step it reports.  *)
(***************************************************************************)
EXTENDS Integers, Sequences

CONSTANTS
  Tables,    \* time tables that start at 0: sequences of steps
  MaxFrame,  \* 0.1 s: main cuts every longer frame to it
  Second,    \* 1 s, the duration of a link whose table gives it none
  MaxDelay,  \* bound: how far ahead a table may begin
  MaxTime    \* bound: the time the server runs

Steps == [arr : Nat, dep : Nat]

(* Of a table only that it never goes back in time: a wait may be of no    *)
(* length, a ride takes a frame at least.                                  *)
ASSUME TablesAssumption ==
  /\ MaxFrame \in Nat \ {0} /\ Second \in Nat /\ Second >= MaxFrame
  /\ MaxDelay \in Nat /\ MaxTime \in Nat
  /\ Tables \subseteq Seq(Steps)
  /\ \A t \in Tables :
       /\ Len(t) > 0
       /\ \A i \in 1..Len(t) : t[i].dep >= t[i].arr
       /\ \A i \in 1..Len(t) - 1 : t[i + 1].arr >= t[i].dep + MaxFrame

VARIABLES
  serverTime, \* m_TotalElapsedServerTime
  phase,      \* "server" after the letters were read, until the update
  links,      \* m_CachedLinks: the departure from one step, the arrival at the next
  index,      \* m_CurrentLinkIndex, from 1
  moving,     \* m_IsMovingLink
  start,      \* m_ActualStartTime
  overTime,   \* m_OverTime
  letters,    \* m_EventQueue
  exact,      \* exactArrivalTime of the latest arrival on this route, 0
              \* before (a local variable in the code)
  held        \* whether the clearance was refused on this route (not in the code)

clock == <<serverTime, phase>>
route == <<links, held>>
ride == <<index, moving, start, overTime, letters, exact>>
vars == <<clock, route, ride>>

Links == [dep : Int, arr : Int]

TypeOK ==
  /\ serverTime \in Nat
  /\ phase \in {"server", "idle"}
  /\ links \in Seq(Links)
  /\ index \in 1..Len(links) + 1
  /\ moving \in BOOLEAN
  /\ start \in Int
  /\ overTime \in 0..MaxFrame - 1
  /\ letters \in Seq(1..Len(links))
  /\ exact \in Int
  /\ held \in BOOLEAN

Init ==
  /\ serverTime = 0
  /\ phase = "idle"
  /\ links = <<>>
  /\ index = 1
  /\ moving = FALSE
  /\ start = 0
  /\ overTime = 0
  /\ letters = <<>>
  /\ exact = 0
  /\ held = FALSE

Later(x, y) == IF x > y THEN x ELSE y

-----------------------------------------------------------------------------
(* A new frame: UpdateWorld moves the clock and reads all letters.         *)
BeginFrame ==
  /\ phase = "idle"
  /\ phase' = "server"
  /\ \E dt \in 1..MaxFrame : serverTime' = serverTime + dt
  /\ serverTime' <= MaxTime
  /\ letters' = <<>>
  /\ UNCHANGED <<route, index, moving, start, overTime, exact>>

(* A table begins when it was asked for.  An event the server published    *)
(* itself is a frame old when it is handled; a route that goes on begins   *)
(* no earlier than the last one ended, which may be ahead.                 *)
Beginnings == {t \in serverTime - MaxFrame..serverTime + MaxDelay : t >= 0}

LinksOf(table, begin) ==
  [i \in 1..Len(table) - 1 |->
     [dep |-> begin + table[i].dep, arr |-> begin + table[i + 1].arr]]

(* Mutant: the index of the old route is kept.                             *)
FollowRouteGoingOn ==
  /\ phase = "server"
  /\ \E table \in Tables, begin \in Beginnings : links' = LinksOf(table, begin)
  /\ moving' = FALSE
  /\ start' = 0
  /\ overTime' = 0
  /\ letters' = <<>>
  /\ exact' = 0
  /\ held' = FALSE
  /\ UNCHANGED <<clock, index>>

(* Whatever the robot does, also in the middle of a link.                  *)
FollowRoute ==
  /\ phase = "server"
  /\ \E table \in Tables, begin \in Beginnings : links' = LinksOf(table, begin)
  /\ index' = 1
  /\ moving' = FALSE
  /\ start' = 0
  /\ overTime' = 0
  /\ letters' = <<>>
  /\ exact' = 0
  /\ held' = FALSE
  /\ UNCHANGED clock

-----------------------------------------------------------------------------
(* Update.                                                                 *)
BeginUpdate ==
  /\ phase = "server"
  /\ phase' = "idle"
  /\ UNCHANGED <<serverTime, links>>

Link == links[index]
HasLink == index <= Len(links)

(* The route is over, or it is not yet time for the next link.             *)
NothingToDo ==
  /\ BeginUpdate
  /\ HasLink => ~moving /\ serverTime < Link.dep
  /\ UNCHANGED <<held, ride>>

Departing == ~moving /\ HasLink /\ serverTime >= Link.dep

(* The clearance callback says no.                                         *)
Hold ==
  /\ BeginUpdate
  /\ Departing
  /\ held' = TRUE
  /\ UNCHANGED ride

Duration(l) == IF l.arr > l.dep THEN l.arr - l.dep ELSE Second

(* Mutant: the robot that is early is not held back to its table.          *)
CompensatedStart == serverTime - overTime

(* Mutant: the time lost at the last node is not made up for.              *)
StartNow == Later(serverTime, Link.dep)

(* The start is moved back by what the last link took too long.            *)
ActualStart == Later(serverTime - overTime, Link.dep)

(* Mutant: the robot makes up for all its delay and not for the overrun.   *)
ArriveToCatchUp(from) ==
  LET end == from + Duration(Link) IN
  /\ serverTime >= end
  /\ exact' = end
  /\ letters' = Append(letters, index)
  /\ index' = index + 1
  /\ overTime' = IF index = Len(links) THEN 0 ELSE serverTime - Link.arr
  /\ moving' = FALSE
  /\ start' = from

(* Mutant: several links may end in one frame.                             *)
ArriveAndGoOn(from) ==
  LET end == from + Duration(Link) IN
  /\ serverTime >= end
  /\ exact' = end
  /\ letters' = Append(letters, index)
  /\ index' = index + 1
  /\ overTime' = IF index = Len(links) THEN 0 ELSE serverTime - end
  /\ moving' = (index < Len(links))
  /\ start' = from

(* At most one link ends in a frame.                                       *)
Arrive(from) ==
  LET end == from + Duration(Link) IN
  /\ serverTime >= end
  /\ exact' = end
  /\ letters' = Append(letters, index)
  /\ index' = index + 1
  /\ overTime' = IF index = Len(links) THEN 0 ELSE serverTime - end
  /\ moving' = FALSE
  /\ start' = from

RideOn(from) ==
  /\ serverTime < from + Duration(Link)
  /\ moving' = TRUE
  /\ start' = from
  /\ overTime' = 0
  /\ UNCHANGED <<index, letters, exact>>

Depart ==
  /\ BeginUpdate
  /\ Departing
  /\ Arrive(ActualStart) \/ RideOn(ActualStart)
  /\ UNCHANGED held

Ride ==
  /\ BeginUpdate
  /\ moving
  /\ Arrive(start) \/ RideOn(start)
  /\ UNCHANGED held

-----------------------------------------------------------------------------
Next == BeginFrame \/ FollowRoute \/ NothingToDo \/ Hold \/ Depart \/ Ride

Spec == Init /\ [][Next]_vars

-----------------------------------------------------------------------------
(* A robot is never ahead of its table, whatever time it makes up for: it  *)
(* leaves no node before the departure that was reserved, and no letter    *)
(* says that it is at a node before the reserved arrival.                  *)
NeverEarly ==
  /\ moving => start >= Link.dep
  /\ \A i \in DOMAIN letters :
       serverTime >= exact /\ exact >= links[letters[i]].arr

(* With its clock forgotten the controller is a Robot: a call of Update    *)
(* that departs never arrives as well, however much time it makes up for,  *)
(* and a letter is read before its robot leaves the node it names.         *)
Abstract == INSTANCE Robot WITH left <- Len(links) + 1 - index, unread <- Len(letters)

RobotSpec == Abstract!Spec

(* Making up for lost time never takes back more than was lost: no link    *)
(* begins before the end of the one before it.                             *)
NoTimeGained == moving /\ index > 1 => start >= exact

(* A robot that never had to wait for an edge is late by at most a frame   *)
(* for each link it has ridden: the reading of the letter costs a frame    *)
(* every time, and only the overrun of the link is made up for.            *)
LateByFrames ==
  ~held /\ index > 1 => exact <= links[index - 1].arr + (index - 1) * MaxFrame

=============================================================================
