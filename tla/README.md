# A verification development for the SmartFactory AGV server

The repository is the server of a digital twin: it loads the map of a factory,
spawns a fleet of AGVs when a viewer has loaded the map, plans their routes in
space and time, simulates the robots, and replicates their poses to the viewers.
The server is one thread: `ServerMain.cpp` reads packets, calls
`NetworkManagerServer::UpdateWorld`, writes one replication packet per client,
and starts again. What makes it hard is not threads but the frame: robots report
in one loop, the books are changed in the next, robots decide in a third, events
published in one frame are handled in the next, and robots run late against
their time tables by any amount.

This directory models that as TLA+ modules, checks them with TLC on small
instances, and proves the central invariants with TLAPS for all instances.
Paths below are relative to `src/`.

## The system

| Component | State | Operations | Interacts with | Hard | Correct if |
|---|---|---|---|---|---|
| Occupancy ledger, `Shared/ReservationTable.hpp:157-244` | who is on a node, an edge, now | OccupyNode, OccupyEdge, IsResourceClearForExecution | called back by controllers, called by the planner | entries are erased without a look at their owner | no two AGVs ride one edge |
| Reservation ledger, `ReservationTable.hpp:40-155` | lists of booked intervals per node and edge | IsNodeFree, IsEdgeFree, ReserveNode/Edge, OverrideFutureReservations | planner, search, dispatcher | unchecked writes, doubles that are no doubles, cuts | bookings of two AGVs do not overlap |
| Route planner, `Server/RoutePlanner.cpp` | plans, pending routes, oracles | CreateRoute, OnRobotStepCompleted, Update | search, ledger, controllers, AGVs, events | window ends, failures, retries, late AGVs | a plan in force is backed by bookings; no AGV is lost |
| Path search, `Shared/PathFinder.cpp` | none between calls | FindPath | reads ledger, asks the oracle | rounded keys, a half-finished oracle, start node unchecked | what it returns can be booked; it returns |
| Distance oracle, `Shared/RRAstar.cpp` | open and closed list per goal, kept over the whole run | GetAbstractDistance | search | resumed in any order | answers are distances, and stay |
| Robot controller, `Server/UnityRobotController.cpp` | route, link index, riding or not, letters, time to make up for | FollowRoute, Update, PopEvent | clearance and edge-enter callbacks | a new route in the middle of a ride, frames of any length | an arrival is read before the next departure; never early |
| Task manager and dispatcher, `Server/TaskManager.cpp`, `Shared/DispatchManager.hpp` | tickets of AGVs that wait for a drop node | OnRobotIdle, OnRobotLoadCompleted, OnRobotUnloadCompleted, ProcessNextDispatch | events, planner | wakes AGVs in the middle of anything | every load that is fetched is delivered |
| Event manager, `Shared/Event.hpp` | two queues | Subscribe, Publish, SwapAndProcessEvents | all of the above | order, one frame of delay, a callback that is subscribed again with every viewer | each event is given to every subscription before the next; an arrival that is counted twice does no harm to the interlock and the bookings |
| AGV, `Shared/Robo.cpp` | state, purpose, node, work timer | ChangeState, AssignNextStep, UpdateWorkTimer | planner, events | timer and state are set apart | work that begins is reported |
| Replication, `NetworkManagerServer.cpp`, `ReplicationManagerServer.cpp` | sessions, commands per client | Hello, READY_MAP, READY_OBJECT, Write | objects, framing | clients join around the spawning, and leave | create once, before the first update, in the end |
| Framing, `Shared/TCPSession.cpp` | receive buffer | SendPacket, ProcessIncomingData | sockets | TCP cuts anywhere | what is sent is delivered |

The repository has no tests and a README of one line; the claims that some runs
refute are comments in the code.

## The modules

```
BlockSections <- refines - Traffic - extends -> Occupancy
Robot         <- refines - Controller, and one instance for each AGV of Traffic
FactoryMap <- ReservationTable <- PathContract <- RoutePlanner
FactoryMap <- RoadMap <- RRAStar
PathContract, RoadMap, Kinematics <- PathSearch - instance of -> RRAStar
JobCycle      <- refines - Mission
Replication    Framing
```

(An arrow `<-` without a word is EXTENDS. MCRoutePlanner takes its time tables
from Kinematics.)

**Occupancy** holds the four occupancy maps and their operations. It has no
next-state relation of its own; the operations are parts of Traffic's actions.
A missing key is `NONE`.

**Traffic** is one frame of `UpdateWorld` for the robots: `Collect` (letters
become events), `IgnoreArrival`, `StepOn`, `ReachTarget`, `ReachWindowEnd` (the
outcomes of `OnRobotStepCompleted`), `Assign` (any other call of CreateRoute that
finds a route), `EndProcess`, and one turn of each controller's `Update`: `Hold`,
`Depart`, `Arrive`. Between two frames `ReadyMap` subscribes OnRobotStepCompleted
once more (`RoutePlanner.cpp:19`, called by every READY_MAP); `inHand` is the
event that has been popped and the number of callbacks it has still to be given
to (`Event.hpp:66-69`), so with two viewers the plan advances twice per arrival,
while the controller goes on by its own copy of the route. The order in which the loops visit the robots is free, since
the code walks an `unordered_map`. Clocks are a choice: an AGV may be any time
late. Routes are any walks from the node where the server believes the AGV to
be, issued at any time, also in the middle of a ride and ahead of an arrival
that is queued for the old route.

**BlockSections** is what the interlock promises: a section is entered only
while nobody rides it.

**Robot** is what the server may take a robot for: the number of links left, riding
or not, and the letters unread. It rides one link at a time, posts one letter at
the end of each and does not leave before that was read. The timed Controller
implements it, and so does every AGV of Traffic; what Traffic leaves open of a ride
is therefore all that depends on the clock.

**ReservationTable** and **RoutePlanner** have the time and the bookings. The
lists of `TimeInterval` are one set of entries. A frame is `Tick`, requests and
step events, `Update`, and one `Retry` per expired timer. CreateRoute has three
outcomes, `AlreadyThere`, `RouteFound` and `RouteFailed`; the failure is possible
at any time, because the search merges states and may find nothing. `Found` is
the contract of `FindPath`: what it has checked of every table it returns. Floats
are integers of one small unit, so comparisons are exact where the code allows
0.001 s. The flag `checked` of an entry is not in the code; it tells the bookings
of the transaction from those of a bare ReserveNode. Nor is `rerouted`, the AGVs
that were given an order while a plan was in force, as OnRobotLoadCompleted may
do to a ticket holder on its way home, or `adrift`, the AGVs that ever lost their
plan while they were driving; some properties are about the others
(`Undisturbed`). The robot is its copy of the time table and the link it is on
(`drive`), any time late but never early. `PopEvent` takes an arrival from the
queue, of the table the robot drives by or of the one before (`stale`, a letter
that was among the events when a request came), and `Call` gives it to one
callback after the other, once per READY_MAP so far (`viewers`, which may grow at
each `Tick`). A request carries the time of the event it answers, which is that
of the frame before, or the time now, if ProcessNextDispatch makes it.

**PathContract** is what RoutePlanner is given in place of the search: `Found`, and
the shape of a time table (`Timely`).

**FactoryMap** and **RoadMap** are the nodes and the links with their lengths.
All 288 links of `Shared/MapData.json` are straight and have their reverse
between the same two of its 76 nodes, so a road is a pair of nodes.

**PathSearch** is FindPath itself. A node of its search tree is represented by
the time table that the trace back to the root would give; `Begin` makes the
root, `Expand`, `Skip` and `Finish` are the turns of the loop, `RunDry` its end
with an empty open list. Before a node is pushed the oracle is asked for its
distance; the oracle is an instance of RRAStar on the same roads and keeps its
state from one search to the next, as the engines of RoutePlanner do. The
neighbours of one turn are pushed in any order, since nodes of equal cost leave
the heap in any order. The clock is a choice of where in a tenth of a second the
search begins (`offset`), because only that changes which times share a key.

**Kinematics** has the time tables the search can build on a map, without ledger,
oracle or rounded keys: no node twice, whole steps of waiting, all starting at
time 0. TableKnown says that the search returns none but these.

**RRAStar** is one oracle; a query is the steps of its loop, entries of equal
length come off the heap in any order. Its reference is `Shortest`, the length of
a shortest way. The first query is never for the goal, since CreateRoute handles
an AGV that is at its target before it makes an oracle.

**Controller** is one UnityRobotController with its clock. A frame is
`BeginFrame` (the clock moves, the server reads the letters), any number of
`FollowRoute`, and one `Update`: `NothingToDo`, `Hold`, `Depart` or `Ride`, of
which the last two end in `Arrive` or `RideOn`. The answer of the clearance
callback is a choice here; in Traffic it is the occupancy, and the clock is the
choice.

**Mission** puts task manager, planner, AGV state and event queues together, and
abstracts time and ledger to choices: which robots arrive, which timers run out,
which retries are due, whether a route is found, which drop node is free. The
handlers run one event at a time in the order of the queue; ProcessNextDispatch
is one action per ticket, since its loop is a series of calls to
OnRobotLoadCompleted. A node is refused to an AGV only over a booking of another
one (`Refused`). `laden` is not in the code, which never records whether a load
is on an AGV; it becomes true when loading ends and false when unloading ends.
Nor is `stranded`, the AGVs that ever drew a ticket. `viewers` is the number of
READY_MAPs before the simulation began: each has subscribed OnRobotStepCompleted
once more, and `calls` counts how many of them the event in hand was given to.

**JobCycle** is what a dispatcher promises: empty, fetching, laden, delivering,
and round again, until an AGV is stranded with its load.

**Replication** is the handshake and the commands of the viewers. The viewer is
not in the repository: it is assumed to send Hello, READY_MAP and READY_OBJECT
once each and in this order. Each READY_MAP spawns another fleet, as in the code.
A viewer may leave at any time; the server keeps its session, reads what it had
sent and writes to it. `BrokenPipe` is what the operating system may do about
that: end the process.

**Framing** is the byte stream: `Packet` is SendPacket's frame, `Receive`,
`Deliver` and `Wait` are ProcessIncomingData. It keeps bytes, because what it
checks is the reassembly of bytes.

Definitions marked "Mutant" are not used by any specification. Each is a bug the
definition below it could have had, and the run of the property it belongs to
fails when it takes that definition's place.

## The runs

| Run | Instance | Shows |
|---|---|---|
| `traffic` (`MCTraffic_Line`) | 2 AGVs, 3 nodes in a line, routes of up to 3 nodes, up to 2 viewers | EdgeExclusion, RiderHoldsEdge, ArrivalSeenFirst, StepEndsTwoWays, OnlyReroutesEndJams, refinement of BlockSections |
| `planner` (`MCRoutePlanner`) | 2 AGVs, 3 nodes, window 3, clock to 7, 2 requests at any time, up to 2 viewers | BookingsApart, RefusedOnlyAtStart; WayAheadBacked and RetryKeepsFooting of the AGVs that were neither rerouted nor adrift |
| `search` (`MCPathSearch`) | 6 nodes with the lengths of the build's map, 4 ledgers, 2 searches with one oracle, fortieths of a second | ResultKeepsContract, PromiseKept, TableKnown, SearchReturns; of the oracle NeverTooShort, FirstQueryExact, FrontierBeyondClosed, AnswersStand |
| `mission` (`MCMission`) | 2 AGVs, 1 load node, 1 drop node that may run out, 1 ticket, 1 or 2 viewers | StateTrue (WorkTimed and MovingHasPlan), ReportedOnce, RideFollowsPlan, ForgottenOnlyAtHome, refinement of JobCycle |
| `controller` (`MCController`) | one robot, 2 tables of 2 and 3 links, frames of 1/20 and 1/10 s, 3.75 s | NeverEarly, NoTimeGained, LateByFrames, refinement of Robot |
| `replication` (`MCReplication`) | 3 viewers, a fleet of 2 for each | NoOrphanUpdate, CreatedOnce, NobodyMissesAnObject, ToldInTheEnd |
| `framing` (`MCFraming`) | up to 3 packets, payloads of 0 to 3 bytes, a receive buffer of 4 | DeliveredAsSent, AllDelivered |

Why the bounds are enough to be interesting. On the line, two AGVs meet head on,
each on the node the other wants, follow each other, and are rerouted in the
middle of a ride; with a second viewer, which may come between any two frames, a
route of two links loses its plan at the first. With a window of 3
and links of 2, paths end at the window and are prolonged; penalty, grace and
clearance are of the size of a link, as in the code, and a clock of 7 sees a
hold, a retry, a second plan, and a plan that runs out in the middle of its route.
The instances of both modules are symmetric under exchanging the AGVs together
with the ends of the line (`Mirror`). RefusedOnlyAtStart is checked for the AGVs
that are due for a retry; the lemma behind its theorem, RefusedOverStart, is about
any AGV and any target. The run that looks for PlansApart has one more unit of
time. The search has a free road, a goal that is
taken, an AGV on the opposite course and a start that is walled in; its window of
4.5 s is three links or four waits long, and slots of a tenth of a second are
four units, so states are merged that differ. A second search meets whatever the
first left of the oracle. With one ticket out, one AGV is woken in the middle of
anything while the other goes through the cycle, also in the middle of a ride
whose arrivals are handled twice; the runs that expect a violation have two
tickets, so an AGV may hold both. As on the map of the build, the instance has no
link between load node, drop node and home (`Links`). A controller of 3.75 s
drives three links, each late by up to a frame, and is given a new route in the
middle of each. Three viewers join before, between and after three fleets.
Packets of 2 to 5 bytes through a buffer of 4 are cut in their length and in
their payload. `MaxTime`, `MaxRequests`, `MaxSearches`, `MaxTickets`,
`MaxViewers`, `MaxDelay`, `MaxObjects` and `MaxPackets` are the bounds that the
code does not have. Runs of RoutePlanner, PathSearch, Controller and Framing
switch off deadlock checking because the clock, the searches or the stream end,
that of Replication because the process may.

Fairness. The loop of the server never stops, so Mission's liveness uses weak
fairness of Next, nothing more; which route is found remains free. A search and
a query of the oracle are loops, so their steps are fair together. In Replication
the two halves of a turn are fair, since Select has a timeout; the viewers owe
the server nothing. `select` reports a socket as long as there is something to
read, so Framing's steps are fair.

### What the checks bring to light

*A search prefers to wait.* FindPath returns the earliest time table, but where
the way is closed it is cheaper to wait on the start node to the end of the
window than to go round: the table has one step, and CreateRoute counts it as a
failure (`RoutePlanner.cpp:140`) that is retried every second. That is why
PromiseKept is about roads without bookings. After an answer of 999999 the search
has no direction and explores by time alone; PromiseKept leaves such starts out.

*A robot drifts.* The `return` after an arrival (`UnityRobotController.cpp:264`)
gives the server time to read the letter and costs up to a frame; only the
overrun of the link is made up for (`:218`). LateByFrames is the bound that is
left: a frame for each link. At frames of 0.1 s an AGV that nothing ever stood in
the way of is outside the 0.6 s of clearance after six links.

*A route in the middle of a ride leaves its edge behind.* ProcessNextDispatch may
give a laden AGV on its way home a route to a drop node. The controller starts
again from the node the server knows; the edge it was on remains in
`m_EdgeOccupancy` and is closed to all others, for good if the AGV enters another
edge before it next arrives.

*So may a second viewer.* Each READY_MAP subscribes OnRobotStepCompleted once more
(`RoutePlanner.cpp:19`), so each arrival advances the plan once per viewer. The
plan then ends in the middle of the route. The rest is planned at once, from the
planned end of the route on (`:264-272`); if that fails, the plan is erased and the
robot drives on by its own copy. Its next arrivals are dropped at
`RoutePlanner.cpp:194`, before OccupyNode: the edge it rode last stays closed until
it reports under a new plan, and those before it for good. StepEndsTwoWays says that these two are the only
ways in which an edge or a node is left closed by an AGV that is not there.

*A stand-off is for ever.* AGVs that are late against their tables may come to stand
on the nodes that others of them are to enter next (`Jammed`). Each is refused in
every frame (`UnityRobotController.cpp:212`), and `OnLinkBlocked`, which could ask
for another route, has no body (`RoutePlanner.hpp:56`). OnlyReroutesEndJams says
that nothing the rest of the fleet does dissolves this; a new route for one of them
does, such as ProcessNextDispatch may give to a ticket holder on its way home.

### Where code and comments disagree

| Run | Comment | What the code does |
|---|---|---|
| `RoutePlanner_PlansApart` | `RoutePlanner.hpp:53`, checks everything and then writes it | the booking of the start node is cut by the transaction's own override and then taken for a double (`ReservationTable.hpp:73`); two plans in force meet |
| `RRAStar_FarMeansCutOff` | `RRAstar.cpp:83`, 999999 means physically cut off | nodes behind an earlier query's node get it too (`RRAstar.cpp:41`) |
| `Mission_LadenWaits` | `TaskManager.cpp:72`, wait at home with a ticket | at home IDLE_READY sends the laden AGV for another load |
| `Mission_LadenRemembered` | `TaskManager.cpp:28`, ticket holders are woken and given a drop node | the pending route to the drop node can be erased by a no-op order to go home |
| `Mission_WokenAtHome` | `TaskManager.cpp:56`, a timer wakes the AGV at home | the timer is commented out |

`WayAheadBacked` and `RetryKeepsFooting` hold only for `Undisturbed` AGVs. An AGV on
its way that is told to go to the node it is passing keeps its plan and loses its
bookings (`RoutePlanner.cpp:112-120`). One that lost its plan while driving, which
takes a second viewer, is booked on the node where its plan ended only from a
later time on (`:150`, with the start of `:268`), and as its old edges are still
booked, the retry may have one of them cut and its successor taken for a double.
No comment claims otherwise, so both are listed as hazards and not as findings.

`ForgottenOnlyAtHome` and `JobSpec` hold only for AGVs that never drew a ticket
(`stranded`). Once tickets are drawn, an order for a ticket can undo the order an
AGV is acting on: `LadenWaits` and `LadenRemembered` are the two ways
in which that contradicts a comment, and an AGV can be forgotten on its drop node
in the same way.

Two more comments of the planner do not say what the code does, and are plain to
see in the modules without a run: a failed route books its node without a check
(`RoutePlanner.cpp:150`, `RouteFailed`) although `RoutePlanner.hpp:53` calls the
transaction the only function that reserves, and the hold on a target that
`RoutePlanner.cpp:48` calls endless ends after 48 s (`Leave`).

## The proofs

Every safety invariant and action property of the passing runs is a theorem, and so
are the three refinements. What TLC shows on the instances above holds
for every map, fleet, ledger, clock and number of packets that meets the
assumptions.

*Traffic_proofs.* Type correctness; RiderHoldsEdge, EdgeExclusion and
ArrivalSeenFirst; that Traffic implements BlockSections and each of its AGVs a
Robot; StepEndsTwoWays and OnlyReroutesEndJams; all for any number of viewers.
RiderHoldsEdge is not inductive: OccupyNode erases `edgeOcc[agvEdge[a]]` whoever
holds it, so a late arrival of `a` could free an edge that another AGV rides.
`IInv` adds that an unread arrival belongs to an AGV that stands still, and how
the maps of riders agree; `Update` ending right after an arrival
(`UnityRobotController.cpp:263`) is what makes it inductive. EdgeExclusion
follows, because one edge has one entry. For the refinement each step is shown to
enter a section nobody rides, to leave one, or to change nothing.

StepEndsTwoWays says that robot, plan and occupancy of an AGV are in step
(`InStep`) until it is given a route while it is under way, or its plan is lost
while its controller has links to go. An arrival makes the controller count one
link ahead of the plan; the letter stays with the controller for the rest of the
frame, is an event in the next, and then the plan follows, once for each callback.
So there is never more than one letter (`OneLetter`), and once the first callback
has read it the server knows the AGV on the node where it stands; with one viewer
the index of the plan says the same, with more it may have run ahead (`KnownAt`).
The part of `IInv` that this needs is `HandInPlace`: callbacks are in hand only
while events are handled and only with more than one viewer, and while the AGV they
are about has a plan, the server knows it on the node they report. So a second call
about one arrival changes no occupancy that the first has not. The proof goes through
the places a letter can be in, one step for each action.

EveryAgvIsARobot is stated for an arbitrary AGV; TLC cannot take an instance with a
parameter as a property, so this one is proved and not run. The step that matters
is Depart: it finds no letter unread, because the letters of a frame are collected
and handled before the robots drive (`LettersInFrame`).

OnlyReroutesEndJams needs the types and nothing else: `Jammed` is inductive but for
a new route. An AGV of the jam is refused since the node ahead is booked for another
one of it. All others are `Elsewhere`: neither they, nor their rides, nor their
unread arrivals have to do with the nodes of the jam, and as none of those nodes is
clear, none will. So no step erases or overwrites an entry of these nodes, which
OccupyNode and OccupyEdge would do without a look at the owner.

*RoutePlanner_proofs.* Type correctness and BookingsApart come first. The
invariant `IInv` carries them together. Lemmas say that an override only shrinks
an AGV's own entries, that reserving adds nothing but what is asked for, and that
every checked entry of a path was free before the override; all outcomes of
CreateRoute are then covered by one lemma about the ledger.

WayAheadBacked and RetryKeepsFooting need to know what the ledger holds of an AGV
over all of its life, because a booking survives an order only if the override
that comes with the next one does not cut it, and a new entry is only written if
ReserveNode does not take it for a double. `KInv` says that no goal is as short as
the clearance (`GoalsLong`), so what an override leaves of one is no goal any more,
and of each AGV that is `Undisturbed` (`Kept`): its whole plan is booked but perhaps for the node it starts on
(`PlanBooked`); nothing is booked beyond the end of the plan, nor an edge when
there is no plan (`BookedSoFar`), so the override before a new plan leaves what it
must; while it waits for a retry its node is booked up to the last moment at which
the retry may come (`Footing`); and an older entry that makes ReserveNode skip
such a hold is itself long enough (`NoShortHold`). `Aligned` ties the plan to the
robot: it drives by the table of the plan in force, and the event in hand is of the
step it has driven last, so a plan that was advanced too often still ends on a node
of its own table, and the target is reported only at the end of it, not before the
planned arrival. RefusedOnlyAtStart follows from
the contract of the search alone: every other entry of the path was checked.

*RRAStar_proofs.* FrontierBeyondClosed and AnswersStand, for every map and every
sequence of queries. The first is inductive with the types, because roads have a
positive length and the entry that is closed is a least one. AnswersStand needs
more (`AnswersFromClosed`): a distance that was answered is in the closed list, a
query is never for a node that is closed, and after an answer of Far the open
list is empty and stays so.

NeverTooShort and FirstQueryExact compare the closed list with `Shortest`, a
minimum over all ways. `OInv` adds that what is closed or open was reached on a
way of that length with no more roads than nodes are closed (`Reached`), that
every distance but the goal's goes on from a closed node (`GoesOn`), and, as long
as no query has returned, that all neighbours of closed nodes are closed or open
(`Explored`). Hence nothing closed is nearer than a shortest way; and in the first
query no way is shorter than what is closed, by induction on its roads. After the
first answer that fails, since the node of the answer is closed and not expanded:
that is `RRAStar_FarMeansCutOff`.

*PathSearch_proofs.* This module has five parts. The first is ResultKeepsContract: what FindPath returns meets `Found`.
`Sound` is the invariant: every table in the open list, or about to be pushed, is
a `Partial` one: it begins at the start node, and each of its moves and waits was
free in the ledger. It holds whatever the oracle answers and whichever state of a
slot survives, so the planner may rely on the contract although the order of the
search may be any.
The second part instantiates RRAStar_proofs (`OP`): every step of a search is a
step of the oracle or leaves it alone, so FrontierBeyondClosed, AnswersStand,
NeverTooShort and FirstQueryExact hold under the searches of a run as well.

The third part is PromiseKept: a search on free roads comes back with a way to go
on which the time used and the distance left do not exceed the oracle's answer at
the start, whatever the rounded keys merge. A distance the
oracle told is that of a way of closed nodes, each `Follows` the one before. The
invariant `LeadsOn` says that after every node that was expanded the way goes on to
one that was expanded too or to which a table in the open list leads in time
(`Promising`). Taking the expanded node with the least told distance shows that
some promising table is always in the open list; its estimate is within the
promise, so nothing beyond the promise is ever taken off the heap. A table is
dropped only for one of the same slot that is no later (`Remembers`).

The fourth part is TableKnown, on every map: a table with k links that the search
has built is in `Along[k]` of Kinematics, by the recursion that defines `Along`
(`Recursion` of RRAStar_proofs gives a function that satisfies it), and k is never
more than the window has units, since every link takes time and no table in hand
reaches beyond the window before its last link.

The fifth ties the search to the planner, whose model assumes of its tables only
that they are `Timely` and, when booked, that they are `Found`. Where every link
takes longer than the clearance, what Kinematics builds is Timely
(KnownTablesAreTimely), so that assumption of RoutePlanner is met by the search and
not made. The search reckons from its own start; a table that is Found on the ledger
as seen from time t is Found at t on the ledger itself (AnyTimeIsZero). Together
(SearchServesPlanner): a path of two steps or more that FindPath returns at any time
is one that RouteFound may book then, so the theorems about the planner hold with
the search in the place of its contract.

*Mission_proofs.* Type correctness, StateTrue (WorkTimed and MovingHasPlan) and
RideFollowsPlan, for any number of AGVs, viewers and tickets. They are carried together
(`InStep`), with the fact that a plan always has a step left (`PlansGoOn`):
otherwise an arrival handled a second time could find a plan that is at its end.
`Phases` says at which part of the frame tickets and retries are in hand. What
CreateRoute keeps is one lemma, used by every handler that calls it.

ReportedOnce is about both queues. `Mail` says that news (loaded, unloaded, back
home) stands before the arrivals in the events in hand, so that when an arrival
publishes more of it, all older news has been read, and that an AGV with unread
news has neither a plan that could end nor a job that could be completed first.

The refinement of JobCycle, and ForgottenOnlyAtHome, rest on `OneTurn`: an AGV
that never drew a ticket is in one of four situations. It rides by a plan,
waits for a retry, is at work, or is idle with at most one piece of news that says
what is next; in each, load, place and purpose agree (`Errand`), and an idle AGV
without news is at home and empty. Each handler is shown to move an AGV from one
of these to another, and with `JobByTurn` every such move is a step of the cycle.

*Controller_proofs.* All invariants of Controller. They are not inductive: what
the next link may do depends on how long ago the last one ended and how much of
that is in `m_OverTime`. `IInv` says so for a robot that rides (`Riding`), one
that stands (`Standing`) and one that was never refused (`Punctual`); LateByFrames
then goes from link to link. ControllerIsARobot needs that what a robot makes up for
is strictly less than a frame (part of TypeOK), and that a link takes a frame or
more: a call of Update that departs therefore never arrives as well, and each frame is one
step of Robot or none.

*Replication_proofs.* All four safety invariants, for any number of clients and
objects, with clients that leave. `IInv` adds that the sessions are those of the
clients beyond Hello, and that a client without a session has no commands and was
told nothing.

*Framing_proofs.* Type correctness and DeliveredAsSent, for all payloads, any
number of packets and any cuts. DeliveredAsSent is not inductive, nor is the type
of `delivered`: that a piece of the buffer is a payload of the peer's depends on
where in the stream the buffer begins. `WholeStream` says that the bytes of the
packets delivered, the buffer and what is on the way are the bytes of all packets:
there is a function `F` that gives the bytes of the first k packets (`Joins`), and
F[n] is F[k] followed by the buffer and the rest (`NothingLost`). A packet's first
two bytes tell its length (`PacketType`), so `Unpacked` takes off exactly what the
peer put in front. Dropping the bound of 65536 would make this false.

Induction. The library's induction theorems take an operator as a parameter,
which the installed provers cannot instantiate. RRAStar_proofs and Framing_proofs
therefore derive what they need in a form without operators: finite sets are well
founded under inclusion (a theorem of the library about a relation), so a set of
numbers has a least one (`LeastNumber`), so a set that has 0 and with each number
the next has them all (`Induction`), so what a recursive definition says has a
function that satisfies it (`Recursion`).

Assumptions are those in the modules, and TLC evaluates them on every run. The
sentinels are distinct from the data. Routes are walks of two nodes or more. Time
tables start at 0, do not run backwards, visit no node twice
(`PathFinder.cpp:115-124`) and take longer over a link than the clearance: the
shortest link of the map is 4 m, 1.0 s at AGV_SPEED, against 0.6 s. Nodes and
edges are kept in two maps, so no node is an edge. The hold on a target is longer
than clearance and penalty together (48 s against 1.6 s), and the hold of a new AGV
is longer than the clearance (100 s). There is at least one viewer. Penalty, grace, window
and the steps of the search are positive. The map has finitely many nodes, and
roads of positive length. At least one AGV is spawned. Packets are shorter than
65536 bytes.

Only model-checked: liveness (SearchReturns, ToldInTheEnd, AllDelivered), which is
beyond the prover. The runs that expect a violation have no theorems, of course.

## Not modelled

By lines, most of `src/` is `Shared/json.hpp`, 22875 of the 27227 lines: a
vendored library that is called once, to read the map. Of the rest, the larger
part of `UnityRobotController.cpp` and of `Robo.cpp` is code that is commented
out, older versions of what is modelled.

The warehouse's stock (written, never read), parsing of the map file,
serialisation and object factory, socket wrappers, poses and Bezier curves, and
the ESP32 stub. `CancelRoute`, `ReleaseAllOccupancyAndReservations`,
`ConsumeStock`, `StopSimulation`, `ReplicateDestroy` and `RemoveObject` are never
called. The 15-second road block of `UpdateWorld` is set to 1500000 seconds and
so never fires. `m_TotalElapsedServerTime` is not initialised; the models start
it at 0.

A READY_MAP that comes when the simulation runs, or a second one before, spawns a
second fleet on the homes of the first. Replication has these fleets;
Mission, Traffic and RoutePlanner have the additional subscription of the planner,
and the AGVs of Traffic may be of several fleets; what two AGVs booked on one home do
to the ledger, and the news of a fleet that is spawned in the middle of a run, are
left out.

Mission abstracts two things that none of its properties depends on. A route is at
most two nodes, with `Way` between its ends (`RoutesTo`), while FindPath returns
longer ones, also through load, drop and home nodes of others. And a node is
refused over where the other AGVs are and whether they have a plan (`Refused`), not
over the 48 s hold of an AGV that was told it was there already and has left since
(`RoutePlanner.cpp:114-115`).

A viewer that stays connected and stops reading would block the one
thread of the server in `send`; when that happens is up to the operating system.

## Plan

Done, in this order: Occupancy, Traffic with BlockSections and its proofs;
ReservationTable, RoutePlanner, Kinematics and the proofs; RRAStar; Mission with
JobCycle; Replication and its proofs; Framing.

Then PathContract, RoadMap and PathSearch with RRAStar as its oracle; a second
viewer in Mission; Controller with its clock; the loss of a viewer and the select
set in Replication; the step of robot, plan and occupancy in Traffic; the proofs
of RRAStar, PathSearch, Mission and Controller.

Then the remaining safety: the way ahead and the footing of RoutePlanner, the step
of Traffic, the mail and the cycle of Mission, the distances of the oracle, the
promise of the search, and Framing.

Last: the time tables of the search on every map and what they are to the planner;
Robot, between the controller with its clock and the one of the fleet; the
stand-off in Traffic; and the second viewer in Traffic and RoutePlanner.

What would be next:

1. Fleet: Traffic with the departure times and the bookings of RoutePlanner and
   the delay that Controller bounds, to say how late AGVs must be to come into a
   stand-off, and when a node is entered by two.
2. A READY_MAP in the middle of a run, with a second fleet on the same homes.
3. PathSearch and RoutePlanner as one specification. Their theorems meet in
   SearchServesPlanner, one search at a time; the queries of many searches for
   different goals, each with its own oracle, are in no module together.
