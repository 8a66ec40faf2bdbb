------------------------------ MODULE PathSearch ------------------------------
(***************************************************************************)
(* PathFinder::FindPath (Shared/PathFinder.cpp) with the distance oracle   *)
(* it asks: a run is a series of searches for one target, each with a      *)
(* start, a ledger and a moment of its own, and all with one oracle.       *)
(*                                                                         *)
(* A node of the search tree is represented by the time table that the     *)
(* trace back to the root would give, so arrivalTime and departureTime are *)
(* those of its last step and g is the departure (each wait and each move  *)
(* adds to both).                                                          *)
(***************************************************************************)
EXTENDS PathContract, RoadMap, Kinematics

CONSTANTS
  Self,       \* the AGV
  Ledgers,    \* the ledgers that a search may find
  CutOff,     \* Far is a number after all: 999999 / AGV_SPEED
  Wait,       \* WAIT_TIME
  Slot,       \* a tenth of a second
  MaxSearches \* bound

ASSUME SearchAssumption ==
  /\ {Clearance, Window, CutOff, Wait, Slot, MaxSearches} \subseteq Nat
  /\ Wait > 0 /\ Slot > 0 /\ Window > 0
  /\ Self \in Agvs
  /\ \A l \in Ledgers : l \subseteq Entries
  /\ NONE \notin Seq(Steps)

VARIABLES
  searching, \* whether FindPath is running
  searches,  \* how many searches have begun
  from,      \* _startNodeID of the last one
  ledger,    \* the reservations it looks at
  offset,    \* where in a slot its _startTime lies
  todo,      \* successors of the current node that are not yet pushed
  openList,
  registry,  \* openRegistryList: node and time of everything pushed so far
  closed,    \* closedList: the keys
  result     \* what the last search returned, NONE while it runs

searchVars ==
  <<searching, searches, from, ledger, offset, todo, openList, registry, closed, result>>

VARIABLES rraOpen, rraClosed, want, answer
Oracle == INSTANCE RRAStar WITH open <- rraOpen, closed <- rraClosed

oracleVars == <<rraOpen, rraClosed, want, answer>>
vars == <<searchVars, oracleVars>>

Tables == Seq(Steps) \ {<<>>}

Init ==
  /\ searching = FALSE
  /\ searches = 0
  /\ from = NONE
  /\ ledger = {}
  /\ offset = 0
  /\ todo = {} /\ openList = {} /\ registry = {} /\ closed = {}
  /\ result = NONE
  /\ Oracle!Init

-----------------------------------------------------------------------------
Node(p) == p[Len(p)].node
Time(p) == p[Len(p)].dep

(* GenerateTimeSpaceKey: the time of day, rounded to a tenth of a second.  *)
Key(node, time) == <<node, (2 * (offset + time) + Slot) \div (2 * Slot)>>

(* h, once the oracle has been asked, and f.                               *)
Estimate(n) == IF answer[n] = Far THEN CutOff ELSE answer[n]
Cost(p) == Time(p) + Estimate(Node(p))

(* WAIT: one more step of time on the same node.                           *)
Waited(p) == [p EXCEPT ![Len(p)].dep = @ + Wait]

CanWait(p) ==
  IsFree(ledger, Node(p), p[Len(p)].arr, Time(p) + Wait + Clearance, Self)

(* MOVE: along a link to a node that the table has not visited yet.        *)
Moved(p, n) ==
  LET arrival == Time(p) + Length[{Node(p), n}]
  IN  Append(p, [node |-> n, arr |-> arrival, dep |-> arrival])

(* Mutant: the goal is looked at like any other node.                      *)
ShortStay(n) == Clearance

Stay(n) == IF n = Goal THEN Horizon ELSE Clearance

(* Mutant: the trace back to the root is not searched for the node.        *)
CanMoveBack(p, n) ==
  /\ {Node(p), n} \in Roads
  /\ LET arrival == Time(p) + Length[{Node(p), n}] IN
     /\ IsFree(ledger, Edge(Node(p), n), Time(p), arrival + Clearance, Self)
     /\ IsFree(ledger, n, arrival, arrival + Stay(n), Self)

CanMove(p, n) ==
  /\ {Node(p), n} \in Roads
  /\ \A i \in 1..Len(p) : p[i].node # n
  /\ LET arrival == Time(p) + Length[{Node(p), n}] IN
     /\ IsFree(ledger, Edge(Node(p), n), Time(p), arrival + Clearance, Self)
     /\ IsFree(ledger, n, arrival, arrival + Stay(n), Self)

(* Worth pushing: the key is not closed, and nothing as early was pushed   *)
(* under it.                                                               *)
Fresh(q, done) ==
  /\ Key(Node(q), Time(q)) \notin done
  /\ \A r \in registry : Key(r[1], r[2]) = Key(Node(q), Time(q)) => Time(q) < r[2]

Successors(p, done) ==
  {q \in {Waited(r) : r \in {r \in {p} : CanWait(r)}}
           \cup {Moved(p, n) : n \in {n \in Nodes : CanMove(p, n)}} : Fresh(q, done)}

-----------------------------------------------------------------------------
(* Mutant: a route to the node the AGV is on is searched for as well.      *)
BeginAnywhere(n) ==
  /\ ~searching
  /\ searches < MaxSearches
  /\ searching' = TRUE
  /\ searches' = searches + 1
  /\ from' = n
  /\ ledger' \in Ledgers
  /\ offset' \in 0..Slot - 1
  /\ todo' = {<<[node |-> n, arr |-> 0, dep |-> 0]>>}
  /\ openList' = {} /\ registry' = {} /\ closed' = {}
  /\ result' = NONE
  /\ UNCHANGED oracleVars

(* A search begins with the start node, from which h is asked first.       *)
(* CreateRoute does not search for a route from the target to itself.      *)
Begin(n) ==
  /\ ~searching
  /\ searches < MaxSearches
  /\ n # Goal
  /\ searching' = TRUE
  /\ searches' = searches + 1
  /\ from' = n
  /\ ledger' \in Ledgers
  /\ offset' \in 0..Slot - 1
  /\ todo' = {<<[node |-> n, arr |-> 0, dep |-> 0]>>}
  /\ openList' = {} /\ registry' = {} /\ closed' = {}
  /\ result' = NONE
  /\ UNCHANGED oracleVars

(* GetAbstractDistance for a node that is about to be pushed.  A node that *)
(* was cut off once is not asked for again: nothing is left to look at.    *)
AskOracle ==
  /\ \E q \in todo : /\ answer[Node(q)] # Far
                     /\ Oracle!Hit(Node(q)) \/ Oracle!Ask(Node(q))
  /\ UNCHANGED searchVars

OracleStep ==
  /\ Oracle!Skip \/ Oracle!Find \/ Oracle!Expand \/ Oracle!GiveUp
  /\ UNCHANGED searchVars

Push(q) ==
  /\ want = NONE
  /\ q \in todo
  /\ answer[Node(q)] # NONE
  /\ todo' = todo \ {q}
  /\ openList' = openList \cup {q}
  /\ registry' = registry \cup {<<Node(q), Time(q)>>}
  /\ UNCHANGED <<searching, searches, from, ledger, offset, closed, result, oracleVars>>

(* Mutant: a priority_queue without the comparison function.               *)
PopDearest(p) ==
  /\ searching
  /\ todo = {}
  /\ p \in openList
  /\ \A q \in openList : Cost(p) >= Cost(q)
  /\ openList' = openList \ {p}
  /\ UNCHANGED <<searches, from, ledger, offset, registry, oracleVars>>

(* The head of the loop; entries of equal cost leave in any order.         *)
Pop(p) ==
  /\ searching
  /\ todo = {}
  /\ p \in openList
  /\ \A q \in openList : Cost(p) <= Cost(q)
  /\ openList' = openList \ {p}
  /\ UNCHANGED <<searches, from, ledger, offset, registry, oracleVars>>

Closed(p) == Key(Node(p), Time(p)) \in closed

(* Mutant: a closed entry is left on the heap.                             *)
SkipAndKeep(p) ==
  /\ searching
  /\ todo = {}
  /\ p \in openList
  /\ \A q \in openList : Cost(p) <= Cost(q)
  /\ Closed(p)
  /\ UNCHANGED vars

Skip(p) ==
  /\ Pop(p)
  /\ Closed(p)
  /\ UNCHANGED <<searching, todo, closed, result>>

(* The target, or the end of the window.                                   *)
Done(p) == Node(p) = Goal \/ Time(p) >= Window

Close(p) == closed \cup {Key(Node(p), Time(p))}

Finish(p) ==
  /\ Pop(p)
  /\ ~Closed(p)
  /\ Done(p)
  /\ closed' = Close(p)
  /\ searching' = FALSE
  /\ result' = p
  /\ UNCHANGED todo

Expand(p) ==
  /\ Pop(p)
  /\ ~Closed(p)
  /\ ~Done(p)
  /\ closed' = Close(p)
  /\ todo' = Successors(p, Close(p))
  /\ UNCHANGED <<searching, result>>

(* Nothing is left: the empty path.                                        *)
RunDry ==
  /\ searching
  /\ todo = {} /\ openList = {}
  /\ searching' = FALSE
  /\ result' = <<>>
  /\ UNCHANGED <<searches, from, ledger, offset, todo, openList, registry, closed, oracleVars>>

Search ==
  \/ AskOracle \/ OracleStep \/ RunDry
  \/ \E q \in todo : Push(q)
  \/ \E p \in openList : Skip(p) \/ Finish(p) \/ Expand(p)

Next == Search \/ \E n \in Nodes : Begin(n)

Spec == Init /\ [][Next]_vars /\ WF_vars(Search)

-----------------------------------------------------------------------------
TypeOK ==
  /\ searching \in BOOLEAN
  /\ searches \in 0..MaxSearches
  /\ from \in (Nodes \ {Goal}) \cup {NONE}
  /\ ledger \in Ledgers \cup {{}}
  /\ offset \in 0..Slot - 1
  /\ todo \subseteq Tables
  /\ openList \subseteq Tables
  /\ registry \subseteq Nodes \X Nat
  /\ closed \subseteq Nodes \X Nat
  /\ result \in Seq(Steps) \cup {NONE}

(* Whatever the oracle answers and however states are merged, a table that *)
(* the search returns meets the contract on which the planner books it.    *)
ResultKeepsContract ==
  result \notin {NONE, <<>>} => Found(ledger, Self, result, from, Goal, 0)

Foreign == {e \in ledger : e.agv # Self}

KnownTables == TimeTables(Nodes, Roads, Length, Wait, Window)

(* Every way on which an AGV can leave is among the time tables that the   *)
(* planner's model is given, which know nothing of the search: from one    *)
(* link to the next nothing is late, nothing is early and no node comes    *)
(* back, and there are never more links than the window has units.         *)
TableKnown ==
  result # NONE /\ Len(result) >= 2 => result \in KnownTables

(* On a road without bookings an AGV is under way at once and is promised  *)
(* no more than it gets: when it stops at the end of the window, the time  *)
(* it has used and the distance that is left do not exceed the distance it *)
(* was told at the start.  This holds for every search, whatever the       *)
(* earlier ones left of the oracle.                                        *)
PromiseKept ==
  result # NONE /\ Foreign = {} /\ answer[from] # Far =>
    /\ Len(result) >= 2
    /\ Time(result) + Estimate(Node(result)) <= Estimate(from)

(* FindPath returns.                                                       *)
SearchReturns == searching ~> ~searching

(* The properties of the oracle, under the queries that searches make.     *)
NeverTooShort == Oracle!NeverTooShort
FirstQueryExact == Oracle!FirstQueryExact
FrontierBeyondClosed == Oracle!FrontierBeyondClosed
AnswersStand == Oracle!AnswersStand

=============================================================================
