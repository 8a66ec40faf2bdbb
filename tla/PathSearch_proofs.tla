--------------------------- MODULE PathSearch_proofs ---------------------------
(***************************************************************************)
(* Proofs about the path search, for every map and every ledger: its state *)
(* keeps its types; what it returns meets the contract on which the        *)
(* planner books it, whatever the oracle answers; what is proved of the    *)
(* oracle holds under the queries of searches; on free roads a search      *)
(* keeps what the oracle promised for its start; and its paths are time    *)
(* tables of Kinematics, which meet what the planner's model assumes.      *)
(***************************************************************************)
EXTENDS PathSearch, TLAPS

(* What is true of every time table that is pushed: its moves and waits    *)
(* were free, and it goes on only from where the search may go on.         *)
MoveFree(p, i) ==
  /\ p[i].node # Goal
  /\ p[i].dep < Window
  /\ IsFree(ledger, LinkEdge(p, i), Dep(p, i, 0), LinkLeave(p, i, 0), Self)
  /\ IsFree(ledger, p[i + 1].node, Arr(p, i + 1, 0),
            Arr(p, i + 1, 0) + (IF p[i + 1].node = Goal THEN Horizon ELSE Clearance), Self)

StayFree(p, i) ==
  p[i].arr < p[i].dep =>
    IsFree(ledger, p[i].node, Arr(p, i, 0), Dep(p, i, 0) + Clearance, Self)

Partial(p) ==
  /\ p[1].node = from
  /\ \A i \in Links(p) : MoveFree(p, i)
  /\ \A i \in 1..Len(p) : StayFree(p, i)
  /\ Node(p) = Goal => p[Len(p)].dep = p[Len(p)].arr

Sound ==
  /\ \A p \in todo \cup openList : Partial(p)
  /\ ResultKeepsContract
  /\ searching \/ todo = {}
  /\ todo = {} \/ from # NONE

IInv == TypeOK /\ Sound

-----------------------------------------------------------------------------
(* Tables and their last steps.                                            *)

LEMMA LastStep ==
  ASSUME NEW p \in Tables
  PROVE  /\ Len(p) \in Nat \ {0}
         /\ p \in [1..Len(p) -> Steps]
         /\ p[Len(p)] \in Steps
         /\ Node(p) \in Nodes
         /\ Time(p) \in Nat
         /\ p \in Seq(Steps)
<1>1. p \in Seq(Steps) /\ p # <<>>
  BY DEF Tables
<1>2. Len(p) \in Nat \ {0} /\ p \in [1..Len(p) -> Steps]
  BY <1>1
<1>3. p[Len(p)] \in Steps
  BY <1>2
<1> QED BY <1>1, <1>2, <1>3 DEF Steps, Node, Time

LEMMA WaitedTable ==
  ASSUME NEW p \in Tables
  PROVE  /\ Waited(p) \in Tables
         /\ Len(Waited(p)) = Len(p)
         /\ Node(Waited(p)) = Node(p)
         /\ \A i \in 1..Len(p) : /\ Waited(p)[i].node = p[i].node
                                 /\ Waited(p)[i].arr = p[i].arr
                                 /\ i # Len(p) => Waited(p)[i] = p[i]
         /\ Waited(p)[Len(p)].dep = Time(p) + Wait
<1> DEFINE s == [p[Len(p)] EXCEPT !.dep = @ + Wait]
<1>1. /\ p \in [1..Len(p) -> Steps] /\ Len(p) \in Nat \ {0} /\ p[Len(p)] \in Steps
  BY LastStep
<1>2. Wait \in Nat
  BY SearchAssumption
<1>3. /\ s \in Steps /\ s.node = p[Len(p)].node /\ s.arr = p[Len(p)].arr
      /\ s.dep = Time(p) + Wait
  BY <1>1, <1>2 DEF Steps, Time
<1>4. Waited(p) = [p EXCEPT ![Len(p)] = s]
  BY DEF Waited
<1> HIDE DEF s
<1>5. Waited(p) \in [1..Len(p) -> Steps] /\ Waited(p) \in Seq(Steps) /\ Len(Waited(p)) = Len(p)
  BY <1>1, <1>3, <1>4, LastStep
<1>6. \A i \in 1..Len(p) : Waited(p)[i] = IF i = Len(p) THEN s ELSE p[i]
  BY <1>1, <1>4
<1>7. Waited(p) # <<>>
  BY <1>1, <1>5
<1>8. Waited(p)[Len(p)] = s
  <2>1. Len(p) \in 1..Len(p)
    BY <1>1
  <2> QED BY <1>6, <2>1
<1>9. \A i \in 1..Len(p) : i # Len(p) => Waited(p)[i] = p[i]
  BY <1>6
<1> QED BY <1>1, <1>3, <1>5, <1>7, <1>8, <1>9 DEF Tables, Node

LEMMA MovedTable ==
  ASSUME NEW p \in Tables, NEW n \in Nodes, {Node(p), n} \in Roads
  PROVE  /\ Length[{Node(p), n}] \in Nat
         /\ Moved(p, n) \in Tables
         /\ Len(Moved(p, n)) = Len(p) + 1
         /\ \A i \in 1..Len(p) : Moved(p, n)[i] = p[i]
         /\ Moved(p, n)[Len(p) + 1] = [node |-> n, arr |-> Time(p) + Length[{Node(p), n}],
                                       dep |-> Time(p) + Length[{Node(p), n}]]
<1>1. Length[{Node(p), n}] \in Nat
  BY MapAssumption
<1> DEFINE s == [node |-> n, arr |-> Time(p) + Length[{Node(p), n}],
                 dep |-> Time(p) + Length[{Node(p), n}]]
<1>2. s \in Steps
  BY <1>1, LastStep DEF Steps
<1>3. Moved(p, n) = Append(p, s)
  BY DEF Moved
<1> HIDE DEF s
<1>4. p \in Seq(Steps) /\ Len(p) \in Nat
  BY LastStep
<1>5. /\ Append(p, s) \in Seq(Steps)
      /\ Len(Append(p, s)) = Len(p) + 1
      /\ \A i \in 1..Len(p) : Append(p, s)[i] = p[i]
      /\ Append(p, s)[Len(p) + 1] = s
  BY <1>2, <1>4
<1>6. Append(p, s) # <<>>
  BY <1>4, <1>5
<1> QED BY <1>1, <1>3, <1>5, <1>6 DEF Tables, s

LEMMA KeyType ==
  ASSUME NEW n \in Nodes, NEW t \in Nat, offset \in 0..Slot - 1
  PROVE  Key(n, t) \in Nodes \X Nat
<1>1. Slot \in Nat /\ Slot > 0 /\ offset \in Nat
  BY SearchAssumption
<1> DEFINE x == 2 * (offset + t) + Slot
           y == 2 * Slot
<1>2. x \in Nat /\ y \in Nat /\ y > 0
  BY <1>1
<1> HIDE DEF x, y
<1>3. x \div y \in Nat
  BY <1>2, SMTT(30)
<1> QED BY <1>3 DEF Key, x, y

-----------------------------------------------------------------------------
(* What is pushed after an expansion is again what it should be.           *)

LEMMA WaitedPartial ==
  ASSUME IInv, NEW p \in Tables, Partial(p), ~Done(p), CanWait(p)
  PROVE  Partial(Waited(p))
<1> DEFINE q == Waited(p)
<1>1. /\ q \in Tables /\ Len(q) = Len(p) /\ Node(q) = Node(p)
      /\ \A i \in 1..Len(p) : /\ q[i].node = p[i].node
                              /\ q[i].arr = p[i].arr
                              /\ i # Len(p) => q[i] = p[i]
      /\ q[Len(p)].dep = Time(p) + Wait
  BY WaitedTable
<1>2. Len(p) \in Nat \ {0}
  BY LastStep
<1> HIDE DEF q
<1>3. q[1].node = from
  BY <1>1, <1>2 DEF Partial
<1>4. ASSUME NEW i \in Links(q)
      PROVE  MoveFree(q, i)
  <2>1. i \in Links(p) /\ i \in 1..Len(p) /\ i + 1 \in 1..Len(p) /\ i # Len(p)
    BY <1>1, <1>2, <1>4 DEF Links
  <2>2. MoveFree(p, i)
    BY <2>1 DEF Partial
  <2>3. q[i] = p[i] /\ q[i + 1].node = p[i + 1].node /\ q[i + 1].arr = p[i + 1].arr
    BY <1>1, <2>1
  <2> QED BY <2>2, <2>3 DEF MoveFree, LinkEdge, LinkLeave, Arr, Dep
<1>5. ASSUME NEW i \in 1..Len(q)
      PROVE  StayFree(q, i)
  <2>1. CASE i = Len(p)
    <3>1. IsFree(ledger, Node(p), p[Len(p)].arr, Time(p) + Wait + Clearance, Self)
      BY DEF CanWait
    <3>2. p[Len(p)].arr \in Nat
      BY LastStep DEF Steps
    <3>3. Arr(q, i, 0) = p[Len(p)].arr /\ Dep(q, i, 0) = Time(p) + Wait /\ q[i].node = Node(p)
      <4>1. Time(p) + Wait \in Nat
        BY LastStep, SearchAssumption
      <4> QED BY <1>1, <1>2, <2>1, <3>2, <4>1 DEF Arr, Dep, Node
    <3> QED BY <3>1, <3>3 DEF StayFree
  <2>2. CASE i # Len(p)
    BY <1>1, <2>2 DEF Partial, StayFree, Arr, Dep
  <2> QED BY <2>1, <2>2
<1>6. Node(q) # Goal
  BY <1>1 DEF Done
<1> QED BY <1>3, <1>4, <1>5, <1>6 DEF Partial, q

LEMMA MovedPartial ==
  ASSUME IInv, NEW p \in Tables, Partial(p), ~Done(p), NEW n \in Nodes, CanMove(p, n)
  PROVE  Partial(Moved(p, n))
<1> DEFINE q == Moved(p, n)
           arrival == Time(p) + Length[{Node(p), n}]
<1>1. {Node(p), n} \in Roads
  BY DEF CanMove
<1>2. /\ Length[{Node(p), n}] \in Nat
      /\ q \in Tables /\ Len(q) = Len(p) + 1
      /\ \A i \in 1..Len(p) : q[i] = p[i]
      /\ q[Len(p) + 1] = [node |-> n, arr |-> arrival, dep |-> arrival]
  BY <1>1, MovedTable
<1>3. Len(p) \in Nat \ {0} /\ Time(p) \in Nat /\ arrival \in Nat
  BY <1>2, LastStep
<1>4. /\ IsFree(ledger, Edge(Node(p), n), Time(p), arrival + Clearance, Self)
      /\ IsFree(ledger, n, arrival, arrival + Stay(n), Self)
  BY DEF CanMove
<1>5. Node(p) # Goal /\ Time(p) < Window
  BY <1>3, SearchAssumption DEF Done
<1> HIDE DEF q, arrival
<1>6. q[1].node = from
  BY <1>2, <1>3 DEF Partial
<1>7. ASSUME NEW i \in Links(q)
      PROVE  MoveFree(q, i)
  <2>1. CASE i = Len(p)
    <3>1. /\ q[i].node = Node(p) /\ q[i].dep = Time(p)
          /\ q[i + 1].node = n /\ q[i + 1].arr = arrival
      BY <1>2, <1>3, <2>1 DEF Node, Time
    <3> QED BY <1>3, <1>4, <1>5, <3>1 DEF MoveFree, LinkEdge, LinkLeave, Arr, Dep, Stay
  <2>2. CASE i # Len(p)
    <3>1. i \in Links(p) /\ i \in 1..Len(p) /\ i + 1 \in 1..Len(p)
      BY <1>2, <1>3, <1>7, <2>2 DEF Links
    <3>2. q[i] = p[i] /\ q[i + 1] = p[i + 1] /\ MoveFree(p, i)
      BY <1>2, <3>1 DEF Partial
    <3> QED BY <3>2 DEF MoveFree, LinkEdge, LinkLeave, Arr, Dep
  <2> QED BY <2>1, <2>2
<1>8. ASSUME NEW i \in 1..Len(q)
      PROVE  StayFree(q, i)
  <2>1. CASE i = Len(p) + 1
    BY <1>2, <1>3, <2>1 DEF StayFree
  <2>2. CASE i # Len(p) + 1
    <3>1. i \in 1..Len(p)
      BY <1>2, <1>3, <1>8, <2>2
    <3>2. q[i] = p[i] /\ StayFree(p, i)
      BY <1>2, <3>1 DEF Partial
    <3> QED BY <3>2 DEF StayFree, Arr, Dep
  <2> QED BY <2>1, <2>2
<1>9. q[Len(q)].dep = q[Len(q)].arr
  BY <1>2, <1>3
<1> QED BY <1>6, <1>7, <1>8, <1>9 DEF Partial, q

LEMMA SuccessorsPartial ==
  ASSUME IInv, NEW p \in Tables, Partial(p), ~Done(p), NEW done
  PROVE  /\ Successors(p, done) \subseteq Tables
         /\ \A q \in Successors(p, done) : Partial(q)
<1> SUFFICES ASSUME NEW q \in Successors(p, done)
             PROVE  q \in Tables /\ Partial(q)
  OBVIOUS
<1>1. CASE q = Waited(p) /\ CanWait(p)
  BY <1>1, WaitedTable, WaitedPartial
<1>2. CASE \E n \in Nodes : CanMove(p, n) /\ q = Moved(p, n)
  <2>1. PICK n \in Nodes : CanMove(p, n) /\ q = Moved(p, n)
    BY <1>2
  <2>2. {Node(p), n} \in Roads
    BY <2>1 DEF CanMove
  <2> QED BY <2>1, <2>2, MovedTable, MovedPartial
<1> QED BY <1>1, <1>2 DEF Successors

-----------------------------------------------------------------------------
(* Every step keeps the invariant.                                         *)

(* Partial reads the start and the ledger, which stand while a search runs.*)
LEMMA PartialStands ==
  ASSUME UNCHANGED <<from, ledger>>, NEW p, Partial(p)
  PROVE  Partial(p)'
BY DEF Partial, MoveFree, StayFree, Node

LEMMA InitIInv == Init => IInv
<1> SUFFICES ASSUME Init PROVE IInv
  OBVIOUS
<1>1. TypeOK
  <2>1. 0 \in 0..Slot - 1 /\ 0 \in 0..MaxSearches
    BY SearchAssumption
  <2> QED BY <2>1 DEF Init, TypeOK
<1>2. Sound
  BY DEF Init, Sound, ResultKeepsContract
<1> QED BY <1>1, <1>2 DEF IInv

LEMMA BeginKeeps == ASSUME IInv, NEW n \in Nodes, Begin(n) PROVE IInv'
<1> DEFINE p == <<[node |-> n, arr |-> 0, dep |-> 0]>>
<1>1. p \in Seq(Steps) /\ Len(p) = 1 /\ p[1] = [node |-> n, arr |-> 0, dep |-> 0] /\ p # <<>>
  BY DEF Steps
<1>2. searches' \in 0..MaxSearches
  BY SearchAssumption DEF Begin, IInv, TypeOK
<1>3. TypeOK'
  BY <1>1, <1>2 DEF Begin, IInv, TypeOK, Tables
<1>4. Partial(p)'
  <2>1. p[1].node = from' /\ p[Len(p)].dep = p[Len(p)].arr
    BY <1>1 DEF Begin
  <2>2. Links(p) = {} /\ 1..Len(p) = {1}
    BY <1>1 DEF Links
  <2> HIDE DEF p
  <2>3. StayFree(p, 1)'
    BY <1>1 DEF StayFree
  <2> QED BY <2>1, <2>2, <2>3 DEF Partial
<1>5. Sound'
  <2>1. n # NONE
    BY MapAssumption
  <2> QED BY <1>4, <2>1 DEF Begin, Sound, ResultKeepsContract
<1> QED BY <1>3, <1>5 DEF IInv

LEMMA OracleKeeps == ASSUME IInv, UNCHANGED searchVars PROVE IInv'
<1>1. TypeOK'
  BY DEF IInv, TypeOK, searchVars
<1>2. \A p \in todo' \cup openList' : Partial(p)'
  BY PartialStands DEF IInv, Sound, searchVars
<1>3. ResultKeepsContract'
  BY DEF IInv, Sound, ResultKeepsContract, searchVars, Found
<1>4. (searching \/ todo = {})' /\ (todo = {} \/ from # NONE)'
  BY DEF IInv, Sound, searchVars
<1> QED BY <1>1, <1>2, <1>3, <1>4 DEF IInv, Sound

LEMMA PushKeeps == ASSUME IInv, NEW q \in todo, Push(q) PROVE IInv'
<1>1. q \in Tables
  BY DEF IInv, TypeOK
<1>2. <<Node(q), Time(q)>> \in Nodes \X Nat
  BY <1>1, LastStep
<1>3. TypeOK'
  BY <1>1, <1>2 DEF IInv, TypeOK, Push
<1>4. \A p \in todo' \cup openList' : Partial(p)'
  BY PartialStands DEF IInv, Sound, Push
<1>5. ResultKeepsContract'
  BY DEF IInv, Sound, ResultKeepsContract, Push, Found
<1>6. (searching \/ todo = {})' /\ (todo = {} \/ from # NONE)'
  BY DEF IInv, Sound, Push
<1> QED BY <1>3, <1>4, <1>5, <1>6 DEF IInv, Sound

LEMMA PopTypes ==
  ASSUME IInv, NEW p \in openList, Pop(p)
  PROVE  /\ p \in Tables /\ Partial(p)
         /\ searching /\ todo = {}
         /\ Close(p) \subseteq Nodes \X Nat
         /\ openList' \subseteq openList
         /\ UNCHANGED <<searches, from, ledger, offset, registry>>
<1>1. p \in Tables /\ Partial(p)
  BY DEF IInv, TypeOK, Sound
<1>2. Node(p) \in Nodes /\ Time(p) \in Nat
  BY <1>1, LastStep
<1>3. Key(Node(p), Time(p)) \in Nodes \X Nat
  BY <1>2, KeyType DEF IInv, TypeOK
<1> QED BY <1>1, <1>3 DEF Pop, Close, IInv, TypeOK

LEMMA SkipKeeps == ASSUME IInv, NEW p \in openList, Skip(p) PROVE IInv'
<1>1. /\ todo' = todo /\ openList' \subseteq openList
      /\ UNCHANGED <<searching, result, closed, searches, from, ledger, offset, registry>>
  BY PopTypes DEF Skip
<1>2. TypeOK'
  BY <1>1 DEF IInv, TypeOK
<1>3. \A q \in todo' \cup openList' : Partial(q)'
  BY <1>1, PartialStands DEF IInv, Sound
<1>4. ResultKeepsContract'
  BY <1>1 DEF IInv, Sound, ResultKeepsContract, Found
<1> QED BY <1>1, <1>2, <1>3, <1>4 DEF IInv, Sound

(* The table that ends the search is the contract's table.                 *)
LEMMA FinishKeeps == ASSUME IInv, NEW p \in openList, Finish(p) PROVE IInv'
<1>1. /\ p \in Tables /\ Partial(p) /\ searching /\ todo = {}
      /\ Close(p) \subseteq Nodes \X Nat
      /\ openList' \subseteq openList
      /\ UNCHANGED <<searches, from, ledger, offset, registry>>
  BY PopTypes DEF Finish
<1>2. Done(p) /\ closed' = Close(p) /\ searching' = FALSE /\ result' = p /\ todo' = todo
  BY DEF Finish
<1>3. p \in Seq(Steps)
  BY <1>1, LastStep
<1>4. TypeOK'
  BY <1>1, <1>2, <1>3 DEF IInv, TypeOK
<1>5. \A q \in todo' \cup openList' : Partial(q)'
  BY <1>1, <1>2, PartialStands DEF IInv, Sound
<1>6. Found(ledger, Self, p, from, Goal, 0)
  <2>1. \/ p[Len(p)].node = Goal /\ p[Len(p)].dep = p[Len(p)].arr
        \/ p[Len(p)].node # Goal /\ p[Len(p)].dep >= Window
    BY <1>1, <1>2 DEF Done, Partial, Node, Time
  <2>2. p[1].node = from
    BY <1>1 DEF Partial
  <2>3. \A i \in Links(p) : MoveFree(p, i)
    BY <1>1 DEF Partial
  <2>4. \A i \in 1..Len(p) : StayFree(p, i)
    BY <1>1 DEF Partial
  <2> QED BY <2>1, <2>2, <2>3, <2>4 DEF Found, MoveFree, StayFree
<1>7. ResultKeepsContract'
  BY <1>1, <1>2, <1>6 DEF ResultKeepsContract
<1> QED BY <1>1, <1>2, <1>4, <1>5, <1>7 DEF IInv, Sound

LEMMA ExpandKeeps == ASSUME IInv, NEW p \in openList, Expand(p) PROVE IInv'
<1>1. /\ p \in Tables /\ Partial(p) /\ searching /\ todo = {}
      /\ Close(p) \subseteq Nodes \X Nat
      /\ openList' \subseteq openList
      /\ UNCHANGED <<searches, from, ledger, offset, registry>>
  BY PopTypes DEF Expand
<1>2. /\ ~Done(p) /\ closed' = Close(p) /\ todo' = Successors(p, Close(p))
      /\ UNCHANGED <<searching, result>>
  BY DEF Expand
<1>3. todo' \subseteq Tables /\ \A q \in todo' : Partial(q)
  BY <1>1, <1>2, SuccessorsPartial
<1>4. TypeOK'
  BY <1>1, <1>2, <1>3 DEF IInv, TypeOK
<1>5. \A q \in todo' \cup openList' : Partial(q)'
  BY <1>1, <1>3, PartialStands DEF IInv, Sound
<1>6. ResultKeepsContract'
  BY <1>1, <1>2 DEF IInv, Sound, ResultKeepsContract, Found
<1>7. from # NONE
  <2>1. 1 \in 1..Len(p) /\ p[1] \in Steps
    BY <1>1, LastStep
  <2>2. from \in Nodes
    BY <1>1, <2>1 DEF Partial, Steps
  <2> QED BY <2>2, MapAssumption
<1> QED BY <1>1, <1>2, <1>4, <1>5, <1>6, <1>7 DEF IInv, Sound

LEMMA RunDryKeeps == ASSUME IInv, RunDry PROVE IInv'
<1>1. TypeOK'
  <2>1. <<>> \in Seq(Steps)
    OBVIOUS
  <2> QED BY <2>1 DEF IInv, TypeOK, RunDry
<1>2. Sound'
  BY DEF IInv, Sound, RunDry, ResultKeepsContract
<1> QED BY <1>1, <1>2 DEF IInv

LEMMA StepKeeps == IInv /\ [Next]_vars => IInv'
<1> SUFFICES ASSUME IInv, [Next]_vars PROVE IInv'
  OBVIOUS
<1>1. CASE UNCHANGED vars
  BY <1>1, OracleKeeps DEF vars
<1>2. CASE AskOracle \/ OracleStep
  BY <1>2, OracleKeeps DEF AskOracle, OracleStep
<1>3. CASE RunDry
  BY <1>3, RunDryKeeps
<1>4. CASE \E q \in todo : Push(q)
  BY <1>4, PushKeeps
<1>5. CASE \E p \in openList : Skip(p) \/ Finish(p) \/ Expand(p)
  BY <1>5, SkipKeeps, FinishKeeps, ExpandKeeps
<1>6. CASE \E n \in Nodes : Begin(n)
  BY <1>6, BeginKeeps
<1> QED BY <1>1, <1>2, <1>3, <1>4, <1>5, <1>6 DEF Next, Search

-----------------------------------------------------------------------------
LEMMA AlwaysIInv == Spec => []IInv
BY InitIInv, StepKeeps, PTL DEF Spec

(* The state of the search keeps its types.                                *)
THEOREM TypeCorrect == Spec => []TypeOK
<1>1. IInv => TypeOK
  BY DEF IInv
<1> QED BY <1>1, AlwaysIInv, PTL

(* Every table that FindPath returns was free when it was looked at, step  *)
(* by step, and ends at the target or at the end of the window: what the   *)
(* planner takes for granted before it books.                              *)
THEOREM SearchKeepsContract == Spec => []ResultKeepsContract
<1>1. IInv => ResultKeepsContract
  BY DEF IInv, Sound
<1> QED BY <1>1, AlwaysIInv, PTL

-----------------------------------------------------------------------------
(* The oracle under the queries of searches: its own proofs, instantiated. *)
OP == INSTANCE RRAStar_proofs WITH open <- rraOpen, closed <- rraClosed

LEMMA SameRoads == OP!Roads = Roads
BY DEF Roads, OP!Roads

LEMMA SameFinite == OP!IsFiniteSet(Nodes) <=> IsFiniteSet(Nodes)
BY DEF IsFiniteSet, OP!IsFiniteSet

LEMMA InitOracle == Init => OP!IInv
<1>1. Oracle!Init => OP!Init
  BY DEF Oracle!Init, OP!Init
<1>2. OP!Init => OP!IInv
  BY OP!InitIInv, MapAssumption, SameRoads, SameFinite
<1> QED BY <1>1, <1>2 DEF Init

(* A query by the search is a query of the oracle.                         *)
LEMMA SearchAsksOracle ==
  ASSUME IInv, AskOracle
  PROVE  OP!Next
<1>1. PICK q \in todo : Oracle!Hit(Node(q)) \/ Oracle!Ask(Node(q))
  BY DEF AskOracle
<1>2. Node(q) \in Nodes
  BY LastStep DEF IInv, TypeOK
<1>3. OP!Hit(Node(q)) \/ OP!Ask(Node(q))
  BY <1>1 DEF Oracle!Hit, Oracle!Ask, Oracle!Known, OP!Hit, OP!Ask, OP!Known
<1> QED BY <1>2, <1>3 DEF OP!Next

LEMMA OracleRuns == OracleStep => OP!Next
<1>1. Oracle!Skip => OP!Skip
  BY DEF Oracle!Skip, Oracle!Pop, Oracle!Known, OP!Skip, OP!Pop, OP!Known
<1>2. Oracle!Find => OP!Find
  BY DEF Oracle!Find, Oracle!Pop, Oracle!Known, OP!Find, OP!Pop, OP!Known
<1>3. Oracle!Expand => OP!Expand
  BY SameRoads DEF Oracle!Expand, Oracle!Pop, Oracle!Known, OP!Expand, OP!Pop, OP!Known,
     Oracle!Expansion, OP!Expansion, Oracle!Neighbours, OP!Neighbours, Oracle!Roads, OP!Roads
<1>4. Oracle!GiveUp => OP!GiveUp
  BY DEF Oracle!GiveUp, OP!GiveUp
<1> QED BY <1>1, <1>2, <1>3, <1>4 DEF OracleStep, OP!Next

(* Every step of the search is a step of the oracle or leaves it alone.    *)
LEMMA SearchRunsOracle == ASSUME IInv, [Next]_vars PROVE [OP!Next]_OP!vars
<1>1. CASE UNCHANGED oracleVars
  BY <1>1 DEF oracleVars, OP!vars
<1>2. CASE AskOracle \/ OracleStep
  BY <1>2, SearchAsksOracle, OracleRuns
<1>3. CASE \/ RunDry
           \/ \E q \in todo : Push(q)
           \/ \E p \in openList : Skip(p) \/ Finish(p) \/ Expand(p)
           \/ \E n \in Nodes : Begin(n)
  <2>1. UNCHANGED oracleVars
    BY <1>3 DEF RunDry, Push, Skip, Finish, Expand, Pop, Begin
  <2> QED BY <1>1, <2>1
<1>4. CASE UNCHANGED vars
  BY <1>1, <1>4 DEF vars
<1> QED BY <1>2, <1>3, <1>4 DEF Next, Search

LEMMA OracleStepKeeps ==
  ASSUME IInv, OP!IInv, [Next]_vars
  PROVE  OP!IInv' /\ \A n \in Nodes : answer[n] # NONE => answer'[n] = answer[n]
<1>1. [OP!Next]_OP!vars
  BY SearchRunsOracle
<1> QED BY <1>1, OP!StepKeeps, MapAssumption, SameRoads, SameFinite

LEMMA AlwaysOracle == Spec => []OP!IInv
<1>1. Init => OP!IInv
  BY InitOracle
<1>2. IInv /\ OP!IInv /\ [Next]_vars => OP!IInv'
  BY OracleStepKeeps
<1> QED BY <1>1, <1>2, AlwaysIInv, PTL DEF Spec

(* Whatever the searches ask for, in whatever order: what is open is never *)
(* nearer than what is closed.                                             *)
THEOREM FrontierStaysBeyond == Spec => []FrontierBeyondClosed
<1>1. OP!IInv => FrontierBeyondClosed
  BY DEF OP!IInv, OP!FrontierBeyondClosed, OP!Known, FrontierBeyondClosed,
     Oracle!FrontierBeyondClosed, Oracle!Known
<1> QED BY <1>1, AlwaysOracle, PTL

(* No search changes what an earlier one was told.                         *)
THEOREM AnswersStandForGood == Spec => AnswersStand
<1>1. IInv /\ OP!IInv /\ [Next]_vars =>
        [\A n \in Nodes : answer[n] # NONE => answer'[n] = answer[n]]_Oracle!vars
  BY OracleStepKeeps
<1> QED BY <1>1, AlwaysIInv, AlwaysOracle, PTL DEF Spec, AnswersStand, Oracle!AnswersStand

(* The reference of the oracle's properties is the same in both instances. *)
LEMMA SameShortest == OP!Shortest = Oracle!Shortest
BY Zenon DEF OP!Shortest, Oracle!Shortest, OP!Arrivals, Oracle!Arrivals,
   OP!Cardinality, Oracle!Cardinality, OP!IsFiniteSet, Oracle!IsFiniteSet,
   OP!Neighbours, Oracle!Neighbours, OP!Roads, Oracle!Roads, OP!Min, Oracle!Min

LEMMA InitOracleFully == Init => OP!OInv
<1>1. Oracle!Init => OP!Init
  BY DEF Oracle!Init, OP!Init
<1>2. OP!Init => OP!OInv
  BY OP!InitOInv, MapAssumption, SameRoads, SameFinite
<1> QED BY <1>1, <1>2 DEF Init

LEMMA OracleStepKeepsFully ==
  ASSUME IInv, OP!OInv, [Next]_vars
  PROVE  OP!OInv'
<1>1. [OP!Next]_OP!vars
  BY SearchRunsOracle
<1> QED BY <1>1, OP!OInvStep, MapAssumption, SameRoads, SameFinite

LEMMA AlwaysOracleFully == Spec => []OP!OInv
<1>1. Init => OP!OInv
  BY InitOracleFully
<1>2. IInv /\ OP!OInv /\ [Next]_vars => OP!OInv'
  BY OracleStepKeepsFully
<1> QED BY <1>1, <1>2, AlwaysIInv, PTL DEF Spec

(* Under the searches of a run no distance is too short.                   *)
THEOREM NoDistanceTooShort == Spec => []NeverTooShort
<1>1. OP!OInv => OP!NeverTooShort
  BY OP!OInvNeverTooShort, MapAssumption, SameRoads, SameFinite
<1>2. OP!NeverTooShort => NeverTooShort
  BY SameShortest DEF NeverTooShort, OP!NeverTooShort, Oracle!NeverTooShort,
     OP!Known, Oracle!Known
<1>3. OP!OInv => NeverTooShort
  BY <1>1, <1>2
<1> QED BY <1>3, AlwaysOracleFully, PTL

(* Until the first distance of a run has been told, all of them are exact. *)
THEOREM FirstQueryIsExact == Spec => []FirstQueryExact
<1>1. OP!OInv => OP!FirstQueryExact
  BY OP!OInvFirstQueryExact, MapAssumption, SameRoads, SameFinite
<1>2. OP!FirstQueryExact => FirstQueryExact
  BY SameShortest DEF FirstQueryExact, OP!FirstQueryExact, Oracle!FirstQueryExact,
     OP!Known, Oracle!Known
<1>3. OP!OInv => FirstQueryExact
  BY <1>1, <1>2
<1> QED BY <1>3, AlwaysOracleFully, PTL

-----------------------------------------------------------------------------
(* PromiseKept.  A distance that the oracle has told is that of a way of   *)
(* closed nodes to the goal.  While a search runs on free roads, the next  *)
(* node of such a way is always in reach: some table leads to it in time.  *)

Told(n) == rraClosed[n] # NONE

(* n comes after m on the way that m's distance is the length of.          *)
Follows(m, n) ==
  Told(n) /\ {n, m} \in Roads /\ rraClosed[m] = rraClosed[n] + Length[{n, m}]

(* Some table that ends at n was expanded.                                 *)
Shut(n) == \E k \in closed : k[1] = n

Heads == todo \cup openList

(* A table that is not closed yet and arrives early enough to go on for    *)
(* the told distance of its node and still keep the promise.               *)
Promising(q, n) ==
  /\ q \in Heads
  /\ Node(q) = n
  /\ Key(n, Time(q)) \notin closed
  /\ Told(n)
  /\ Time(q) + rraClosed[n] <= answer[from]

Root(q) == Node(q) = from /\ Time(q) = 0

(* What a search remembers of the tables it had.                           *)
Remembers ==
  /\ \A p \in Heads : \A i \in Links(p) : Shut(p[i].node)
  /\ \A p \in openList : answer[Node(p)] # NONE
  /\ \A n \in Nodes : Shut(n) => answer[n] # NONE /\ n # Goal
  /\ closed = {} => (\A q \in Heads : Root(q)) /\ Heads # {}
  /\ closed # {} => Shut(from)
  /\ \A r \in registry :
       \/ Key(r[1], r[2]) \in closed
       \/ \E q \in openList : Node(q) = r[1] /\ Time(q) = r[2]

(* Every node that was expanded leads on.                                  *)
LeadsOn ==
  \A m \in Nodes : Shut(m) /\ Told(m) =>
    \E n \in Nodes : Follows(m, n) /\ (Shut(n) \/ \E q \in Heads : Promising(q, n))

OnFreeRoads == Foreign = {} /\ answer[from] \in Nat

PInv ==
  /\ searching => from \in Nodes /\ Remembers /\ (OnFreeRoads => LeadsOn)
  /\ result # NONE => from \in Nodes /\ answer[from] # NONE
  /\ result \notin {NONE, <<>>} => answer[Node(result)] # NONE
  /\ PromiseKept

-----------------------------------------------------------------------------
LEMMA OracleFacts ==
  ASSUME OP!OInv
  PROVE  /\ rraClosed \in [Nodes -> Nat \cup {NONE}]
         /\ answer \in [Nodes -> Nat \cup {NONE, Far}]
         /\ \A n \in Nodes : answer[n] \in Nat => rraClosed[n] = answer[n]
         /\ \A n \in Nodes : answer[n] = Far => ~Told(n)
         /\ \A m \in Nodes : Told(m) /\ m # Goal => \E n \in Nodes : Follows(m, n)
<1>1. OP!TypeOK /\ OP!AnswersFromClosed /\ OP!GoesOn
  BY DEF OP!OInv, OP!IInv
<1>2. ASSUME NEW m \in Nodes, Told(m), m # Goal PROVE \E n \in Nodes : Follows(m, n)
  <2>1. m \in OP!KnownNodes
    BY <1>2 DEF Told, OP!KnownNodes, OP!Known
  <2>2. PICK n \in OP!KnownNodes :
          {n, m} \in Roads /\ rraClosed[m] = rraClosed[n] + Length[{n, m}]
    BY <1>1, <1>2, <2>1, SameRoads DEF OP!GoesOn, OP!Beyond
  <2>3. QED
    BY <2>2 DEF Follows, Told, OP!KnownNodes, OP!Known
<1>3. QED
  BY <1>1, <1>2 DEF OP!TypeOK, OP!AnswersFromClosed, OP!Known, Told

LEMMA OracleStands ==
  ASSUME IInv, OP!OInv, [Next]_vars, NEW n \in Nodes
  PROVE  /\ answer[n] # NONE => answer'[n] = answer[n]
         /\ Told(n) => rraClosed'[n] = rraClosed[n]
<1>1. [OP!Next]_OP!vars /\ OP!IInv
  BY SearchRunsOracle DEF OP!OInv
<1>2. answer[n] # NONE => answer'[n] = answer[n]
  BY <1>1, OP!StepKeeps, MapAssumption, SameRoads, SameFinite
<1>3. Told(n) => rraClosed'[n] = rraClosed[n]
  BY <1>1, OP!ClosedStands, MapAssumption, SameRoads, SameFinite DEF Told, OP!Known
<1> QED BY <1>2, <1>3

LEMMA RoadLength ==
  ASSUME NEW m \in Nodes, NEW n \in Nodes, {n, m} \in Roads
  PROVE  Length[{n, m}] \in Nat \ {0} /\ m # n
<1>1. PICK a, b \in Nodes : a # b /\ {n, m} = {a, b}
  BY MapAssumption
<1> QED BY <1>1, MapAssumption

(* On free roads a search that runs has a table that can keep the promise: *)
(* otherwise the expanded node of least distance would lead on to another. *)
LEMMA SomeonePromising ==
  ASSUME IInv, OP!OInv, from \in Nodes, Remembers, OnFreeRoads, LeadsOn
  PROVE  \E n \in Nodes : \E q \in Heads : Promising(q, n)
<1> USE OracleFacts
<1>1. from \in Nodes /\ rraClosed[from] = answer[from] /\ Told(from)
  <2>1. answer[from] \in Nat
    BY DEF OnFreeRoads
  <2>2. rraClosed[from] = answer[from]
    BY <2>1
  <2> QED BY <2>1, <2>2, MapAssumption DEF Told
<1>2. answer[from] \in Nat
  BY DEF OnFreeRoads
<1>3. CASE closed = {}
  <2>1. PICK q \in Heads : Root(q)
    BY <1>3 DEF Remembers
  <2>2. Promising(q, from)
    BY <1>1, <1>2, <1>3, <2>1 DEF Promising, Root
  <2> QED BY <1>1, <2>2
<1>4. CASE closed # {}
  <2> DEFINE M == {m \in Nodes : Shut(m) /\ Told(m)}
             T == {rraClosed[m] : m \in M}
  <2>1. from \in M
    BY <1>1, <1>4 DEF Remembers
  <2>2. \A m \in M : rraClosed[m] \in Nat /\ m \in Nodes /\ Shut(m) /\ Told(m)
    BY DEF Told
  <2>3. T \subseteq Nat /\ T # {}
    BY <2>1, <2>2
  <2>4. PICK x \in T : \A y \in T : x <= y
    <3> HIDE DEF T
    <3> QED BY <2>3, OP!LeastNumber, MapAssumption, SameRoads, SameFinite
  <2>5. PICK m \in M : x = rraClosed[m]
    BY <2>4
  <2>6. PICK n \in Nodes : Follows(m, n) /\ (Shut(n) \/ \E q \in Heads : Promising(q, n))
    BY <2>2, <2>5 DEF LeadsOn
  <2>7. n \notin M
    <3> SUFFICES ASSUME n \in M PROVE FALSE
      OBVIOUS
    <3>1. rraClosed[m] \in Nat /\ rraClosed[n] \in Nat /\ rraClosed[m] <= rraClosed[n]
      BY <2>2, <2>4, <2>5
    <3>2. Length[{n, m}] \in Nat \ {0}
      BY <2>2, <2>6, RoadLength DEF Follows
    <3>3. rraClosed[m] = rraClosed[n] + Length[{n, m}]
      BY <2>6 DEF Follows
    <3> QED BY <3>1, <3>2, <3>3
  <2>8. ~Shut(n)
    BY <2>6, <2>7 DEF Follows
  <2> QED BY <2>6, <2>8
<1> QED BY <1>3, <1>4

(* So what leaves the heap costs no more than was promised, and the heap   *)
(* does not run dry.                                                       *)
LEMMA PoppedKeepsPromise ==
  ASSUME IInv, OP!OInv, PInv, OnFreeRoads, NEW p \in openList, Pop(p)
  PROVE  /\ Cost(p) <= answer[from] /\ Time(p) \in Nat /\ Node(p) \in Nodes
         /\ Told(Node(p)) => /\ Estimate(Node(p)) = rraClosed[Node(p)]
                             /\ rraClosed[Node(p)] \in Nat
         /\ Estimate(Node(p)) \in Nat
<1> USE OracleFacts
<1>1. searching /\ todo = {} /\ from \in Nodes /\ Remembers /\ LeadsOn
  BY DEF Pop, PInv
<1>2. PICK n \in Nodes : \E q \in Heads : Promising(q, n)
  BY <1>1, SomeonePromising
<1>3. PICK q \in Heads : Promising(q, n)
  BY <1>2
<1>4. q \in openList /\ Node(q) = n
  BY <1>1, <1>3 DEF Heads, Promising
<1>5. ASSUME NEW r \in openList
      PROVE  /\ Time(r) \in Nat /\ Node(r) \in Nodes
             /\ Told(Node(r)) => /\ Estimate(Node(r)) = rraClosed[Node(r)]
                                 /\ rraClosed[Node(r)] \in Nat
             /\ Estimate(Node(r)) \in Nat
  <2>1. Time(r) \in Nat /\ Node(r) \in Nodes
    BY LastStep DEF IInv, TypeOK
  <2>2. answer[Node(r)] # NONE
    BY <1>1 DEF Remembers
  <2>3. CASE answer[Node(r)] = Far
    BY <2>1, <2>3, SearchAssumption DEF Estimate
  <2>4. CASE answer[Node(r)] \in Nat
    BY <2>1, <2>4, MapAssumption DEF Estimate
  <2> QED BY <2>1, <2>2, <2>3, <2>4
<1>6. Cost(q) = Time(q) + rraClosed[n] /\ Cost(q) <= answer[from]
  BY <1>3, <1>4, <1>5 DEF Promising, Cost
<1>7. Cost(p) <= Cost(q) /\ Cost(p) \in Nat /\ Cost(q) \in Nat
  BY <1>4, <1>5 DEF Pop, Cost
<1>8. answer[from] \in Nat
  BY DEF OnFreeRoads
<1>9. Cost(p) <= answer[from]
  BY <1>6, <1>7, <1>8
<1> QED BY <1>5, <1>9

(* What is said of the search so far depends on what it keeps.             *)
LEMMA ShutStands ==
  ASSUME closed \subseteq closed', NEW n, Shut(n) PROVE Shut(n)'
BY DEF Shut

LEMMA InitPInv == Init => PInv
BY DEF Init, PInv, PromiseKept

LEMMA BeginPromise == ASSUME PInv, NEW n \in Nodes, Begin(n) PROVE PInv'
<1> DEFINE p == <<[node |-> n, arr |-> 0, dep |-> 0]>>
<1>1. Len(p) = 1 /\ p[1] = [node |-> n, arr |-> 0, dep |-> 0] /\ Node(p) = n /\ Time(p) = 0
  BY DEF Node, Time
<1>2. /\ todo' = {p} /\ openList' = {} /\ registry' = {} /\ closed' = {} /\ result' = NONE
      /\ from' = n
  BY DEF Begin
<1> HIDE DEF p
<1>3. Links(p) = {}
  BY <1>1 DEF Links
<1>4. \A m : ~Shut(m)'
  BY <1>2 DEF Shut
<1>5. Root(p)'
  BY <1>1, <1>2 DEF Root, Node, Time
<1>6. Heads' = {p}
  BY <1>2 DEF Heads
<1>7. Remembers'
  BY <1>2, <1>3, <1>4, <1>5, <1>6 DEF Remembers, Root, Node, Time
<1>8. LeadsOn'
  BY <1>4 DEF LeadsOn
<1>9. PromiseKept'
  BY <1>2 DEF PromiseKept
<1> QED BY <1>2, <1>7, <1>8, <1>9 DEF PInv

(* The oracle runs on: what it told stands, and what is expanded has been  *)
(* told before.                                                            *)
LEMMA OraclePromise ==
  ASSUME IInv, OP!OInv, OP!OInv', PInv, [Next]_vars, UNCHANGED searchVars
  PROVE  PInv'
<1>1. \A n \in Nodes : /\ answer[n] # NONE => answer'[n] = answer[n]
                       /\ Told(n) => rraClosed'[n] = rraClosed[n]
  BY OracleStands
<1>2. /\ UNCHANGED <<searching, from, ledger, todo, openList, registry, closed, result, offset>>
      /\ Heads' = Heads /\ \A n : Shut(n)' <=> Shut(n)
  BY DEF searchVars, Heads, Shut
<1>3. /\ \A n \in Nodes : answer'[n] \in Nat => rraClosed'[n] = answer'[n]
      /\ \A n \in Nodes : answer'[n] = Far => rraClosed'[n] = NONE
      /\ answer' \in [Nodes -> Nat \cup {NONE, Far}]
  <2>1. OP!TypeOK' /\ OP!AnswersFromClosed'
    BY DEF OP!OInv, OP!IInv
  <2> QED BY <2>1 DEF OP!TypeOK, OP!AnswersFromClosed, OP!Known
<1>4. \A p \in openList : Node(p) \in Nodes
  BY LastStep DEF IInv, TypeOK
<1>5. Remembers => Remembers'
  <2> SUFFICES ASSUME Remembers PROVE Remembers'
    OBVIOUS
  <2>1. \A p \in Heads' : \A i \in Links(p) : Shut(p[i].node)'
    BY <1>2 DEF Remembers
  <2>2. \A p \in openList' : answer'[Node(p)] # NONE
    BY <1>1, <1>2, <1>4 DEF Remembers
  <2>3. \A n \in Nodes : Shut(n)' => answer'[n] # NONE /\ n # Goal
    BY <1>1, <1>2 DEF Remembers
  <2>4. closed' = {} => (\A q \in Heads' : Root(q)') /\ Heads' # {}
    BY <1>2 DEF Remembers, Root, Node, Time
  <2>5. closed' # {} => Shut(from)'
    BY <1>2 DEF Remembers, Shut
  <2>6. \A r \in registry' :
          \/ Key(r[1], r[2])' \in closed'
          \/ \E q \in openList' : Node(q) = r[1] /\ Time(q) = r[2]
    BY <1>2 DEF Remembers, Key
  <2> QED BY <2>1, <2>2, <2>3, <2>4, <2>5, <2>6 DEF Remembers, Node, Time
<1>6. ASSUME searching, from \in Nodes, Remembers, OnFreeRoads => LeadsOn, OnFreeRoads'
      PROVE  LeadsOn'
  <2>1. CASE answer[from] = NONE
    <3>1. closed = {}
      BY <1>6, <2>1 DEF Remembers
    <3> QED BY <1>2, <3>1 DEF LeadsOn, Shut
  <2>2. CASE answer[from] # NONE
    <3>1. OnFreeRoads /\ answer'[from] = answer[from]
      BY <1>1, <1>2, <1>6, <2>2 DEF OnFreeRoads, Foreign
    <3>2. LeadsOn
      BY <1>6, <3>1
    <3>3. ASSUME NEW m \in Nodes, Shut(m)', Told(m)'
          PROVE  \E n \in Nodes : Follows(m, n)' /\ (Shut(n)' \/ \E q \in Heads' : Promising(q, n)')
      <4>1. Shut(m) /\ answer[m] # NONE
        BY <1>2, <1>6, <3>3 DEF Remembers
      <4>2. answer'[m] = answer[m] /\ answer'[m] # Far
        BY <1>1, <1>3, <3>3, <4>1 DEF Told
      <4>3. answer[m] \in Nat /\ Told(m)
        <5>1. answer'[m] \in Nat
          BY <1>3, <4>1, <4>2
        <5>2. rraClosed[m] = answer[m]
          BY <4>2, <5>1, OracleFacts
        <5> QED BY <4>2, <5>1, <5>2, MapAssumption DEF Told
      <4>4. PICK n \in Nodes : Follows(m, n) /\ (Shut(n) \/ \E q \in Heads : Promising(q, n))
        BY <3>2, <4>1, <4>3 DEF LeadsOn
      <4>5. Told(n) /\ rraClosed'[n] = rraClosed[n] /\ rraClosed'[m] = rraClosed[m] /\ Told(n)'
        BY <1>1, <4>3, <4>4 DEF Follows, Told
      <4>6. Follows(m, n)'
        BY <4>4, <4>5 DEF Follows
      <4>7. \A q \in Heads : Promising(q, n) => Promising(q, n)'
        BY <1>2, <3>1, <4>5 DEF Promising, Key, Node, Time
      <4> QED BY <1>2, <4>4, <4>6, <4>7
    <3> QED BY <3>3 DEF LeadsOn
  <2> QED BY <2>1, <2>2
<1>7. result # NONE => answer'[from] = answer[from]
  BY <1>1 DEF PInv
<1>8. result \notin {NONE, <<>>} => answer'[Node(result)] = answer[Node(result)]
  <2> SUFFICES ASSUME result \notin {NONE, <<>>} PROVE answer'[Node(result)] = answer[Node(result)]
    OBVIOUS
  <2>1. result \in Tables
    BY DEF IInv, TypeOK, Tables
  <2>2. Node(result) \in Nodes
    BY <2>1, LastStep
  <2> QED BY <1>1, <2>2 DEF PInv
<1>9. PromiseKept'
  <2>1. CASE result \in {NONE, <<>>}
    BY <1>2, <1>7, <2>1 DEF PInv, PromiseKept, Foreign
  <2>2. CASE result \notin {NONE, <<>>}
    BY <1>2, <1>7, <1>8, <2>2 DEF PInv, PromiseKept, Foreign, Estimate, Node, Time
  <2> QED BY <2>1, <2>2
<1> QED BY <1>2, <1>5, <1>6, <1>7, <1>8, <1>9 DEF PInv, Node

(* A table goes from the successors to the heap.                           *)
LEMMA PushPromise == ASSUME IInv, PInv, NEW q \in todo, Push(q) PROVE PInv'
<1>1. /\ Heads' = Heads
      /\ todo' \subseteq todo /\ openList' = openList \cup {q}
      /\ registry' = registry \cup {<<Node(q), Time(q)>>}
      /\ UNCHANGED <<searching, from, ledger, offset, closed, result, rraClosed, answer>>
  BY DEF Push, Heads, oracleVars
<1>2. searching /\ from \in Nodes /\ Remembers /\ (OnFreeRoads => LeadsOn)
  BY DEF IInv, Sound, PInv
<1>3. \A n : Shut(n)' <=> Shut(n)
  BY <1>1 DEF Shut
<1>4. Remembers'
  <2>1. \A p \in Heads' : \A i \in Links(p) : Shut(p[i].node)'
    BY <1>1, <1>2, <1>3 DEF Remembers
  <2>2. \A p \in openList' : answer'[Node(p)] # NONE
    BY <1>1, <1>2 DEF Remembers, Push
  <2>3. \A n \in Nodes : Shut(n)' => answer'[n] # NONE /\ n # Goal
    BY <1>1, <1>2, <1>3 DEF Remembers
  <2>4. closed' = {} => (\A p \in Heads' : Root(p)') /\ Heads' # {}
    BY <1>1, <1>2 DEF Remembers, Root, Node, Time
  <2>5. closed' # {} => Shut(from)'
    BY <1>1, <1>2 DEF Remembers, Shut
  <2>6. ASSUME NEW r \in registry'
        PROVE  \/ Key(r[1], r[2])' \in closed'
               \/ \E p \in openList' : Node(p) = r[1] /\ Time(p) = r[2]
    <3>1. CASE r \in registry
      BY <1>1, <1>2, <3>1 DEF Remembers, Key
    <3>2. CASE r = <<Node(q), Time(q)>>
      BY <1>1, <3>2
    <3> QED BY <1>1, <3>1, <3>2
  <2> QED BY <2>1, <2>2, <2>3, <2>4, <2>5, <2>6 DEF Remembers, Node, Time
<1>5. OnFreeRoads' => LeadsOn'
  BY <1>1, <1>2, <1>3
     DEF OnFreeRoads, Foreign, LeadsOn, Follows, Told, Promising, Key, Node, Time
<1>6. PromiseKept'
  BY <1>1 DEF PInv, PromiseKept, Foreign, Estimate, Node, Time
<1> QED BY <1>1, <1>2, <1>4, <1>5, <1>6 DEF PInv, Node

(* A table whose node and time were expanded before leaves the heap.       *)
LEMMA SkipPromise == ASSUME IInv, PInv, NEW p \in openList, Skip(p) PROVE PInv'
<1>1. /\ todo = {} /\ todo' = {} /\ openList' = openList \ {p} /\ searching
      /\ Key(Node(p), Time(p)) \in closed
      /\ UNCHANGED <<searching, from, ledger, offset, registry, closed, result, rraClosed, answer>>
  BY DEF Skip, Pop, Closed, oracleVars
<1>2. from \in Nodes /\ Remembers /\ (OnFreeRoads => LeadsOn)
  BY <1>1 DEF PInv
<1>3. (\A n : Shut(n)' <=> Shut(n)) /\ Heads' \subseteq Heads
  BY <1>1 DEF Shut, Heads
<1>4. Remembers'
  <2>1. \A q \in Heads' : \A i \in Links(q) : Shut(q[i].node)'
    BY <1>2, <1>3 DEF Remembers
  <2>2. \A q \in openList' : answer'[Node(q)] # NONE
    BY <1>1, <1>2 DEF Remembers
  <2>3. \A n \in Nodes : Shut(n)' => answer'[n] # NONE /\ n # Goal
    BY <1>1, <1>2, <1>3 DEF Remembers
  <2>4. closed' # {}
    BY <1>1
  <2>5. closed' # {} => Shut(from)'
    BY <1>1, <1>2 DEF Remembers, Shut
  <2>6. ASSUME NEW r \in registry'
        PROVE  \/ Key(r[1], r[2])' \in closed'
               \/ \E q \in openList' : Node(q) = r[1] /\ Time(q) = r[2]
    <3>1. \/ Key(r[1], r[2]) \in closed
          \/ \E q \in openList : Node(q) = r[1] /\ Time(q) = r[2]
      BY <1>1, <1>2 DEF Remembers
    <3>2. CASE Key(r[1], r[2]) \in closed
      BY <1>1, <3>2 DEF Key
    <3>3. ASSUME NEW q \in openList, Node(q) = r[1] /\ Time(q) = r[2]
          PROVE  \/ Key(r[1], r[2])' \in closed'
                 \/ \E x \in openList' : Node(x) = r[1] /\ Time(x) = r[2]
      <4>1. CASE q = p
        BY <1>1, <3>3, <4>1 DEF Key
      <4>2. CASE q # p
        BY <1>1, <3>3, <4>2
      <4> QED BY <4>1, <4>2
    <3> QED BY <3>1, <3>2, <3>3
  <2> QED BY <2>1, <2>2, <2>3, <2>4, <2>5, <2>6 DEF Remembers, Node, Time
<1>5. OnFreeRoads' => LeadsOn'
  <2> SUFFICES ASSUME OnFreeRoads' PROVE LeadsOn'
    OBVIOUS
  <2>1. LeadsOn
    BY <1>1, <1>2 DEF OnFreeRoads, Foreign
  <2>2. ASSUME NEW n \in Nodes, NEW q \in Heads, Promising(q, n) PROVE q \in Heads' /\ Promising(q, n)'
    <3>1. q # p
      BY <1>1, <2>2 DEF Promising
    <3>2. q \in Heads'
      BY <1>1, <3>1 DEF Heads
    <3> QED BY <1>1, <2>2, <3>2 DEF Promising, Told, Key, Node, Time
  <2>3. ASSUME NEW m \in Nodes, Shut(m)', Told(m)'
        PROVE  \E n \in Nodes : Follows(m, n)' /\ (Shut(n)' \/ \E q \in Heads' : Promising(q, n)')
    <3>1. Shut(m) /\ Told(m)
      BY <1>1, <1>3, <2>3 DEF Told
    <3>2. PICK n \in Nodes : Follows(m, n) /\ (Shut(n) \/ \E q \in Heads : Promising(q, n))
      BY <2>1, <3>1 DEF LeadsOn
    <3>3. Follows(m, n)'
      BY <1>1, <3>2 DEF Follows, Told
    <3> QED BY <1>3, <2>2, <3>2, <3>3
  <2> QED BY <2>3 DEF LeadsOn
<1>6. PromiseKept'
  BY <1>1 DEF PInv, PromiseKept, Foreign, Estimate, Node, Time
<1> QED BY <1>1, <1>2, <1>4, <1>5, <1>6 DEF PInv, Node

(* The table that ends a search keeps the promise.                         *)
LEMMA FinishPromise ==
  ASSUME IInv, OP!OInv, PInv, NEW p \in openList, Finish(p) PROVE PInv'
<1>1. /\ Pop(p) /\ searching /\ todo = {} /\ Done(p) /\ searching' = FALSE /\ result' = p
      /\ UNCHANGED <<from, ledger, rraClosed, answer>>
  BY DEF Finish, Pop, oracleVars
<1>2. from \in Nodes /\ Remembers /\ (OnFreeRoads => LeadsOn)
  BY <1>1 DEF PInv
<1>3. p \in Tables /\ Partial(p) /\ Node(p) \in Nodes /\ Time(p) \in Nat
      /\ Len(p) \in Nat \ {0} /\ p[Len(p)] \in Steps
  BY LastStep DEF IInv, TypeOK, Sound
<1>4. answer[Node(p)] # NONE
  BY <1>2 DEF Remembers
<1>5. answer[from] # NONE
  <2>1. CASE closed = {}
    <3>1. Node(p) = from
      BY <1>2, <2>1 DEF Remembers, Root, Heads
    <3> QED BY <1>4, <3>1
  <2>2. CASE closed # {}
    BY <1>2, <2>2 DEF Remembers
  <2> QED BY <2>1, <2>2
<1>6. PromiseKept'
  <2> SUFFICES ASSUME Foreign = {}, answer[from] # Far
               PROVE  Len(p) >= 2 /\ Time(p) + Estimate(Node(p)) <= Estimate(from)
    BY <1>1 DEF PromiseKept, Foreign, Estimate, Node, Time
  <2>1. answer[from] \in Nat /\ OnFreeRoads
    BY <1>2, <1>5, OracleFacts DEF OnFreeRoads
  <2>2. /\ Cost(p) <= answer[from]
        /\ Told(Node(p)) => /\ Estimate(Node(p)) = rraClosed[Node(p)]
                            /\ rraClosed[Node(p)] \in Nat
        /\ Estimate(Node(p)) \in Nat
    BY <1>1, <2>1, PoppedKeepsPromise
  <2>3. Estimate(from) = answer[from]
    BY DEF Estimate
  <2>4. Len(p) # 1
    <3> SUFFICES ASSUME Len(p) = 1 PROVE FALSE
      OBVIOUS
    <3>1. Node(p) = from
      BY <1>3 DEF Node, Partial
    <3>2. Time(p) + answer[from] <= answer[from]
      BY <2>2, <2>3, <3>1 DEF Cost
    <3>3. Time(p) = 0
      BY <1>3, <2>1, <3>2
    <3>4. from # Goal
      BY <1>2, MapAssumption DEF IInv, TypeOK
    <3> QED BY <1>1, <3>1, <3>3, <3>4, SearchAssumption DEF Done
  <2>5. Len(p) >= 2
    <3>1. PICK l \in Nat \ {0} : l = Len(p)
      BY <1>3
    <3> QED BY <2>4, <3>1
  <2>6. Time(p) + Estimate(Node(p)) <= Estimate(from)
    BY <2>2, <2>3 DEF Cost
  <2> QED BY <2>5, <2>6
<1> QED BY <1>1, <1>2, <1>4, <1>5, <1>6 DEF PInv, Node

(* On free roads a search from where there is a way does not run dry.      *)
LEMMA RunDryPromise ==
  ASSUME IInv, OP!OInv, PInv, RunDry PROVE PInv'
<1>1. /\ searching /\ todo = {} /\ openList = {} /\ searching' = FALSE /\ result' = <<>>
      /\ UNCHANGED <<from, ledger, rraClosed, answer>>
  BY DEF RunDry, oracleVars
<1>2. from \in Nodes /\ Remembers /\ (OnFreeRoads => LeadsOn)
  BY <1>1 DEF PInv
<1>3. answer[from] # NONE
  BY <1>1, <1>2 DEF Remembers, Heads
<1>4. ~OnFreeRoads
  <2>1. Heads = {}
    BY <1>1 DEF Heads
  <2> QED BY <1>2, <2>1, SomeonePromising
<1>5. PromiseKept'
  BY <1>1, <1>2, <1>3, <1>4, OracleFacts DEF PromiseKept, OnFreeRoads, Foreign
<1> QED BY <1>1, <1>2, <1>3, <1>5 DEF PInv

(* Roads whose entries are all one's own are free.                         *)
LEMMA FreeRoads ==
  ASSUME Foreign = {}, NEW at, NEW start, NEW end
  PROVE  IsFree(ledger, at, start, end, Self)
BY DEF Foreign, IsFree

(* A move to the next node of the way is made, unless the node was         *)
(* expanded already or a table that is as early leads there.               *)
LEMMA MovesOn ==
  ASSUME IInv, OP!OInv, Remembers, OnFreeRoads,
         NEW p \in openList, todo = {}, Cost(p) <= answer[from], ~Done(p),
         Estimate(Node(p)) = rraClosed[Node(p)],
         NEW n \in Nodes, Follows(Node(p), n),
         NEW done, done = Close(p), ~\E k \in done : k[1] = n
  PROVE  \E q \in Successors(p, done) \cup (openList \ {p}) :
           Node(q) = n /\ Key(n, Time(q)) \notin done /\ Time(q) + rraClosed[n] <= answer[from]
<1>1. /\ p \in Tables /\ Node(p) \in Nodes /\ Time(p) \in Nat /\ p \in Heads
      /\ Len(p) \in Nat \ {0} /\ p \in [1..Len(p) -> Steps]
  BY LastStep DEF IInv, TypeOK, Heads
<1>2. {Node(p), n} \in Roads /\ Length[{Node(p), n}] \in Nat \ {0} /\ Node(p) # n
  <2>1. {n, Node(p)} = {Node(p), n}
    OBVIOUS
  <2>2. {n, Node(p)} \in Roads
    BY DEF Follows
  <2> QED BY <1>1, <2>1, <2>2, RoadLength
<1>3. /\ rraClosed[n] \in Nat
      /\ rraClosed[Node(p)] = rraClosed[n] + Length[{Node(p), n}]
  <2>1. {n, Node(p)} = {Node(p), n}
    OBVIOUS
  <2> QED BY <2>1, OracleFacts DEF Follows, Told
<1> DEFINE q == Moved(p, n)
           t == Time(p) + Length[{Node(p), n}]
<1>4. q \in Tables /\ Node(q) = n /\ Time(q) = t
  <2>1. /\ q \in Tables /\ Len(q) = Len(p) + 1
        /\ q[Len(p) + 1] = [node |-> n, arr |-> t, dep |-> t]
    BY <1>1, <1>2, MovedTable
  <2> HIDE DEF q, t
  <2> QED BY <2>1 DEF Node, Time
<1>5. answer[from] \in Nat /\ t \in Nat
  BY <1>1, <1>2 DEF OnFreeRoads
<1>6. t + rraClosed[n] <= answer[from]
  <2>1. t + rraClosed[n] = Cost(p)
    BY <1>1, <1>2, <1>3 DEF Cost
  <2> QED BY <2>1
<1>7. CanMove(p, n)
  <2>1. ASSUME NEW i \in 1..Len(p), p[i].node = n PROVE FALSE
    <3>1. CASE i = Len(p)
      BY <1>2, <2>1, <3>1 DEF Node
    <3>2. CASE i # Len(p)
      <4>1. i \in Links(p)
        <5>1. PICK l \in Nat \ {0} : l = Len(p)
          BY <1>1
        <5> QED BY <3>2, <5>1 DEF Links
      <4>2. \E k \in closed : k[1] = n
        BY <1>1, <2>1, <4>1 DEF Remembers, Shut
      <4> QED BY <4>2 DEF Close
    <3> QED BY <3>1, <3>2
  <2> QED BY <1>2, <2>1, FreeRoads DEF CanMove, OnFreeRoads
<1> HIDE DEF q, t
<1>8. Key(n, Time(q)) \notin done
  BY DEF Key
<1>9. CASE Fresh(q, done)
  <2>1. q \in Successors(p, done)
    BY <1>7, <1>9 DEF Successors, q
  <2> QED BY <1>4, <1>6, <1>8, <2>1
<1>10. CASE ~Fresh(q, done)
  <2>1. PICK r \in registry : Key(r[1], r[2]) = Key(Node(q), Time(q)) /\ ~(Time(q) < r[2])
    BY <1>4, <1>8, <1>10 DEF Fresh
  <2>2. r[1] = n /\ r[2] \in Nat /\ r[2] <= t
    BY <1>4, <1>5, <2>1 DEF Key, IInv, TypeOK
  <2>3. Key(r[1], r[2]) \notin closed
    BY <1>4, <1>8, <2>1 DEF Close
  <2>4. PICK x \in openList : Node(x) = r[1] /\ Time(x) = r[2]
    BY <2>3 DEF Remembers
  <2>5. x # p
    BY <1>2, <2>2, <2>4
  <2>6. Time(x) + rraClosed[n] <= answer[from]
    BY <1>3, <1>5, <1>6, <2>2, <2>4
  <2>7. Key(n, Time(x)) \notin done
    BY DEF Key
  <2> QED BY <2>2, <2>4, <2>5, <2>6, <2>7
<1> QED BY <1>9, <1>10

LEMMA SuccessorShape ==
  ASSUME NEW p \in Tables, NEW done, NEW q \in Successors(p, done)
  PROVE  \/ Len(q) = Len(p) /\ \A i \in 1..Len(p) : q[i].node = p[i].node
         \/ Len(q) = Len(p) + 1 /\ \A i \in 1..Len(p) : q[i].node = p[i].node
<1>1. CASE q = Waited(p)
  BY <1>1, WaitedTable
<1>2. CASE \E n \in Nodes : CanMove(p, n) /\ q = Moved(p, n)
  <2>1. PICK n \in Nodes : CanMove(p, n) /\ q = Moved(p, n)
    BY <1>2
  <2>2. {Node(p), n} \in Roads
    BY <2>1 DEF CanMove
  <2> QED BY <2>1, <2>2, MovedTable
<1> QED BY <1>1, <1>2 DEF Successors

LEMMA ExpandPromise ==
  ASSUME IInv, OP!OInv, PInv, NEW p \in openList, Expand(p) PROVE PInv'
<1>1. /\ Pop(p) /\ searching /\ todo = {} /\ ~Done(p)
      /\ openList' = openList \ {p}
      /\ todo' = Successors(p, Close(p)) /\ closed' = Close(p)
      /\ UNCHANGED <<searching, from, ledger, offset, registry, result, rraClosed, answer>>
  BY DEF Expand, Pop, oracleVars
<1>2. from \in Nodes /\ Remembers /\ (OnFreeRoads => LeadsOn)
  BY <1>1 DEF PInv
<1>3. /\ p \in Tables /\ Node(p) \in Nodes /\ Time(p) \in Nat /\ p \in Heads
      /\ Len(p) \in Nat \ {0}
  BY LastStep DEF IInv, TypeOK, Heads
<1>4. closed' = closed \cup {Key(Node(p), Time(p))} /\ closed' # {}
  BY <1>1 DEF Close
<1>5. \A n : Shut(n)' <=> (Shut(n) \/ n = Node(p))
  <2>1. PICK k : k = Key(Node(p), Time(p))
    OBVIOUS
  <2>2. k[1] = Node(p)
    BY <2>1 DEF Key
  <2>3. closed' = closed \cup {k}
    BY <1>4, <2>1
  <2> QED BY <2>2, <2>3 DEF Shut
<1>6. answer[Node(p)] # NONE /\ Node(p) # Goal
  BY <1>1, <1>2 DEF Remembers, Done
<1>7. Remembers'
  <2>1. ASSUME NEW q \in Heads', NEW i \in Links(q) PROVE Shut(q[i].node)'
    <3>1. CASE q \in openList
      BY <1>2, <1>5, <2>1, <3>1 DEF Remembers, Heads
    <3>2. CASE q \in Successors(p, Close(p))
      <4>1. i \in 1..Len(p) /\ q[i].node = p[i].node /\ (Len(q) = Len(p) => i # Len(p))
        BY <1>3, <2>1, <3>2, SuccessorShape DEF Links
      <4>2. CASE i = Len(p)
        BY <1>5, <4>1, <4>2 DEF Node
      <4>3. CASE i # Len(p)
        <5>1. i \in Links(p)
          BY <1>3, <4>1, <4>3 DEF Links
        <5> QED BY <1>2, <1>3, <1>5, <4>1, <5>1 DEF Remembers
      <4> QED BY <4>2, <4>3
    <3> QED BY <1>1, <3>1, <3>2 DEF Heads
  <2>2. \A q \in openList' : answer'[Node(q)] # NONE
    BY <1>1, <1>2 DEF Remembers
  <2>3. \A n \in Nodes : Shut(n)' => answer'[n] # NONE /\ n # Goal
    BY <1>1, <1>2, <1>5, <1>6 DEF Remembers
  <2>4. Shut(from)'
    <3>1. PICK f : f = from /\ f = from'
      BY <1>1
    <3>2. Shut(f) \/ f = Node(p)
      BY <1>2, <1>3, <3>1 DEF Remembers, Root
    <3>3. Shut(f)'
      BY <1>5, <3>2
    <3> QED BY <3>1, <3>3 DEF Shut
  <2>5. ASSUME NEW r \in registry'
        PROVE  \/ Key(r[1], r[2])' \in closed'
               \/ \E q \in openList' : Node(q) = r[1] /\ Time(q) = r[2]
    <3>1. Key(r[1], r[2])' = Key(r[1], r[2])
      BY <1>1 DEF Key
    <3>2. \/ Key(r[1], r[2]) \in closed
          \/ \E q \in openList : Node(q) = r[1] /\ Time(q) = r[2]
      BY <1>1, <1>2 DEF Remembers
    <3>3. CASE Key(r[1], r[2]) \in closed
      BY <1>4, <3>1, <3>3
    <3>4. ASSUME NEW q \in openList, Node(q) = r[1] /\ Time(q) = r[2]
          PROVE  \/ Key(r[1], r[2])' \in closed'
                 \/ \E x \in openList' : Node(x) = r[1] /\ Time(x) = r[2]
      <4>1. CASE q = p
        BY <1>4, <3>1, <3>4, <4>1
      <4>2. CASE q # p
        BY <1>1, <3>4, <4>2
      <4> QED BY <4>1, <4>2
    <3> QED BY <3>2, <3>3, <3>4
  <2> QED BY <1>4, <2>1, <2>2, <2>3, <2>4, <2>5 DEF Remembers, Node, Time
<1>8. OnFreeRoads' => LeadsOn'
  <2> SUFFICES ASSUME OnFreeRoads PROVE LeadsOn'
    BY <1>1 DEF OnFreeRoads, Foreign
  <2>1. /\ Cost(p) <= answer[from]
        /\ Told(Node(p)) => Estimate(Node(p)) = rraClosed[Node(p)]
    BY <1>1, PoppedKeepsPromise
  <2>2. ASSUME NEW m \in Nodes, NEW n \in Nodes, Follows(m, n) PROVE Follows(m, n)'
    BY <1>1, <2>2 DEF Follows, Told
  <2>3. ASSUME NEW m \in Nodes, Shut(m)', Told(m)'
        PROVE  \E n \in Nodes : Follows(m, n) /\ (Shut(n)' \/ \E q \in Heads' : Promising(q, n)')
    <3>1. Told(m)
      BY <1>1, <2>3 DEF Told
    <3>2. CASE Shut(m)
      <4>1. PICK n \in Nodes : Follows(m, n) /\ (Shut(n) \/ \E q \in Heads : Promising(q, n))
        BY <1>2, <3>1, <3>2 DEF LeadsOn
      <4>2. CASE Shut(n) \/ n = Node(p)
        BY <1>5, <4>1, <4>2
      <4>3. CASE ~Shut(n) /\ n # Node(p)
        <5>1. PICK q \in Heads : Promising(q, n)
          BY <4>1, <4>3
        <5>2. q # p /\ q \in Heads'
          BY <1>1, <4>3, <5>1 DEF Promising, Heads
        <5>3. Key(n, Time(q)) \notin closed'
          BY <1>4, <4>3, <5>1 DEF Promising, Key
        <5>4. Promising(q, n)'
          BY <1>1, <5>1, <5>2, <5>3 DEF Promising, Told, Key, Node, Time
        <5> QED BY <4>1, <5>2, <5>4
      <4> QED BY <4>2, <4>3
    <3>3. CASE m = Node(p)
      <4>1. PICK n \in Nodes : Follows(m, n)
        BY <1>6, <3>1, <3>3, OracleFacts
      <4>2. CASE ~Shut(n)'
        <5>1. ~\E k \in Close(p) : k[1] = n
          BY <1>1, <4>2 DEF Shut
        <5>2. PICK done : done = Close(p)
          OBVIOUS
        <5>3. \E q \in Successors(p, done) \cup (openList \ {p}) :
                Node(q) = n /\ Key(n, Time(q)) \notin done /\ Time(q) + rraClosed[n] <= answer[from]
          BY <1>1, <1>2, <2>1, <3>1, <3>3, <4>1, <5>1, <5>2, MovesOn
        <5>4. PICK q \in Successors(p, done) \cup (openList \ {p}) :
                Node(q) = n /\ Key(n, Time(q)) \notin done /\ Time(q) + rraClosed[n] <= answer[from]
          BY <5>3
        <5>5. q \in Heads'
          BY <1>1, <5>2 DEF Heads
        <5>6. Promising(q, n)'
          BY <1>1, <4>1, <5>2, <5>4, <5>5 DEF Promising, Follows, Told, Key, Node, Time
        <5> QED BY <4>1, <5>5, <5>6
      <4> QED BY <4>1, <4>2
    <3> QED BY <1>5, <2>3, <3>2, <3>3
  <2> QED BY <2>2, <2>3 DEF LeadsOn
<1>9. PromiseKept'
  BY <1>1 DEF PInv, PromiseKept, Foreign, Estimate, Node, Time
<1> QED BY <1>1, <1>2, <1>7, <1>8, <1>9 DEF PInv, Node

LEMMA PInvStep ==
  ASSUME IInv, OP!OInv, OP!OInv', PInv, [Next]_vars PROVE PInv'
<1>1. CASE UNCHANGED vars \/ AskOracle \/ OracleStep
  <2>1. UNCHANGED searchVars
    BY <1>1 DEF vars, AskOracle, OracleStep
  <2> QED BY <2>1, OraclePromise
<1>2. CASE RunDry
  BY <1>2, RunDryPromise
<1>3. CASE \E q \in todo : Push(q)
  BY <1>3, PushPromise
<1>4. CASE \E p \in openList : Skip(p) \/ Finish(p) \/ Expand(p)
  BY <1>4, SkipPromise, FinishPromise, ExpandPromise
<1>5. CASE \E n \in Nodes : Begin(n)
  BY <1>5, BeginPromise
<1> QED BY <1>1, <1>2, <1>3, <1>4, <1>5 DEF Next, Search

(* On roads without bookings an AGV is promised no more than it gets.      *)
THEOREM PromisesAreKept == Spec => []PromiseKept
<1>1. IInv /\ OP!OInv /\ OP!OInv' /\ PInv /\ [Next]_vars => PInv'
  BY PInvStep
<1>2. Spec => []PInv
  BY <1>1, InitPInv, AlwaysIInv, AlwaysOracleFully, PTL DEF Spec
<1>3. PInv => PromiseKept
  BY DEF PInv
<1> QED BY <1>2, <1>3, PTL

-----------------------------------------------------------------------------
(* The tables of Kinematics on this map: those along k links, and what one *)
(* link more makes of them.                                                *)
Driven == Along(Nodes, Roads, Length, Wait, Window)
Further(P) == Longer(P, Nodes, Roads, Length, Wait, Window)
Starts == {<<s>> : s \in UNION {Stays(n, 0, Wait, Window) : n \in Nodes}}

(* s is a stay on the node to which table p goes on.                       *)
GoesOn(p, s) ==
  /\ Time(p) < Window
  /\ s.node \in Nodes /\ {Node(p), s.node} \in Roads
  /\ \A i \in 1..Len(p) : p[i].node # s.node
  /\ s \in Stays(s.node, Time(p) + Length[{Node(p), s.node}], Wait, Window)

LEMMA StaySteps ==
  ASSUME NEW n \in Nodes, NEW arr \in Nat, NEW s \in Stays(n, arr, Wait, Window)
  PROVE  s \in Steps /\ s.node = n /\ s.arr = arr /\ s.arr <= s.dep
<1>1. PICK k \in 0..Window : s = [node |-> n, arr |-> arr, dep |-> arr + k * Wait]
  BY DEF Stays
<1>2. Window \in Nat /\ Wait \in Nat
  BY SearchAssumption
<1>3. PICK d \in Nat : d = k * Wait
  BY <1>1, <1>2
<1> QED BY <1>1, <1>3 DEF Steps

LEMMA FurtherMeans ==
  ASSUME NEW P, NEW q
  PROVE  q \in Further(P) <=> \E p \in P : \E s : GoesOn(p, s) /\ q = Append(p, s)
<1> DEFINE At(p, m) == Stays(m, p[Len(p)].dep + Length[{p[Len(p)].node, m}], Wait, Window)
           To(p, m) == {Append(p, s) : s \in At(p, m)}
           From(p) == UNION {To(p, m) : m \in Onward(p, Nodes, Roads)}
           Open == {p \in P : p[Len(p)].dep < Window}
<1>1. Further(P) = UNION {From(p) : p \in Open}
  BY Zenon DEF Further, Longer
<1>2. \A p, m : \A s \in At(p, m) : s.node = m
  BY DEF Stays
<1>3. \A p : p \in Open <=> p \in P /\ Time(p) < Window
  BY DEF Time
<1>4. \A p, s : GoesOn(p, s) <=>
        Time(p) < Window /\ s.node \in Onward(p, Nodes, Roads) /\ s \in At(p, s.node)
  BY DEF GoesOn, Onward, Node, Time
<1> HIDE DEF At, Open
<1>5. ASSUME q \in Further(P)
      PROVE  \E p \in P : \E s : GoesOn(p, s) /\ q = Append(p, s)
  <2> HIDE DEF From
  <2>1. PICK p \in Open : q \in From(p)
    BY <1>1, <1>5
  <2> USE DEF From
  <2> HIDE DEF To
  <2>2. PICK m \in Onward(p, Nodes, Roads) : q \in To(p, m)
    BY <2>1
  <2>3. PICK s \in At(p, m) : q = Append(p, s)
    BY <2>2 DEF To
  <2>4. s.node = m
    BY <1>2
  <2> QED BY <1>3, <1>4, <2>1, <2>2, <2>3, <2>4
<1>6. ASSUME NEW p \in P, NEW s, GoesOn(p, s), q = Append(p, s)
      PROVE  q \in Further(P)
  <2>1. p \in Open /\ s.node \in Onward(p, Nodes, Roads) /\ s \in At(p, s.node)
    BY <1>3, <1>4, <1>6
  <2>2. q \in To(p, s.node)
    BY <1>6, <2>1
  <2> HIDE DEF To
  <2>3. q \in From(p)
    BY <2>1, <2>2
  <2> HIDE DEF From
  <2> QED BY <1>1, <2>1, <2>3
<1> QED BY <1>5, <1>6

LEMMA GoesOnSteps ==
  ASSUME NEW p \in Tables, NEW s, GoesOn(p, s)
  PROVE  /\ s \in Steps
         /\ s.arr = Time(p) + Length[{Node(p), s.node}]
         /\ s.arr <= s.dep
         /\ Length[{Node(p), s.node}] \in Nat \ {0}
         /\ Append(p, s) \in Tables
<1>1. Length[{Node(p), s.node}] \in Nat \ {0}
  BY MapAssumption DEF GoesOn
<1>2. Time(p) + Length[{Node(p), s.node}] \in Nat
  BY <1>1, LastStep
<1>3. s \in Steps /\ s.arr = Time(p) + Length[{Node(p), s.node}] /\ s.arr <= s.dep
  BY <1>2, StaySteps DEF GoesOn
<1>4. p \in Seq(Steps)
  BY LastStep
<1>5. Append(p, s) \in Seq(Steps) /\ Append(p, s) # <<>>
  BY <1>3, <1>4
<1> QED BY <1>1, <1>3, <1>5 DEF Tables

LEMMA FurtherType ==
  ASSUME NEW P \in SUBSET Tables
  PROVE  Further(P) \in SUBSET Tables
<1> SUFFICES ASSUME NEW q \in Further(P) PROVE q \in Tables
  OBVIOUS
<1>1. PICK p \in P : \E s : GoesOn(p, s) /\ q = Append(p, s)
  BY FurtherMeans
<1>2. PICK s : GoesOn(p, s) /\ q = Append(p, s)
  BY <1>1
<1>3. p \in Tables
  OBVIOUS
<1> QED BY <1>2, <1>3, GoesOnSteps

LEMMA StartsType == Starts \in SUBSET Tables
<1> SUFFICES ASSUME NEW p \in Starts PROVE p \in Tables
  OBVIOUS
<1>1. PICK s \in UNION {Stays(n, 0, Wait, Window) : n \in Nodes} : p = <<s>>
  BY DEF Starts
<1>2. PICK n \in Nodes : s \in Stays(n, 0, Wait, Window)
  OBVIOUS
<1>3. s \in Steps
  BY <1>2, StaySteps
<1> QED BY <1>1, <1>3 DEF Tables

LEMMA Induction ==
  ASSUME NEW P, 0 \in P, \A n \in Nat : n \in P => n + 1 \in P
  PROVE  Nat \subseteq P
BY OP!Induction, MapAssumption, SameRoads, SameFinite

LEMMA Recursion ==
  ASSUME NEW D, NEW a \in D, NEW F \in [D -> D]
  PROVE  \E g \in [Nat -> D] : g[0] = a /\ \A k \in Nat : g[k + 1] = F[g[k]]
BY OP!Recursion, MapAssumption, SameRoads, SameFinite, Z3T(60)

(* What the recursive definition of the tables computes.                   *)
LEMMA DrivenBy ==
  /\ Driven[0] = Starts
  /\ \A k \in Nat : Driven[k + 1] = Further(Driven[k])
  /\ \A k \in Nat : Driven[k] \in SUBSET Tables
<1> DEFINE D == SUBSET Tables
           F == [P \in D |-> Further(P)]
<1>1. Starts \in D
  BY StartsType
<1>2. F \in [D -> D] /\ \A P \in D : F[P] = Further(P)
  BY FurtherType
<1> HIDE DEF F, D
<1>3. PICK g : g \in [Nat -> D] /\ g[0] = Starts /\ \A k \in Nat : g[k + 1] = F[g[k]]
  <2>1. PICK a \in D : a = Starts
    BY <1>1
  <2>2. PICK H \in [D -> D] : H = F
    BY <1>2
  <2>3. \E g \in [Nat -> D] : g[0] = a /\ \A k \in Nat : g[k + 1] = H[g[k]]
    BY Recursion
  <2> QED BY <2>1, <2>2, <2>3
<1>4. \A k \in Nat : g[k + 1] = Further(g[k])
  BY <1>2, <1>3
<1> DEFINE G(f) == [k \in Nat |-> IF k = 0 THEN Starts ELSE Further(f[k - 1])]
<1>5. g = G(g)
  <2>1. ASSUME NEW k \in Nat PROVE g[k] = G(g)[k]
    <3>1. CASE k = 0
      BY <1>3, <3>1
    <3>2. CASE k # 0
      <4>1. k - 1 \in Nat /\ (k - 1) + 1 = k
        BY <3>2
      <4>2. g[k] = Further(g[k - 1])
        BY <1>4, <4>1
      <4> QED BY <3>2, <4>2
    <3> QED BY <3>1, <3>2
  <2> QED BY <1>3, <2>1
<1>6. Driven = CHOOSE f : f = G(f)
  BY Zenon DEF Driven, Along, Starts, Further
<1>7. Driven = G(Driven)
  <2>1. \E f : f = G(f)
    BY <1>5
  <2> HIDE DEF G
  <2> QED BY <1>6, <2>1
<1>8. Driven[0] = Starts
  BY <1>7
<1>9. ASSUME NEW k \in Nat PROVE Driven[k + 1] = Further(Driven[k])
  <2>1. k + 1 \in Nat /\ k + 1 # 0 /\ (k + 1) - 1 = k
    OBVIOUS
  <2>2. \A f : G(f)[k + 1] = Further(f[k])
    BY <2>1
  <2> HIDE DEF G
  <2> QED BY <1>7, <2>2
<1>10. ASSUME NEW k \in Nat PROVE Driven[k] \in D
  <2> DEFINE P == {i \in Nat : Driven[i] \in D}
  <2>1. 0 \in P
    BY <1>1, <1>8
  <2>2. ASSUME NEW i \in Nat, i \in P PROVE i + 1 \in P
    BY <1>9, <2>2, FurtherType DEF D
  <2> HIDE DEF P
  <2>3. k \in P
    BY <2>1, <2>2, Induction
  <2> QED BY <2>3 DEF P
<1> QED BY <1>8, <1>9, <1>10 DEF D

(* A table that is pushed is one of Kinematics, along as many links as it  *)
(* has, and it has used at least one unit of time for each.                *)
Tabled(p) ==
  /\ p \in Driven[Len(p) - 1]
  /\ Len(p) - 1 <= Time(p)
  /\ Len(p) - 1 <= Window

KInv ==
  /\ \A p \in todo \cup openList : Tabled(p)
  /\ TableKnown

(* One more step of waiting is a stay again while the window is not over.  *)
LEMMA WaitTime ==
  ASSUME NEW k \in Nat, NEW w \in Nat \ {0}
  PROVE  k * w \in Nat /\ k <= k * w /\ (k + 1) * w = k * w + w
<1>1. k * w \in Nat
  OBVIOUS
<1>2. k <= k * w
  OBVIOUS
<1>3. (k + 1) * w = k * w + w
  OBVIOUS
<1> QED BY <1>1, <1>2, <1>3

LEMMA LongerStay ==
  ASSUME NEW n \in Nodes, NEW arr \in Nat, NEW s \in Stays(n, arr, Wait, Window),
         s.dep < Window
  PROVE  [s EXCEPT !.dep = @ + Wait] \in Stays(n, arr, Wait, Window)
<1>1. PICK k \in 0..Window : s = [node |-> n, arr |-> arr, dep |-> arr + k * Wait]
  BY DEF Stays
<1>2. Window \in Nat /\ Wait \in Nat \ {0}
  BY SearchAssumption
<1>3. k * Wait \in Nat /\ k <= k * Wait /\ (k + 1) * Wait = k * Wait + Wait
  BY <1>1, <1>2, WaitTime
<1>4. PICK d \in Nat : d = k * Wait
  BY <1>3
<1>5. arr + d < Window
  BY <1>1, <1>4
<1>6. k + 1 \in 0..Window /\ (k + 1) - 1 = k
  BY <1>2, <1>3, <1>4, <1>5
<1>7. arr + (k + 1) * Wait = arr + d + Wait
  BY <1>2, <1>3, <1>4
<1>8. [s EXCEPT !.dep = @ + Wait]
        = [node |-> n, arr |-> arr, dep |-> arr + (k + 1) * Wait]
  BY <1>1, <1>4, <1>7
<1>9. arr + ((k + 1) - 1) * Wait < Window
  BY <1>4, <1>5, <1>6
<1> QED BY <1>6, <1>8, <1>9 DEF Stays

(* The stay on which a table begins.                                       *)
LEMMA NoWait ==
  ASSUME NEW n \in Nodes, NEW arr \in Nat
  PROVE  [node |-> n, arr |-> arr, dep |-> arr] \in Stays(n, arr, Wait, Window)
<1>1. 0 \in 0..Window /\ arr + 0 * Wait = arr
  BY SearchAssumption
<1> QED BY <1>1 DEF Stays

LEMMA LastReplaced ==
  ASSUME NEW S, NEW r \in Seq(S), NEW s \in S, NEW t \in S
  PROVE  [Append(r, s) EXCEPT ![Len(r) + 1] = t] = Append(r, t)
<1>1. Append(r, s) \in Seq(S) /\ Append(r, t) \in Seq(S)
  OBVIOUS
<1>2. Len(Append(r, s)) = Len(r) + 1 /\ Len(Append(r, t)) = Len(r) + 1 /\ Len(r) \in Nat
  OBVIOUS
<1>3. \A i \in 1..Len(r) : Append(r, s)[i] = r[i] /\ Append(r, t)[i] = r[i]
  OBVIOUS
<1>4. Append(r, t)[Len(r) + 1] = t
  OBVIOUS
<1> DEFINE u == Append(r, s)
           v == Append(r, t)
<1>5. PICK n \in Nat : n = Len(r) + 1
  BY <1>2
<1>6. /\ u \in Seq(S) /\ v \in Seq(S) /\ Len(u) = n /\ Len(v) = n
      /\ \A i \in 1..n : i # n => u[i] = v[i]
      /\ v[n] = t
  BY <1>1, <1>2, <1>3, <1>4, <1>5
<1> HIDE DEF u, v
<1>7. u \in [1..n -> S] /\ v \in [1..n -> S]
  BY <1>6
<1>8. [u EXCEPT ![n] = t] = v
  BY <1>6, <1>7
<1> QED BY <1>5, <1>8 DEF u, v

LEMMA WaitedTabled ==
  ASSUME NEW p \in Tables, Tabled(p), Time(p) < Window
  PROVE  Tabled(Waited(p))
<1> DEFINE q == Waited(p)
           t == [p[Len(p)] EXCEPT !.dep = @ + Wait]
<1>1. /\ q \in Tables /\ Len(q) = Len(p) /\ q[Len(p)].dep = Time(p) + Wait
      /\ Len(p) \in Nat \ {0} /\ Time(p) \in Nat /\ p \in [1..Len(p) -> Steps]
  BY WaitedTable, LastStep
<1>2. q = [p EXCEPT ![Len(p)] = t]
  BY DEF Waited
<1>3. q \in Driven[Len(p) - 1]
  <2>1. CASE Len(p) = 1
    <3>1. p \in Starts
      BY <2>1, DrivenBy DEF Tabled
    <3>2. PICK s \in UNION {Stays(n, 0, Wait, Window) : n \in Nodes} : p = <<s>>
      BY <3>1 DEF Starts
    <3>3. PICK n \in Nodes : s \in Stays(n, 0, Wait, Window)
      BY <3>2
    <3>4. p[1] = s /\ t = [s EXCEPT !.dep = @ + Wait] /\ s.dep < Window
      BY <2>1, <3>2 DEF Time
    <3>5. t \in Stays(n, 0, Wait, Window)
      BY <3>3, <3>4, LongerStay
    <3>6. q = <<t>>
      BY <1>2, <2>1, <3>2
    <3>7. q \in Starts
      BY <3>5, <3>6 DEF Starts
    <3> QED BY <2>1, <3>7, DrivenBy
  <2>2. CASE Len(p) # 1
    <3>1. PICK k \in Nat : Len(p) = k + 2
      <4>1. Len(p) - 2 \in Nat /\ Len(p) = (Len(p) - 2) + 2
        BY <1>1, <2>2
      <4> QED BY <4>1
    <3>2. Driven[Len(p) - 1] = Further(Driven[k])
      <4>1. Len(p) - 1 = k + 1
        BY <3>1
      <4> QED BY <4>1, DrivenBy
    <3>3. PICK r \in Driven[k] : \E s : GoesOn(r, s) /\ p = Append(r, s)
      BY <3>2, FurtherMeans DEF Tabled
    <3>4. PICK s : GoesOn(r, s) /\ p = Append(r, s)
      BY <3>3
    <3>5. r \in Tables
      BY DrivenBy
    <3>6. /\ Len(r) \in Nat \ {0} /\ r \in Seq(Steps)
          /\ s \in Steps /\ s.arr = Time(r) + Length[{Node(r), s.node}]
      BY <3>4, <3>5, GoesOnSteps, LastStep
    <3>7. Len(p) = Len(r) + 1 /\ p[Len(p)] = s
      BY <3>4, <3>6
    <3>8. t = [s EXCEPT !.dep = @ + Wait] /\ s.dep < Window
      BY <3>7 DEF Time
    <3> HIDE DEF t
    <3>9. t.node = s.node /\ t.arr = s.arr /\ t \in Steps
      <4>1. s.dep + Wait \in Nat
        BY <3>6, SearchAssumption DEF Steps
      <4> QED BY <3>6, <3>8, <4>1 DEF Steps
    <3>10. s.node \in Nodes /\ s.arr \in Nat /\ s \in Stays(s.node, s.arr, Wait, Window)
      BY <3>4, <3>6 DEF GoesOn, Steps
    <3>11. t \in Stays(s.node, s.arr, Wait, Window)
      BY <3>8, <3>10, LongerStay
    <3>12. GoesOn(r, t)
      BY <3>4, <3>6, <3>9, <3>11 DEF GoesOn
    <3>13. q = Append(r, t)
      <4>1. [Append(r, s) EXCEPT ![Len(r) + 1] = t] = Append(r, t)
        BY <3>6, <3>9, LastReplaced
      <4> QED BY <1>2, <3>4, <3>7, <4>1
    <3>14. q \in Further(Driven[k])
      BY <3>12, <3>13, FurtherMeans
    <3> QED BY <3>2, <3>14
  <2> QED BY <2>1, <2>2
<1>4. Time(q) = Time(p) + Wait
  BY <1>1 DEF Time
<1> HIDE DEF q
<1>5. Len(q) - 1 <= Time(q) /\ Len(q) - 1 <= Window
  BY <1>1, <1>4, SearchAssumption DEF Tabled
<1> QED BY <1>1, <1>3, <1>5 DEF Tabled, q

LEMMA MovedTabled ==
  ASSUME NEW p \in Tables, Tabled(p), Time(p) < Window, NEW n \in Nodes, CanMove(p, n)
  PROVE  Tabled(Moved(p, n))
<1> DEFINE q == Moved(p, n)
           arrival == Time(p) + Length[{Node(p), n}]
           s == [node |-> n, arr |-> arrival, dep |-> arrival]
<1>1. {Node(p), n} \in Roads /\ \A i \in 1..Len(p) : p[i].node # n
  BY DEF CanMove
<1>2. Length[{Node(p), n}] \in Nat \ {0}
  BY <1>1, MapAssumption
<1>3. /\ Len(p) \in Nat \ {0} /\ Time(p) \in Nat /\ arrival \in Nat
      /\ arrival >= Time(p) + 1
  BY <1>2, LastStep
<1>4. q = Append(p, s) /\ Len(q) = Len(p) + 1 /\ q[Len(p) + 1] = s
  BY <1>1, MovedTable DEF Moved
<1> HIDE DEF q
<1>5. GoesOn(p, s)
  <2>1. s \in Stays(n, arrival, Wait, Window)
    BY <1>3, NoWait
  <2> QED BY <1>1, <2>1 DEF GoesOn
<1>6. Time(q) = arrival
  BY <1>4 DEF Time
<1> HIDE DEF s, arrival
<1>7. q \in Driven[Len(q) - 1]
  <2>1. q \in Further(Driven[Len(p) - 1])
    BY <1>4, <1>5, FurtherMeans DEF Tabled
  <2>2. Len(p) - 1 \in Nat /\ Len(q) - 1 = (Len(p) - 1) + 1
    BY <1>3, <1>4
  <2> QED BY <2>1, <2>2, DrivenBy
<1>8. Len(q) - 1 <= Time(q) /\ Len(q) - 1 <= Window
  BY <1>3, <1>4, <1>6, SearchAssumption DEF Tabled
<1> QED BY <1>7, <1>8 DEF Tabled, q

LEMMA SuccessorsTabled ==
  ASSUME NEW p \in Tables, Tabled(p), Time(p) < Window, NEW done
  PROVE  \A q \in Successors(p, done) : Tabled(q)
<1> SUFFICES ASSUME NEW q \in Successors(p, done) PROVE Tabled(q)
  OBVIOUS
<1>1. CASE q = Waited(p)
  BY <1>1, WaitedTabled
<1>2. CASE \E n \in Nodes : CanMove(p, n) /\ q = Moved(p, n)
  BY <1>2, MovedTabled
<1> QED BY <1>1, <1>2 DEF Successors

LEMMA TabledStands == ASSUME NEW p, Tabled(p) PROVE Tabled(p)'
BY DEF Tabled, Driven, Time

LEMMA InitKInv == Init => KInv
BY DEF Init, KInv, TableKnown

LEMMA BeginTabled == ASSUME IInv, NEW n \in Nodes, Begin(n) PROVE KInv'
<1> DEFINE s == [node |-> n, arr |-> 0, dep |-> 0]
           p == <<s>>
<1>1. todo' = {p} /\ openList' = {} /\ result' = NONE
  BY DEF Begin
<1>2. s \in Stays(n, 0, Wait, Window)
  BY NoWait
<1>3. p \in Starts
  BY <1>2 DEF Starts
<1>4. Len(p) = 1 /\ Time(p) = 0
  BY DEF Time
<1> HIDE DEF p
<1>5. Tabled(p)
  <2>1. Len(p) - 1 = 0 /\ 0 <= Window
    BY <1>4, SearchAssumption
  <2> QED BY <1>3, <1>4, <2>1, DrivenBy DEF Tabled
<1>6. \A q \in (todo \cup openList)' : Tabled(q)'
  BY <1>1, <1>5, TabledStands
<1> QED BY <1>1, <1>6 DEF KInv, TableKnown

LEMMA SameTabled ==
  ASSUME KInv, todo' \cup openList' \subseteq todo \cup openList, result' = result
  PROVE  KInv'
<1>1. \A q \in (todo \cup openList)' : Tabled(q)'
  BY TabledStands DEF KInv
<1>2. TableKnown'
  BY DEF KInv, TableKnown, KnownTables
<1> QED BY <1>1, <1>2 DEF KInv

LEMMA FinishTabled ==
  ASSUME IInv, KInv, NEW p \in openList, Finish(p)
  PROVE  KInv'
<1>1. p \in Tables /\ todo' \cup openList' \subseteq todo \cup openList /\ result' = p
  BY PopTypes DEF Finish
<1>2. \A q \in (todo \cup openList)' : Tabled(q)'
  BY <1>1, TabledStands DEF KInv
<1>3. Tabled(p)
  BY DEF KInv
<1>4. ASSUME Len(p) >= 2 PROVE p \in KnownTables
  <2>1. Len(p) - 1 \in 1..Window
    BY <1>1, <1>3, <1>4, LastStep, SearchAssumption DEF Tabled
  <2>2. p \in UNION {Driven[k] : k \in 1..Window}
    BY <1>3, <2>1 DEF Tabled
  <2> QED BY <2>2 DEF KnownTables, TimeTables, Driven
<1>5. TableKnown'
  BY <1>1, <1>4 DEF TableKnown, KnownTables
<1> QED BY <1>2, <1>5 DEF KInv

LEMMA ExpandTabled ==
  ASSUME IInv, KInv, NEW p \in openList, Expand(p)
  PROVE  KInv'
<1>1. /\ p \in Tables /\ openList' \subseteq openList /\ result' = result
      /\ todo' = Successors(p, Close(p)) /\ Tabled(p)
  BY PopTypes DEF Expand, KInv
<1>2. Time(p) < Window
  BY <1>1, LastStep, SearchAssumption DEF Expand, Done
<1>3. \A q \in todo' : Tabled(q)
  BY <1>1, <1>2, SuccessorsTabled
<1>4. \A q \in (todo \cup openList)' : Tabled(q)'
  BY <1>1, <1>3, TabledStands DEF KInv
<1>5. TableKnown'
  BY <1>1 DEF KInv, TableKnown, KnownTables
<1> QED BY <1>4, <1>5 DEF KInv

LEMMA KInvStep == IInv /\ KInv /\ [Next]_vars => KInv'
<1> SUFFICES ASSUME IInv, KInv, [Next]_vars PROVE KInv'
  OBVIOUS
<1>1. CASE UNCHANGED searchVars
  BY <1>1, SameTabled DEF searchVars
<1>2. CASE AskOracle \/ OracleStep \/ UNCHANGED vars
  BY <1>1, <1>2 DEF AskOracle, OracleStep, vars
<1>3. CASE RunDry
  BY <1>3, TabledStands DEF RunDry, KInv, TableKnown
<1>4. CASE \E q \in todo : Push(q)
  BY <1>4, SameTabled DEF Push
<1>5. CASE \E p \in openList : Skip(p)
  BY <1>5, SameTabled DEF Skip, Pop
<1>6. CASE \E p \in openList : Finish(p) \/ Expand(p)
  BY <1>6, FinishTabled, ExpandTabled
<1>7. CASE \E n \in Nodes : Begin(n)
  BY <1>7, BeginTabled
<1> QED BY <1>2, <1>3, <1>4, <1>5, <1>6, <1>7 DEF Next, Search

(* On every map: whatever the ledger and the oracle say, a path of two     *)
(* steps or more is one of the time tables the planner's model is given.   *)
THEOREM TablesAreKnown == Spec => []TableKnown
<1>1. KInv => TableKnown
  BY DEF KInv
<1> QED BY <1>1, InitKInv, KInvStep, AlwaysIInv, PTL DEF Spec

-----------------------------------------------------------------------------
(* What the search hands over is what the planner's model assumes of its   *)
(* tables.                                                                 *)

(* Timely but for the number of steps; "apart" is the clearance.           *)
InOrder(p) ==
  /\ p[1].arr = 0
  /\ \A i \in 1..Len(p) : p[i].arr <= p[i].dep
  /\ \A i, j \in 1..Len(p) :
       i < j => p[i].dep + Clearance < p[j].arr /\ p[i].node # p[j].node

LEMMA StartInOrder == \A p \in Starts : InOrder(p) /\ Len(p) = 1
<1> SUFFICES ASSUME NEW p \in Starts PROVE InOrder(p) /\ Len(p) = 1
  OBVIOUS
<1>1. PICK s \in UNION {Stays(n, 0, Wait, Window) : n \in Nodes} : p = <<s>>
  BY DEF Starts
<1>2. PICK n \in Nodes : s \in Stays(n, 0, Wait, Window)
  OBVIOUS
<1>3. s.arr = 0 /\ s.arr <= s.dep
  BY <1>2, StaySteps
<1> QED BY <1>1, <1>3 DEF InOrder

LEMMA FurtherInOrder ==
  ASSUME \A l \in Roads : Length[l] > Clearance,
         NEW p \in Tables, InOrder(p), NEW s, GoesOn(p, s)
  PROVE  InOrder(Append(p, s)) /\ Len(Append(p, s)) = Len(p) + 1
<1> DEFINE q == Append(p, s)
<1>1. PICK n \in Nat : n = Len(p) /\ n > 0 /\ p \in Seq(Steps) /\ p \in [1..n -> Steps]
  BY LastStep
<1>10. n \in Nat /\ n > 0
  BY <1>1
<1>2. /\ s \in Steps /\ s.arr <= s.dep
      /\ s.arr = p[n].dep + Length[{Node(p), s.node}]
      /\ Length[{Node(p), s.node}] \in Nat
  BY <1>1, GoesOnSteps DEF Time
<1>3. Length[{Node(p), s.node}] > Clearance
  BY DEF GoesOn
<1>4. Clearance \in Nat
  BY SearchAssumption
<1>5. Len(q) = n + 1 /\ q[n + 1] = s /\ \A i \in 1..n : q[i] = p[i]
  BY <1>1, <1>2
<1> HIDE DEF q
<1>6. q[1].arr = 0
  BY <1>1, <1>5 DEF InOrder
<1>7. \A i \in 1..n + 1 : q[i].arr <= q[i].dep
  BY <1>1, <1>2, <1>5 DEF InOrder
<1>8. ASSUME NEW i \in 1..n + 1, NEW j \in 1..n + 1, i < j
      PROVE  q[i].dep + Clearance < q[j].arr /\ q[i].node # q[j].node
  <2>1. CASE j <= n
    <3>1. i \in 1..n /\ j \in 1..n
      BY <1>1, <1>8, <2>1
    <3> QED BY <1>1, <1>5, <1>8, <3>1 DEF InOrder
  <2>2. CASE j = n + 1
    <3>1. i \in 1..n /\ q[i] = p[i] /\ q[j] = s
      BY <1>1, <1>5, <1>8, <2>2
    <3>2. p[i].node # s.node
      BY <1>1, <3>1 DEF GoesOn
    <3>3. p[i].dep \in Nat /\ p[n].dep \in Nat /\ p[n].arr \in Nat
      <4>1. p[i] \in Steps /\ p[n] \in Steps
        BY <1>1, <3>1
      <4> QED BY <4>1 DEF Steps
    <3>4. p[i].dep <= p[n].dep
      <4>1. CASE i = n
        BY <3>3, <4>1
      <4>2. CASE i # n
        <5>1. n \in 1..n /\ i < n
          BY <1>10, <3>1, <4>2
        <5>2. p[i].dep + Clearance < p[n].arr /\ p[n].arr <= p[n].dep
          BY <1>1, <3>1, <5>1 DEF InOrder
        <5> QED BY <1>4, <3>3, <5>2
      <4> QED BY <4>1, <4>2
    <3>5. PICK d \in Nat : d = Length[{Node(p), s.node}]
      BY <1>2
    <3> QED BY <1>2, <1>3, <1>4, <3>1, <3>2, <3>3, <3>4, <3>5
  <2>3. j <= n \/ j = n + 1
    BY <1>1
  <2> QED BY <2>1, <2>2, <2>3
<1>9. InOrder(q)
  BY <1>5, <1>6, <1>7, <1>8 DEF InOrder
<1> QED BY <1>1, <1>5, <1>9 DEF q

LEMMA DrivenInOrder ==
  ASSUME \A l \in Roads : Length[l] > Clearance
  PROVE  \A k \in Nat : \A p \in Driven[k] : InOrder(p) /\ Len(p) = k + 1
<1> DEFINE P == {k \in Nat : \A p \in Driven[k] : InOrder(p) /\ Len(p) = k + 1}
<1>1. 0 \in P
  BY StartInOrder, DrivenBy
<1>2. ASSUME NEW k \in Nat, k \in P PROVE k + 1 \in P
  <2> SUFFICES ASSUME NEW q \in Driven[k + 1]
               PROVE  InOrder(q) /\ Len(q) = (k + 1) + 1
    OBVIOUS
  <2>1. PICK p \in Driven[k] : \E s : GoesOn(p, s) /\ q = Append(p, s)
    <3>1. q \in Further(Driven[k])
      BY DrivenBy
    <3> QED BY <3>1, FurtherMeans
  <2>2. PICK s : GoesOn(p, s) /\ q = Append(p, s)
    BY <2>1
  <2>3. p \in Tables /\ InOrder(p) /\ Len(p) = k + 1
    BY <1>2, DrivenBy
  <2> QED BY <2>2, <2>3, FurtherInOrder
<1> HIDE DEF P
<1>3. Nat \subseteq P
  BY <1>1, <1>2, Induction
<1> QED BY <1>3 DEF P

(* Where every link takes longer than the clearance, as on the map of the  *)
(* build (1 s against 0.6 s), RoutePlanner!TablesAssumption holds of the   *)
(* tables that are known.                                                  *)
THEOREM KnownTablesAreTimely ==
  (\A l \in Roads : Length[l] > Clearance) => \A p \in KnownTables : Timely(p)
<1> SUFFICES ASSUME \A l \in Roads : Length[l] > Clearance, NEW p \in KnownTables
             PROVE  Timely(p)
  OBVIOUS
<1>1. PICK k \in 1..Window : p \in Driven[k]
  BY DEF KnownTables, TimeTables, Driven
<1>2. k \in Nat /\ k >= 1
  BY <1>1, SearchAssumption
<1>3. InOrder(p) /\ Len(p) = k + 1 /\ p \in Tables
  BY <1>1, <1>2, DrivenInOrder, DrivenBy
<1> QED BY <1>2, <1>3, LastStep DEF Timely, InOrder

(* A ledger as a search sees it that begins at time t of the run.          *)
SeenFrom(t, booked) ==
  {[e EXCEPT !.start = @ - t, !.end = @ - t] : e \in booked}

LEMMA FreeFrom ==
  ASSUME NEW booked \in SUBSET Entries, NEW t \in Int, NEW at, NEW a,
         NEW start \in Int, NEW end \in Int
  PROVE  IsFree(SeenFrom(t, booked), at, start, end, a)
           <=> IsFree(booked, at, t + start, t + end, a)
<1> DEFINE Seen(e) == [e EXCEPT !.start = @ - t, !.end = @ - t]
<1>1. ASSUME NEW e \in Entries
      PROVE  /\ Seen(e).at = e.at /\ Seen(e).agv = e.agv
             /\ Overlaps(Seen(e), start, end) <=> Overlaps(e, t + start, t + end)
  <2>1. /\ Seen(e).at = e.at /\ Seen(e).agv = e.agv
        /\ Seen(e).start = e.start - t /\ Seen(e).end = e.end - t
        /\ e.start \in Int /\ e.end \in Int
    BY DEF Entries
  <2> QED BY <2>1 DEF Overlaps
<1>2. SeenFrom(t, booked) = {Seen(e) : e \in booked}
  BY DEF SeenFrom
<1> HIDE DEF Seen
<1> QED BY <1>1, <1>2 DEF IsFree

(* It makes no difference at which time of the run a search is made:       *)
(* FindPath reckons from its own start, and what keeps the contract on the *)
(* ledger as seen from there keeps it at that time on the ledger itself.   *)
THEOREM AnyTimeIsZero ==
  ASSUME NEW booked \in SUBSET Entries, NEW t \in Int, NEW a,
         NEW p \in Tables, NEW start, NEW target
  PROVE  Found(SeenFrom(t, booked), a, p, start, target, 0)
           <=> Found(booked, a, p, start, target, t)
<1>1. /\ Len(p) \in Nat \ {0} /\ Clearance \in Nat /\ Horizon \in Nat
      /\ \A i \in 1..Len(p) : p[i].arr \in Nat /\ p[i].dep \in Nat
  <2>1. Len(p) \in Nat \ {0} /\ \A i \in 1..Len(p) : p[i] \in Steps
    BY LastStep
  <2>2. Clearance \in Nat /\ Horizon \in Nat
    BY SearchAssumption DEF Horizon
  <2>3. \A s \in Steps : s.arr \in Nat /\ s.dep \in Nat
    BY DEF Steps
  <2> QED BY <2>1, <2>2, <2>3
<1>2. \A i \in Links(p) : i \in 1..Len(p) /\ i + 1 \in 1..Len(p)
  BY <1>1 DEF Links
<1> DEFINE Stop(i) == IF p[i].node = target THEN Horizon ELSE Clearance
<1>3. ASSUME NEW i \in Links(p)
      PROVE  /\ IsFree(SeenFrom(t, booked), LinkEdge(p, i), Dep(p, i, 0), LinkLeave(p, i, 0), a)
                  <=> IsFree(booked, LinkEdge(p, i), Dep(p, i, t), LinkLeave(p, i, t), a)
             /\ IsFree(SeenFrom(t, booked), p[i + 1].node, Arr(p, i + 1, 0),
                       Arr(p, i + 1, 0) + Stop(i + 1), a)
                  <=> IsFree(booked, p[i + 1].node, Arr(p, i + 1, t),
                             Arr(p, i + 1, t) + Stop(i + 1), a)
  <2>1. PICK dep \in Nat : dep = p[i].dep
    BY <1>1, <1>2, <1>3
  <2>2. PICK arr \in Nat : arr = p[i + 1].arr
    BY <1>1, <1>2, <1>3
  <2>3. PICK stop \in Nat : stop = Stop(i + 1)
    BY <1>1
  <2> HIDE DEF Stop
  <2>4. /\ Dep(p, i, 0) = dep /\ LinkLeave(p, i, 0) = arr + Clearance
        /\ Dep(p, i, t) = t + dep /\ LinkLeave(p, i, t) = t + (arr + Clearance)
    BY <1>1, <2>1, <2>2 DEF Dep, LinkLeave, Arr
  <2>5. /\ Arr(p, i + 1, 0) = arr /\ Arr(p, i + 1, t) = t + arr
        /\ t + arr + stop = t + (arr + stop)
    BY <2>2, <2>3 DEF Arr
  <2>6. arr + Clearance \in Int /\ arr + stop \in Int
    BY <1>1
  <2>7. PICK edge : edge = LinkEdge(p, i)
    OBVIOUS
  <2>8. PICK node : node = p[i + 1].node
    OBVIOUS
  <2>9. IsFree(SeenFrom(t, booked), edge, dep, arr + Clearance, a)
          <=> IsFree(booked, edge, t + dep, t + (arr + Clearance), a)
    BY <2>6, FreeFrom
  <2>10. IsFree(SeenFrom(t, booked), node, arr, arr + stop, a)
           <=> IsFree(booked, node, t + arr, t + (arr + stop), a)
    BY <2>6, FreeFrom
  <2> QED BY <2>3, <2>4, <2>5, <2>7, <2>8, <2>9, <2>10
<1>4. ASSUME NEW i \in 1..Len(p)
      PROVE  IsFree(SeenFrom(t, booked), p[i].node, Arr(p, i, 0), Dep(p, i, 0) + Clearance, a)
               <=> IsFree(booked, p[i].node, Arr(p, i, t), Dep(p, i, t) + Clearance, a)
  <2>1. PICK dep \in Nat : dep = p[i].dep
    BY <1>1
  <2>2. PICK arr \in Nat : arr = p[i].arr
    BY <1>1
  <2>3. /\ Arr(p, i, 0) = arr /\ Dep(p, i, 0) + Clearance = dep + Clearance
        /\ Arr(p, i, t) = t + arr /\ Dep(p, i, t) + Clearance = t + (dep + Clearance)
        /\ dep + Clearance \in Int
    BY <1>1, <2>1, <2>2 DEF Arr, Dep
  <2>4. PICK node : node = p[i].node
    OBVIOUS
  <2>5. IsFree(SeenFrom(t, booked), node, arr, dep + Clearance, a)
          <=> IsFree(booked, node, t + arr, t + (dep + Clearance), a)
    BY <2>3, FreeFrom
  <2> QED BY <2>3, <2>4, <2>5
<1> QED BY <1>3, <1>4 DEF Found

(* Put together: on a map whose links take longer than the clearance, a    *)
(* path of two steps or more that is found at time t, on the ledger as it  *)
(* is then, is one that RoutePlanner!RouteFound may book at time t.        *)
Booked(p) ==
  /\ p \in KnownTables
  /\ Timely(p)
  /\ \A t \in Int : \A booked \in SUBSET Entries :
       SeenFrom(t, booked) = ledger => Found(booked, Self, p, from, Goal, t)

THEOREM SearchServesPlanner ==
  ASSUME \A l \in Roads : Length[l] > Clearance
  PROVE  Spec => [](result # NONE /\ Len(result) >= 2 => Booked(result))
<1>1. ASSUME IInv, KInv, result # NONE, Len(result) >= 2
      PROVE  Booked(result)
  <2>1. result \in Seq(Steps) /\ result # <<>>
    BY <1>1 DEF IInv, TypeOK
  <2>2. result \in Tables
    BY <2>1 DEF Tables
  <2>3. Found(ledger, Self, result, from, Goal, 0)
    BY <1>1, <2>1 DEF IInv, Sound, ResultKeepsContract
  <2>4. result \in KnownTables
    BY <1>1 DEF KInv, TableKnown
  <2>5. Timely(result)
    BY <2>4, KnownTablesAreTimely
  <2> QED BY <2>2, <2>3, <2>4, <2>5, AnyTimeIsZero DEF Booked
<1>2. IInv /\ KInv => (result # NONE /\ Len(result) >= 2 => Booked(result))
  BY <1>1
<1> QED BY <1>2, InitKInv, KInvStep, AlwaysIInv, PTL DEF Spec

=============================================================================
