------------------------------- MODULE RRAStar -------------------------------
(***************************************************************************)
(* RRAStar (Shared/RRAstar.cpp): the distance oracle of the path search.   *)
(* One engine serves one goal for the whole run: a query stops as soon as  *)
(* it knows its node, and the next one resumes with the open list that is  *)
(* left.  A query is made of the steps of its loop; "want" is the node it  *)
(* asks for.  Entries of equal length leave the heap in any order.         *)
(***************************************************************************)
EXTENDS RoadMap, FiniteSetsExt

VARIABLES
  open,    \* m_OpenList
  closed,  \* m_ClosedList, NONE where there is no entry
  want,    \* the node the running query asks for, NONE between queries
  answer   \* what GetAbstractDistance last returned for each node, or NONE

vars == <<open, closed, want, answer>>

TypeOK ==
  /\ open \subseteq [node : Nodes, g : Nat]
  /\ closed \in [Nodes -> Nat \cup {NONE}]
  /\ want \in Nodes \cup {NONE}
  /\ answer \in [Nodes -> Nat \cup {NONE, Far}]

Init ==
  /\ open = {[node |-> Goal, g |-> 0]}
  /\ closed = [n \in Nodes |-> NONE]
  /\ want = NONE
  /\ answer = [n \in Nodes |-> NONE]

Known(n) == closed[n] # NONE

(* A node that is closed is answered from the cache.                       *)
Hit(n) ==
  /\ want = NONE
  /\ Known(n)
  /\ answer' = [answer EXCEPT ![n] = closed[n]]
  /\ UNCHANGED <<open, closed, want>>

(* Any other node starts the loop.  An engine is made for a search that    *)
(* starts away from the goal, and the start is what it asks for first.     *)
Ask(n) ==
  /\ want = NONE
  /\ n # Goal \/ \E m \in Nodes : Known(m)
  /\ ~Known(n)
  /\ want' = n
  /\ UNCHANGED <<open, closed, answer>>

(* Mutant: a priority_queue without std::greater.                          *)
PopGreatest(e) ==
  /\ want # NONE
  /\ \A f \in open : e.g >= f.g

(* The loop takes an entry of least length off the heap.                   *)
Pop(e) ==
  /\ want # NONE
  /\ \A f \in open : e.g <= f.g

(* Its node was reached on a shorter way before.                           *)
Skip ==
  \E e \in open :
    /\ Pop(e)
    /\ Known(e.node)
    /\ open' = open \ {e}
    /\ UNCHANGED <<closed, want, answer>>

(* Mutant: the way behind the node is not counted.                         *)
ExpansionOfOneLink(e) ==
  {[node |-> n, g |-> Length[{e.node, n}]] :
     n \in {m \in Neighbours(e.node) : ~Known(m)}}

Expansion(e) ==
  {[node |-> n, g |-> e.g + Length[{e.node, n}]] :
     n \in {m \in Neighbours(e.node) : ~Known(m)}}

(* The node that was asked for: it is closed and the query returns at      *)
(* once, before the neighbours are looked at.                              *)
Find ==
  \E e \in open :
    /\ Pop(e)
    /\ ~Known(e.node)
    /\ e.node = want
    /\ closed' = [closed EXCEPT ![e.node] = e.g]
    /\ open' = open \ {e}
    /\ answer' = [answer EXCEPT ![want] = e.g]
    /\ want' = NONE

(* Mutant: nodes that are closed are closed again.                         *)
ExpandAgain ==
  \E e \in open :
    /\ Pop(e)
    /\ e.node # want
    /\ closed' = [closed EXCEPT ![e.node] = e.g]
    /\ open' = (open \ {e}) \cup Expansion(e)
    /\ UNCHANGED <<want, answer>>

(* Any other node: it is closed and expanded.                              *)
Expand ==
  \E e \in open :
    /\ Pop(e)
    /\ ~Known(e.node)
    /\ e.node # want
    /\ closed' = [closed EXCEPT ![e.node] = e.g]
    /\ open' = (open \ {e}) \cup Expansion(e)
    /\ UNCHANGED <<want, answer>>

GiveUp ==
  /\ want # NONE
  /\ open = {}
  /\ answer' = [answer EXCEPT ![want] = Far]
  /\ want' = NONE
  /\ UNCHANGED <<open, closed>>

Next == Skip \/ Find \/ Expand \/ GiveUp \/ \E n \in Nodes : Hit(n) \/ Ask(n)

Spec == Init /\ [][Next]_vars /\ WF_vars(Skip \/ Find \/ Expand \/ GiveUp)

-----------------------------------------------------------------------------
(* Reference: the length of a shortest way to the goal.  Arrivals[k] are   *)
(* the ends and lengths of all ways of k roads that begin at the goal; all *)
(* lengths are positive, so fewer roads than nodes are enough.             *)
Arrivals[k \in Nat] ==
  IF k = 0 THEN {<<Goal, 0>>}
  ELSE UNION {{<<n, w[2] + Length[{w[1], n}]>> : n \in Neighbours(w[1])} :
                w \in Arrivals[k - 1]}

Shortest ==
  LET ways == UNION {Arrivals[k] : k \in 0 .. Cardinality(Nodes) - 1}
  IN  [n \in Nodes |-> LET lengths == {w[2] : w \in {w \in ways : w[1] = n}}
                       IN  IF lengths = {} THEN Far ELSE Min(lengths)]

(* No distance is too short: the heuristic may overestimate, but it never  *)
(* promises a way that is not there, and no node is closed that is cut     *)
(* off from the goal.                                                      *)
NeverTooShort ==
  LET least == Shortest
  IN  \A n \in Nodes : Known(n) => least[n] # Far /\ closed[n] >= least[n]

(* Until a query has returned, everything that is closed is exact: the     *)
(* first query of an engine is a plain Dijkstra search.                    *)
FirstQueryExact ==
  (\A n \in Nodes : answer[n] = NONE) =>
    LET least == Shortest
    IN  \A n \in Nodes : Known(n) => closed[n] = least[n]

(* Resuming keeps the order of the search: what is still open is never     *)
(* closer than what is closed, so no distance has to be corrected later.   *)
FrontierBeyondClosed ==
  \A e \in open, n \in Nodes : Known(n) => closed[n] <= e.g

(* An answer stands for the rest of the run: searches that ask again see   *)
(* the same distance, whatever was asked for in between.                   *)
AnswersStand ==
  [][\A n \in Nodes : answer[n] # NONE => answer'[n] = answer[n]]_vars

(* What the comment at the end of GetAbstractDistance says: 999999 means   *)
(* that the node is physically cut off.                                    *)
FarMeansCutOff == \A n \in Nodes : answer[n] = Far => Shortest[n] = Far

=============================================================================
