---------------------------- MODULE RRAStar_proofs ----------------------------
(***************************************************************************)
(* Proofs about the oracle, for every map, every goal and every sequence   *)
(* of queries: the resumed search stays sorted, an answer once given is    *)
(* given for the rest of the run, no distance is too short, and those of   *)
(* the first query are exact.                                              *)
(***************************************************************************)
EXTENDS RRAStar, TLAPS, FiniteSetTheorems

(* The query asks for a node that is not known; what was answered is what  *)
(* is closed; and a node is called cut off only when nothing is left open. *)
AnswersFromClosed ==
  /\ want # NONE => ~Known(want)
  /\ \A n \in Nodes : answer[n] \in Nat => closed[n] = answer[n]
  /\ \A n \in Nodes : answer[n] = Far => open = {} /\ ~Known(n)

IInv == TypeOK /\ FrontierBeyondClosed /\ AnswersFromClosed

-----------------------------------------------------------------------------
(* Expansion adds entries for nodes, and none is nearer than the node that *)
(* is expanded.                                                            *)
LEMMA ExpansionFarther ==
  ASSUME NEW e \in [node : Nodes, g : Nat]
  PROVE  \A x \in Expansion(e) : x \in [node : Nodes, g : Nat] /\ x.g >= e.g
<1> SUFFICES ASSUME NEW x \in Expansion(e)
             PROVE  x \in [node : Nodes, g : Nat] /\ x.g >= e.g
  OBVIOUS
<1>1. PICK n \in Nodes : {e.node, n} \in Roads
                         /\ x = [node |-> n, g |-> e.g + Length[{e.node, n}]]
  BY DEF Expansion, Neighbours
<1>2. Length[{e.node, n}] \in Nat
  BY <1>1, MapAssumption
<1> QED BY <1>1, <1>2

LEMMA InitIInv == Init => IInv
<1> SUFFICES ASSUME Init PROVE IInv
  OBVIOUS
<1>1. TypeOK
  BY MapAssumption DEF Init, TypeOK
<1>2. FrontierBeyondClosed /\ AnswersFromClosed
  BY MapAssumption DEF Init, FrontierBeyondClosed, AnswersFromClosed, Known
<1> QED BY <1>1, <1>2 DEF IInv

(* A closed node stays closed at its distance, and a node is closed at the *)
(* distance of the nearest open entry.                                     *)
LEMMA CloseOne ==
  ASSUME IInv, NEW e \in open, Pop(e), ~Known(e.node),
         NEW new \in SUBSET [node : Nodes, g : Nat], \A x \in new : x.g >= e.g,
         closed' = [closed EXCEPT ![e.node] = e.g],
         open' = (open \ {e}) \cup new
  PROVE  /\ open' \subseteq [node : Nodes, g : Nat]
         /\ closed' \in [Nodes -> Nat \cup {NONE}]
         /\ FrontierBeyondClosed'
<1>1. e \in [node : Nodes, g : Nat] /\ open \subseteq [node : Nodes, g : Nat]
  BY DEF IInv, TypeOK
<1>2. closed' \in [Nodes -> Nat \cup {NONE}]
  BY <1>1 DEF IInv, TypeOK
<1>3. ASSUME NEW f \in open', NEW n \in Nodes, closed'[n] # NONE
      PROVE  closed'[n] <= f.g
  <2>1. f.g \in Nat /\ e.g \in Nat /\ e.g <= f.g
    BY <1>1 DEF Pop
  <2>2. CASE n = e.node
    BY <2>1, <2>2, <1>1 DEF IInv, TypeOK
  <2>3. CASE n # e.node
    <3>1. closed'[n] = closed[n] /\ closed[n] \in Nat
      BY <2>3, <1>1, <1>3, MapAssumption DEF IInv, TypeOK
    <3>2. closed[n] <= e.g
      BY <3>1, <1>3, MapAssumption DEF IInv, FrontierBeyondClosed, Known
    <3> QED BY <2>1, <3>1, <3>2
  <2> QED BY <2>2, <2>3
<1>4. FrontierBeyondClosed'
  BY <1>3 DEF FrontierBeyondClosed, Known
<1> QED BY <1>1, <1>2, <1>4

LEMMA HitKeeps == ASSUME IInv, NEW n \in Nodes, Hit(n)
                  PROVE  IInv' /\ \A m \in Nodes : answer[m] # NONE => answer'[m] = answer[m]
<1> USE DEF IInv
<1>1. TypeOK'
  BY DEF Hit, TypeOK, Known
<1>2. FrontierBeyondClosed'
  BY DEF Hit, FrontierBeyondClosed, Known
<1>3. closed[n] \in Nat /\ answer[n] # Far
  BY DEF Hit, TypeOK, Known, AnswersFromClosed
<1>4. answer[n] # NONE => answer[n] = closed[n]
  BY <1>3 DEF TypeOK, AnswersFromClosed
<1>5. AnswersFromClosed'
  BY <1>3, MapAssumption DEF Hit, TypeOK, Known, AnswersFromClosed
<1>6. \A m \in Nodes : answer[m] # NONE => answer'[m] = answer[m]
  BY <1>4 DEF Hit, TypeOK
<1> QED BY <1>1, <1>2, <1>5, <1>6

LEMMA AskKeeps == ASSUME IInv, NEW n \in Nodes, Ask(n)
                  PROVE  IInv' /\ answer' = answer
BY DEF IInv, Ask, TypeOK, FrontierBeyondClosed, AnswersFromClosed, Known

LEMMA SkipKeeps == ASSUME IInv, Skip
                   PROVE  IInv' /\ answer' = answer
<1>1. PICK e \in open : open' = open \ {e} /\ UNCHANGED <<closed, want, answer>>
  BY DEF Skip
<1>2. TypeOK'
  BY <1>1 DEF IInv, TypeOK
<1>3. FrontierBeyondClosed'
  BY <1>1 DEF IInv, FrontierBeyondClosed, Known
<1>4. AnswersFromClosed'
  BY <1>1 DEF IInv, AnswersFromClosed, Known
<1> QED BY <1>1, <1>2, <1>3, <1>4 DEF IInv

LEMMA FindKeeps == ASSUME IInv, Find
                   PROVE  IInv' /\ \A m \in Nodes : answer[m] # NONE => answer'[m] = answer[m]
<1>1. PICK e \in open : /\ Pop(e) /\ ~Known(e.node) /\ e.node = want
                        /\ closed' = [closed EXCEPT ![e.node] = e.g]
                        /\ open' = open \ {e}
                        /\ answer' = [answer EXCEPT ![want] = e.g]
                        /\ want' = NONE
  BY DEF Find
<1>2. e \in [node : Nodes, g : Nat] /\ want \in Nodes
  BY <1>1 DEF IInv, TypeOK
<1>3. /\ open' = (open \ {e}) \cup {}
      /\ {} \in SUBSET [node : Nodes, g : Nat]
      /\ \A x \in {} : x.g >= e.g
  BY <1>1
<1>4. /\ open' \subseteq [node : Nodes, g : Nat]
      /\ closed' \in [Nodes -> Nat \cup {NONE}]
      /\ FrontierBeyondClosed'
  BY <1>1, <1>3, CloseOne
<1>5. TypeOK'
  BY <1>1, <1>2, <1>4 DEF IInv, TypeOK
<1>6. answer[want] = NONE
  BY <1>1, <1>2 DEF IInv, TypeOK, AnswersFromClosed, Known
<1>7. \A m \in Nodes : answer[m] # NONE => answer'[m] = answer[m]
  BY <1>1, <1>2, <1>6 DEF IInv, TypeOK
<1>8. ASSUME NEW m \in Nodes, answer'[m] \in Nat
      PROVE  closed'[m] = answer'[m]
  BY <1>1, <1>2, <1>8 DEF IInv, TypeOK, AnswersFromClosed
<1>9. \A m \in Nodes : answer'[m] # Far
  BY <1>1, <1>2, MapAssumption DEF IInv, TypeOK, AnswersFromClosed
<1>10. AnswersFromClosed'
  BY <1>1, <1>8, <1>9 DEF AnswersFromClosed
<1> QED BY <1>4, <1>5, <1>7, <1>10 DEF IInv

LEMMA ExpandKeeps == ASSUME IInv, Expand
                     PROVE  IInv' /\ answer' = answer
<1>1. PICK e \in open : /\ Pop(e) /\ ~Known(e.node) /\ e.node # want
                        /\ closed' = [closed EXCEPT ![e.node] = e.g]
                        /\ open' = (open \ {e}) \cup Expansion(e)
                        /\ UNCHANGED <<want, answer>>
  BY DEF Expand
<1>2. e \in [node : Nodes, g : Nat]
  BY <1>1 DEF IInv, TypeOK
<1>3. Expansion(e) \in SUBSET [node : Nodes, g : Nat] /\ \A x \in Expansion(e) : x.g >= e.g
  BY <1>2, ExpansionFarther
<1>4. /\ open' \subseteq [node : Nodes, g : Nat]
      /\ closed' \in [Nodes -> Nat \cup {NONE}]
      /\ FrontierBeyondClosed'
  BY <1>1, <1>3, CloseOne
<1>5. TypeOK'
  BY <1>1, <1>4 DEF IInv, TypeOK
<1>6. want # NONE => ~Known(want)'
  BY <1>1, <1>2 DEF IInv, TypeOK, AnswersFromClosed, Known
<1>7. ASSUME NEW n \in Nodes, answer[n] \in Nat
      PROVE  closed'[n] = answer[n]
  BY <1>1, <1>2, <1>7, MapAssumption DEF IInv, TypeOK, AnswersFromClosed, Known
<1>8. \A n \in Nodes : answer[n] # Far
  BY <1>1 DEF IInv, AnswersFromClosed
<1>9. AnswersFromClosed'
  BY <1>1, <1>6, <1>7, <1>8 DEF AnswersFromClosed
<1> QED BY <1>1, <1>4, <1>5, <1>9 DEF IInv

LEMMA GiveUpKeeps == ASSUME IInv, GiveUp
                     PROVE  IInv' /\ \A m \in Nodes : answer[m] # NONE => answer'[m] = answer[m]
<1>1. want \in Nodes /\ ~Known(want)
  BY DEF IInv, TypeOK, GiveUp, AnswersFromClosed
<1>2. answer[want] \in {NONE, Far}
  BY <1>1 DEF IInv, TypeOK, AnswersFromClosed, Known
<1>3. TypeOK'
  BY <1>1 DEF IInv, TypeOK, GiveUp
<1>4. FrontierBeyondClosed'
  BY DEF IInv, FrontierBeyondClosed, GiveUp
<1>5. AnswersFromClosed'
  BY <1>1, MapAssumption DEF IInv, TypeOK, AnswersFromClosed, GiveUp, Known
<1>6. \A m \in Nodes : answer[m] # NONE => answer'[m] = answer[m]
  BY <1>1, <1>2 DEF IInv, TypeOK, GiveUp
<1> QED BY <1>3, <1>4, <1>5, <1>6 DEF IInv

LEMMA StepKeeps ==
  ASSUME IInv, [Next]_vars
  PROVE  IInv' /\ \A m \in Nodes : answer[m] # NONE => answer'[m] = answer[m]
<1>1. CASE UNCHANGED vars
  BY <1>1 DEF vars, IInv, TypeOK, FrontierBeyondClosed, AnswersFromClosed, Known
<1>2. ASSUME NEW n \in Nodes, Hit(n) \/ Ask(n)
      PROVE  IInv' /\ \A m \in Nodes : answer[m] # NONE => answer'[m] = answer[m]
  BY <1>2, HitKeeps, AskKeeps
<1>3. CASE Skip \/ Find \/ Expand \/ GiveUp
  BY <1>3, SkipKeeps, FindKeeps, ExpandKeeps, GiveUpKeeps
<1> QED BY <1>1, <1>2, <1>3 DEF Next

(* No distance is corrected later.                                         *)
LEMMA ClosedStands ==
  ASSUME IInv, [Next]_vars, NEW n \in Nodes, Known(n)
  PROVE  closed'[n] = closed[n]
<1>1. CASE Find \/ Expand
  <2>1. PICK e \in open : ~Known(e.node) /\ closed' = [closed EXCEPT ![e.node] = e.g]
    BY <1>1 DEF Find, Expand
  <2>2. QED
    BY <2>1 DEF IInv, TypeOK
<1>2. CASE UNCHANGED vars \/ Skip \/ GiveUp \/ \E m \in Nodes : Hit(m) \/ Ask(m)
  BY <1>2 DEF vars, Skip, GiveUp, Hit, Ask
<1> QED BY <1>1, <1>2 DEF Next

-----------------------------------------------------------------------------
LEMMA AlwaysIInv == Spec => []IInv
BY InitIInv, StepKeeps, PTL DEF Spec

(* The oracle's state keeps its types.                                     *)
THEOREM TypeCorrect == Spec => []TypeOK
<1>1. IInv => TypeOK
  BY DEF IInv
<1> QED BY <1>1, AlwaysIInv, PTL

(* Resuming keeps the order: no open entry is nearer than a closed node.   *)
THEOREM FrontierStaysBeyond == Spec => []FrontierBeyondClosed
<1>1. IInv => FrontierBeyondClosed
  BY DEF IInv
<1> QED BY <1>1, AlwaysIInv, PTL

(* No query changes what an earlier query was told.                        *)
THEOREM AnswersStandForGood == Spec => AnswersStand
<1>1. IInv /\ [Next]_vars =>
        [\A n \in Nodes : answer[n] # NONE => answer'[n] = answer[n]]_vars
  BY StepKeeps
<1> QED BY <1>1, AlwaysIInv, PTL DEF Spec, AnswersStand

-----------------------------------------------------------------------------
(* Induction and recursion over the naturals, from the order of the finite *)
(* sets by inclusion: what a recursive definition says of the next number  *)
(* can be used only once a function that does so is known to exist.        *)
LEMMA LeastNumber ==
  ASSUME NEW T, T \subseteq Nat, T # {}
  PROVE  \E x \in T : \A y \in T : x <= y
<1> DEFINE R == StrictSubsetOrdering(Nat)
           U == {0..x : x \in T}
<1>1. IsWellFoundedOn(R, FiniteSubsetsOf(Nat))
  BY FS_StrictSubsetOrderingWellFounded
<1>2. U \subseteq FiniteSubsetsOf(Nat)
  <2>1. ASSUME NEW x \in T PROVE 0..x \in FiniteSubsetsOf(Nat)
    <3>1. x \in Int /\ 0 \in Int /\ 0..x \subseteq Nat
      OBVIOUS
    <3>2. IsFiniteSet(0..x)
      BY <3>1, FS_Interval
    <3>3. QED
      BY <3>1, <3>2 DEF FiniteSubsetsOf
  <2>2. QED
    BY <2>1
<1>3. U # {}
  OBVIOUS
<1>4. \A x, y \in T : y < x => <<0..y, 0..x>> \in R
  <2> SUFFICES ASSUME NEW x \in T, NEW y \in T, y < x PROVE <<0..y, 0..x>> \in R
    OBVIOUS
  <2>1. x \in Nat /\ y \in Nat /\ x \in 0..x /\ x \notin 0..y
    OBVIOUS
  <2>2. 0..y \subseteq 0..x /\ 0..y # 0..x /\ 0..x \subseteq Nat
    BY <2>1
  <2>3. QED
    BY <2>2 DEF StrictSubsetOrdering
<1>5. \A x \in T : 0..x \in U
  OBVIOUS
<1> HIDE DEF R
<1>6. PICK m \in U : \A u \in U : <<u, m>> \notin R
  BY <1>1, <1>2, <1>3, WFMin
<1>7. PICK x \in T : m = 0..x
  BY <1>6
<1>8. ASSUME NEW y \in T PROVE x <= y
  <2>1. ~(y < x)
    BY <1>4, <1>5, <1>6, <1>7
  <2>2. QED
    BY <2>1
<1>9. QED
  BY <1>8

LEMMA Induction ==
  ASSUME NEW P, 0 \in P, \A n \in Nat : n \in P => n + 1 \in P
  PROVE  Nat \subseteq P
<1> SUFFICES ASSUME Nat \ P # {} PROVE FALSE
  OBVIOUS
<1>1. PICK x \in Nat \ P : \A y \in Nat \ P : x <= y
  BY LeastNumber
<1>2. x # 0 /\ x - 1 \in Nat
  BY <1>1
<1>3. x - 1 \in P
  BY <1>1, <1>2
<1>4. QED
  BY <1>1, <1>2, <1>3

LEMMA Recursion ==
  ASSUME NEW D, NEW a \in D, NEW F \in [D -> D]
  PROVE  \E g \in [Nat -> D] : g[0] = a /\ \A k \in Nat : g[k + 1] = F[g[k]]
<1> DEFINE Begun(k) == {h \in [0..k -> D] :
                          h[0] = a /\ \A i \in 0..k - 1 : h[i + 1] = F[h[i]]}
<1>1. \A k \in Nat : Begun(k) # {}
  <2> DEFINE P == {k \in Nat : Begun(k) # {}}
  <2>1. 0 \in P
    <3>1. [i \in 0..0 |-> a] \in Begun(0)
      OBVIOUS
    <3>2. QED
      BY <3>1
  <2>2. ASSUME NEW k \in Nat, k \in P PROVE k + 1 \in P
    <3>1. PICK h \in [0..k -> D] : h[0] = a /\ \A i \in 0..k - 1 : h[i + 1] = F[h[i]]
      BY <2>2
    <3> DEFINE b == F[h[k]]
               e == [i \in 0..k + 1 |-> IF i = k + 1 THEN b ELSE h[i]]
    <3>2. b \in D
      OBVIOUS
    <3>3. e \in [0..k + 1 -> D]
      BY <3>2
    <3>4. e[0] = a
      BY <3>1
    <3>5. ASSUME NEW i \in 0..(k + 1) - 1 PROVE e[i + 1] = F[e[i]]
      <4>1. CASE i = k
        BY <4>1
      <4>2. CASE i # k
        <5>1. i \in 0..k - 1 /\ i + 1 \in 0..k /\ i \in 0..k
          BY <4>2
        <5>2. e[i] = h[i] /\ e[i + 1] = h[i + 1]
          BY <5>1
        <5>3. QED
          BY <3>1, <5>1, <5>2
      <4>3. QED
        BY <4>1, <4>2
    <3>6. e \in Begun(k + 1)
      BY <3>3, <3>4, <3>5
    <3>7. QED
      BY <3>6
  <2> HIDE DEF P
  <2>3. Nat \subseteq P
    BY <2>1, <2>2, Induction
  <2>4. QED
    BY <2>3 DEF P
<1>2. ASSUME NEW k \in Nat, NEW l \in Nat, NEW h \in Begun(k), NEW j \in Begun(l),
             NEW n \in Nat, n <= k, n <= l
      PROVE  h[n] = j[n]
  <2> DEFINE P == {i \in Nat : i <= k /\ i <= l => h[i] = j[i]}
  <2>1. 0 \in P
    OBVIOUS
  <2>2. ASSUME NEW i \in Nat, i \in P PROVE i + 1 \in P
    <3> SUFFICES ASSUME i + 1 <= k, i + 1 <= l PROVE h[i + 1] = j[i + 1]
      OBVIOUS
    <3>1. h[i] = j[i]
      BY <2>2
    <3>2. h[i + 1] = F[h[i]]
      <4>1. i \in 0..k - 1
        OBVIOUS
      <4>2. QED
        BY <4>1
    <3>3. j[i + 1] = F[j[i]]
      <4>1. i \in 0..l - 1
        OBVIOUS
      <4>2. QED
        BY <4>1
    <3>4. QED
      BY <3>1, <3>2, <3>3
  <2> HIDE DEF P
  <2>3. n \in P
    BY <2>1, <2>2, Induction
  <2>4. QED
    BY <1>2, <2>3 DEF P
<1> DEFINE c == [k \in Nat |-> CHOOSE h : h \in Begun(k)]
           g == [k \in Nat |-> c[k][k]]
<1>3. \A k \in Nat : c[k] \in Begun(k)
  BY <1>1
<1>4. \A k \in Nat : c[k] \in [0..k -> D] /\ c[k][0] = a
                     /\ \A i \in 0..k - 1 : c[k][i + 1] = F[c[k][i]]
  BY <1>3
<1>5. ASSUME NEW k \in Nat PROVE c[k + 1][k] = c[k][k]
  <2>1. k + 1 \in Nat /\ k <= k + 1 /\ k <= k
    OBVIOUS
  <2>2. c[k + 1] \in Begun(k + 1) /\ c[k] \in Begun(k)
    BY <1>3, <2>1
  <2> HIDE DEF c, Begun
  <2>3. QED
    BY <1>2, <2>1, <2>2
<1> HIDE DEF c
<1>6. g \in [Nat -> D] /\ g[0] = a
  BY <1>4
<1>7. ASSUME NEW k \in Nat PROVE g[k + 1] = F[g[k]]
  <2>1. k \in 0..(k + 1) - 1
    OBVIOUS
  <2>2. c[k + 1][k + 1] = F[c[k + 1][k]]
    BY <1>4, <2>1
  <2>3. QED
    BY <1>5, <2>2
<1>8. QED
  BY <1>6, <1>7

Longer(ways) ==
  UNION {{<<n, w[2] + Length[{w[1], n}]>> : n \in Neighbours(w[1])} : w \in ways}

LEMMA LongerType ==
  ASSUME NEW x \in SUBSET (Nodes \X Nat)
  PROVE  Longer(x) \in SUBSET (Nodes \X Nat)
<1>1. ASSUME NEW z \in Longer(x) PROVE z \in Nodes \X Nat
  <2>1. PICK w \in x : \E n \in Neighbours(w[1]) : z = <<n, w[2] + Length[{w[1], n}]>>
    BY DEF Longer
  <2>a. PICK n \in Neighbours(w[1]) : z = <<n, w[2] + Length[{w[1], n}]>>
    BY <2>1
  <2>2. n \in Nodes /\ w[2] \in Nat /\ {w[1], n} \in Roads
    BY DEF Neighbours
  <2>3. Length[{w[1], n}] \in Nat
    BY <2>2, MapAssumption
  <2>4. QED
    BY <2>a, <2>2, <2>3
<1>2. QED
  BY <1>1

LEMMA ArrivalsUnfold ==
  /\ \A k \in Nat : Arrivals[k] \in SUBSET (Nodes \X Nat)
  /\ Arrivals[0] = {<<Goal, 0>>}
  /\ \A k \in Nat : Arrivals[k + 1] = Longer(Arrivals[k])
<1> DEFINE D == SUBSET (Nodes \X Nat)
           F == [x \in D |-> Longer(x)]
<1>1. {<<Goal, 0>>} \in D
  BY MapAssumption
<1>2. \A x \in D : Longer(x) \in D
  BY LongerType
<1>3. F \in [D -> D] /\ \A x \in D : F[x] = Longer(x)
  BY <1>2
<1> HIDE DEF F, D
<1>4. PICK g : g \in [Nat -> D] /\ g[0] = {<<Goal, 0>>} /\ \A k \in Nat : g[k + 1] = F[g[k]]
  <2>1. PICK a : a = {<<Goal, 0>>}
    OBVIOUS
  <2>2. a \in D /\ F \in [D -> D]
    BY <1>1, <1>3, <2>1
  <2>3. \E g : g \in [Nat -> D] /\ g[0] = a /\ \A k \in Nat : g[k + 1] = F[g[k]]
    BY <2>2, Recursion
  <2>4. QED
    BY <2>1, <2>3
<1>5. \A k \in Nat : g[k + 1] = Longer(g[k])
  BY <1>3, <1>4
<1> DEFINE G(f) == [k \in Nat |-> IF k = 0 THEN {<<Goal, 0>>} ELSE
                     UNION {{<<n, w[2] + Length[{w[1], n}]>> : n \in Neighbours(w[1])} :
                              w \in f[k - 1]}]
<1>6. g = G(g)
  <2>1. ASSUME NEW k \in Nat PROVE g[k] = G(g)[k]
    <3>1. CASE k = 0
      BY <1>4, <3>1
    <3>2. CASE k # 0
      <4>1. k - 1 \in Nat /\ (k - 1) + 1 = k
        BY <3>2
      <4>2. g[k] = Longer(g[k - 1])
        BY <1>5, <4>1
      <4>3. QED
        BY <3>2, <4>2 DEF Longer
    <3>3. QED
      BY <3>1, <3>2
  <2>2. QED
    BY <1>4, <2>1
<1>7. Arrivals = G(Arrivals)
  BY <1>6 DEF Arrivals
<1>8. Arrivals[0] = {<<Goal, 0>>}
  BY <1>7
<1>9. ASSUME NEW k \in Nat PROVE Arrivals[k + 1] = Longer(Arrivals[k])
  <2>1. k + 1 \in Nat /\ k + 1 # 0 /\ (k + 1) - 1 = k
    OBVIOUS
  <2>2. \A f : G(f)[k + 1] = Longer(f[k])
    BY <2>1 DEF Longer
  <2> HIDE DEF G
  <2>3. QED
    BY <1>7, <2>2
<1>10. ASSUME NEW k \in Nat PROVE Arrivals[k] \in D
  <2> DEFINE P == {i \in Nat : Arrivals[i] \in D}
  <2>1. 0 \in P
    BY <1>1, <1>8
  <2>2. ASSUME NEW i \in Nat, i \in P PROVE i + 1 \in P
    BY <1>2, <1>9, <2>2
  <2> HIDE DEF P
  <2>3. k \in P
    BY <2>1, <2>2, Induction
  <2>4. QED
    BY <2>3 DEF P
<1>11. QED
  BY <1>8, <1>9, <1>10 DEF D

-----------------------------------------------------------------------------
KnownNodes == {n \in Nodes : Known(n)}

(* What is closed was reached on a way of fewer roads than nodes are       *)
(* closed, and what is open on one of at most as many.                     *)
Reached ==
  /\ \A n \in KnownNodes : \E k \in Nat :
       k < Cardinality(KnownNodes) /\ <<n, closed[n]>> \in Arrivals[k]
  /\ \A e \in open : \E k \in Nat :
       k <= Cardinality(KnownNodes) /\ <<e.node, e.g>> \in Arrivals[k]

(* Every distance but that of the goal goes on from a closed node.         *)
Beyond(n, g) ==
  \E m \in KnownNodes : {m, n} \in Roads /\ g = closed[m] + Length[{m, n}]

GoesOn ==
  /\ \A n \in KnownNodes : n # Goal => Beyond(n, closed[n])
  /\ \A e \in open : e.node # Goal => Beyond(e.node, e.g)

(* No query has returned, so all that is closed has been expanded: from    *)
(* the goal and from each closed node the next nodes are closed or open,   *)
(* at no more than the length on this way.                                 *)
Within(n, g) ==
  \/ Known(n) /\ closed[n] <= g
  \/ \E f \in open : f.node = n /\ f.g <= g

Explored ==
  (\A n \in Nodes : answer[n] = NONE) =>
    /\ Within(Goal, 0)
    /\ \A m \in KnownNodes, n \in Nodes :
         {m, n} \in Roads => Within(n, closed[m] + Length[{m, n}])

OInv == IInv /\ Reached /\ GoesOn /\ Explored

LEMMA KnownFinite ==
  /\ IsFiniteSet(KnownNodes) /\ Cardinality(KnownNodes) \in Nat
  /\ Cardinality(Nodes) \in Nat /\ Cardinality(KnownNodes) <= Cardinality(Nodes)
<1>1. KnownNodes \in SUBSET Nodes /\ IsFiniteSet(Nodes)
  BY MapAssumption DEF KnownNodes
<1>2. QED
  BY <1>1, FS_Subset, FS_CardinalityType

(* A way goes on over one more road.                                       *)
LEMMA OneMoreRoad ==
  ASSUME NEW k \in Nat, NEW m \in Nodes, NEW g \in Nat, NEW n \in Nodes,
         <<m, g>> \in Arrivals[k], {m, n} \in Roads
  PROVE  <<n, g + Length[{m, n}]>> \in Arrivals[k + 1]
<1>1. n \in Neighbours(m)
  BY DEF Neighbours
<1>2. <<n, g + Length[{m, n}]>> \in Longer(Arrivals[k])
  <2>1. PICK w : w = <<m, g>>
    OBVIOUS
  <2>2. w \in Arrivals[k] /\ w[1] = m /\ w[2] = g
    BY <2>1
  <2> DEFINE OneFurther(u) == {<<x, u[2] + Length[{u[1], x}]>> : x \in Neighbours(u[1])}
  <2>3. <<n, g + Length[{m, n}]>> \in OneFurther(w)
    BY <1>1, <2>2
  <2>4. Longer(Arrivals[k]) = UNION {OneFurther(u) : u \in Arrivals[k]}
    BY DEF Longer
  <2> HIDE DEF OneFurther
  <2>5. QED
    BY <2>2, <2>3, <2>4
<1>3. QED
  BY <1>2, ArrivalsUnfold

LEMMA LastRoad ==
  ASSUME NEW k \in Nat, NEW n, NEW g, <<n, g>> \in Arrivals[k + 1]
  PROVE  \E m \in Nodes, v \in Nat :
           <<m, v>> \in Arrivals[k] /\ n \in Nodes /\ {m, n} \in Roads
           /\ g = v + Length[{m, n}] /\ Length[{m, n}] \in Nat
<1>1. <<n, g>> \in Longer(Arrivals[k])
  BY ArrivalsUnfold
<1>2. PICK w \in Arrivals[k] : \E x \in Neighbours(w[1]) :
        <<n, g>> = <<x, w[2] + Length[{w[1], x}]>>
  BY <1>1 DEF Longer
<1>3. PICK x \in Neighbours(w[1]) : <<n, g>> = <<x, w[2] + Length[{w[1], x}]>>
  BY <1>2
<1>4. w \in Nodes \X Nat /\ w = <<w[1], w[2]>>
  BY ArrivalsUnfold
<1>5. n = x /\ g = w[2] + Length[{w[1], n}]
  BY <1>3
<1>6. n \in Nodes /\ {w[1], n} \in Roads
  BY <1>5 DEF Neighbours
<1>7. Length[{w[1], n}] \in Nat
  BY <1>6, MapAssumption
<1>8. QED
  BY <1>4, <1>5, <1>6, <1>7

(* As long as no query has returned, no way is shorter than what is closed *)
(* at its end or than what is open.                                        *)
LEMMA NoShorterWay ==
  ASSUME IInv, Explored, \A n \in Nodes : answer[n] = NONE,
         NEW k \in Nat
  PROVE  \A n \in Nodes, g \in Nat : <<n, g>> \in Arrivals[k] =>
           (Known(n) /\ closed[n] <= g) \/ \E f \in open : f.g <= g
<1> DEFINE Ahead(n, g) == (Known(n) /\ closed[n] <= g) \/ \E f \in open : f.g <= g
           P == {i \in Nat : \A n \in Nodes, g \in Nat :
                               <<n, g>> \in Arrivals[i] => Ahead(n, g)}
<1>1. 0 \in P
  <2>1. ASSUME NEW n \in Nodes, NEW g \in Nat, <<n, g>> \in Arrivals[0]
        PROVE  Ahead(n, g)
    <3>1. n = Goal /\ g = 0
      BY <2>1, ArrivalsUnfold
    <3>2. QED
      BY <3>1 DEF Explored, Within
  <2>2. QED
    BY <2>1
<1>2. ASSUME NEW i \in Nat, i \in P PROVE i + 1 \in P
  <2>1. ASSUME NEW n \in Nodes, NEW g \in Nat, <<n, g>> \in Arrivals[i + 1]
        PROVE  Ahead(n, g)
    <3>1. PICK m \in Nodes, v \in Nat :
            <<m, v>> \in Arrivals[i] /\ {m, n} \in Roads
            /\ g = v + Length[{m, n}] /\ Length[{m, n}] \in Nat
      BY <2>1, LastRoad
    <3>2. Ahead(m, v)
      BY <1>2, <3>1
    <3>3. CASE \E f \in open : f.g <= v
      BY <3>1, <3>3 DEF IInv, TypeOK
    <3>4. CASE Known(m) /\ closed[m] <= v
      <4>1. closed[m] \in Nat /\ m \in KnownNodes
        BY <3>4 DEF KnownNodes, Known, IInv, TypeOK
      <4>2. Within(n, closed[m] + Length[{m, n}])
        BY <3>1, <4>1 DEF Explored
      <4>3. closed[m] + Length[{m, n}] <= g
        BY <3>1, <3>4, <4>1
      <4> DEFINE d == closed[m] + Length[{m, n}]
      <4>4. d \in Nat /\ d <= g /\ Within(n, d)
        BY <3>1, <4>1, <4>2, <4>3
      <4> HIDE DEF d
      <4>5. CASE Known(n) /\ closed[n] <= d
        <5>1. closed[n] \in Nat
          BY <4>5 DEF Known, IInv, TypeOK
        <5>2. QED
          BY <4>4, <4>5, <5>1
      <4>6. CASE \E f \in open : f.node = n /\ f.g <= d
        BY <4>4, <4>6 DEF IInv, TypeOK
      <4>7. QED
        BY <4>4, <4>5, <4>6 DEF Within
    <3>5. QED
      BY <3>2, <3>3, <3>4
  <2>2. QED
    BY <2>1
<1> HIDE DEF P
<1>3. k \in P
  BY <1>1, <1>2, Induction
<1>4. QED
  BY <1>3 DEF P

LEMMA InitOInv == Init => OInv
<1> SUFFICES ASSUME Init PROVE OInv
  OBVIOUS
<1>1. KnownNodes = {}
  BY DEF Init, KnownNodes, Known
<1>2. open = {[node |-> Goal, g |-> 0]}
  BY DEF Init
<1>3. Reached
  BY <1>1, <1>2, ArrivalsUnfold, FS_EmptySet DEF Reached
<1>4. GoesOn
  BY <1>1, <1>2 DEF GoesOn
<1>5. Explored
  BY <1>1, <1>2 DEF Explored, Within
<1>6. QED
  BY <1>3, <1>4, <1>5, InitIInv DEF OInv

(* Steps that close nothing and take nothing off the heap but what was     *)
(* closed before.                                                          *)
LEMMA NothingClosed ==
  ASSUME OInv, IInv', closed' = closed, open' \subseteq open,
         \A e \in open \ open' : Known(e.node),
         \A n \in Nodes : answer'[n] = NONE => answer[n] = NONE
  PROVE  OInv'
<1>1. KnownNodes' = KnownNodes /\ \A n \in Nodes : Known(n)' <=> Known(n)
  BY DEF KnownNodes, Known
<1>2. Reached'
  BY <1>1 DEF OInv, Reached, KnownNodes
<1>3. GoesOn'
  BY <1>1 DEF OInv, GoesOn, Beyond
<1>4. ASSUME NEW n \in Nodes, NEW g \in Nat, Within(n, g) PROVE Within(n, g)'
  <2>1. CASE Known(n) /\ closed[n] <= g
    BY <1>1, <2>1 DEF Within
  <2>2. CASE \E f \in open : f.node = n /\ f.g <= g
    <3>1. PICK f \in open : f.node = n /\ f.g <= g
      BY <2>2
    <3>2. CASE f \in open'
      BY <3>1, <3>2 DEF Within
    <3>3. CASE f \notin open'
      <4>1. Known(n) /\ closed[n] \in Nat /\ f.g \in Nat
        BY <3>1, <3>3 DEF Known, OInv, IInv, TypeOK
      <4>2. closed[n] <= f.g
        BY <3>1, <4>1 DEF OInv, IInv, FrontierBeyondClosed
      <4>3. QED
        BY <1>1, <3>1, <4>1, <4>2 DEF Within
    <3>4. QED
      BY <3>2, <3>3
  <2>3. QED
    BY <1>4, <2>1, <2>2 DEF Within
<1>5. Explored'
  <2> SUFFICES ASSUME \A n \in Nodes : answer'[n] = NONE
               PROVE  /\ Within(Goal, 0)'
                      /\ \A m \in KnownNodes', n \in Nodes :
                           {m, n} \in Roads => Within(n, closed[m] + Length[{m, n}])'
    BY DEF Explored
  <2>1. /\ Within(Goal, 0)
        /\ \A m \in KnownNodes, n \in Nodes :
             {m, n} \in Roads => Within(n, closed[m] + Length[{m, n}])
    BY DEF OInv, Explored
  <2>2. Within(Goal, 0)'
    BY <1>4, <2>1, MapAssumption
  <2>3. ASSUME NEW m \in KnownNodes', NEW n \in Nodes, {m, n} \in Roads
        PROVE  Within(n, closed[m] + Length[{m, n}])'
    <3>1. m \in KnownNodes /\ closed[m] \in Nat /\ Length[{m, n}] \in Nat
      BY <1>1, <2>3, MapAssumption DEF KnownNodes, Known, OInv, IInv, TypeOK
    <3> DEFINE d == closed[m] + Length[{m, n}]
    <3>2. d \in Nat /\ d' = d /\ Within(n, d)
      BY <2>1, <2>3, <3>1
    <3> HIDE DEF d
    <3>3. Within(n, d)'
      BY <1>4, <3>2
    <3>4. QED
      BY <3>3 DEF d
  <2>4. QED
    BY <2>2, <2>3
<1>6. QED
  BY <1>2, <1>3, <1>5 DEF OInv

(* The nearest open node is closed, and perhaps expanded.                  *)
LEMMA OneIsClosed ==
  ASSUME OInv, NEW e \in open, Pop(e), ~Known(e.node),
         NEW new \in SUBSET Expansion(e),
         closed' = [closed EXCEPT ![e.node] = e.g],
         open' = (open \ {e}) \cup new
  PROVE  /\ KnownNodes' = KnownNodes \cup {e.node}
         /\ \A n \in KnownNodes : closed'[n] = closed[n]
         /\ closed'[e.node] = e.g
         /\ Reached' /\ GoesOn'
<1>1. e.node \in Nodes /\ e.g \in Nat /\ e.node \notin KnownNodes
  BY DEF OInv, IInv, TypeOK, KnownNodes
<1>2. \A n \in Nodes : closed'[n] = IF n = e.node THEN e.g ELSE closed[n]
  BY DEF OInv, IInv, TypeOK
<1>3. KnownNodes' = KnownNodes \cup {e.node}
  BY <1>1, <1>2, MapAssumption DEF KnownNodes, Known
<1>4. \A n \in KnownNodes : closed'[n] = closed[n] /\ n \in Nodes
  BY <1>1, <1>2 DEF KnownNodes
<1>5. Cardinality(KnownNodes') = Cardinality(KnownNodes) + 1
  BY <1>1, <1>3, KnownFinite, FS_AddElement
<1>6. ASSUME NEW x \in new
      PROVE  /\ x.node \in Nodes /\ {e.node, x.node} \in Roads
             /\ x.g = e.g + Length[{e.node, x.node}]
  <2>1. PICK n \in Neighbours(e.node) :
          x = [node |-> n, g |-> e.g + Length[{e.node, n}]]
    BY DEF Expansion
  <2>2. QED
    BY <2>1 DEF Neighbours
<1> DEFINE c == Cardinality(KnownNodes)
<1>7. c \in Nat /\ Cardinality(KnownNodes') = c + 1
  BY <1>5, KnownFinite
<1> HIDE DEF c
<1>8. PICK k \in Nat : k <= c /\ <<e.node, e.g>> \in Arrivals[k]
  BY DEF OInv, Reached, c
<1>9. Reached'
  <2>1. ASSUME NEW n \in KnownNodes'
        PROVE  \E i \in Nat : i < c + 1 /\ <<n, closed'[n]>> \in Arrivals[i]
    <3>1. CASE n = e.node
      BY <1>1, <1>2, <1>7, <1>8, <3>1
    <3>2. CASE n \in KnownNodes
      BY <1>4, <1>7, <3>2 DEF OInv, Reached, c
    <3>3. QED
      BY <1>3, <3>1, <3>2
  <2>2. ASSUME NEW f \in open'
        PROVE  \E i \in Nat : i <= c + 1 /\ <<f.node, f.g>> \in Arrivals[i]
    <3>1. CASE f \in open
      BY <1>7, <3>1 DEF OInv, Reached, c
    <3>2. CASE f \in new
      <4>1. <<f.node, f.g>> \in Arrivals[k + 1]
        BY <1>1, <1>6, <1>8, <3>2, OneMoreRoad
      <4>2. QED
        BY <1>7, <1>8, <4>1
    <3>3. QED
      BY <3>1, <3>2
  <2>3. QED
    BY <1>7, <2>1, <2>2 DEF Reached
<1>10. ASSUME NEW n \in Nodes, NEW g, Beyond(n, g) PROVE Beyond(n, g)'
  <2>1. PICK m \in KnownNodes : {m, n} \in Roads /\ g = closed[m] + Length[{m, n}]
    BY <1>10 DEF Beyond
  <2>2. m \in KnownNodes' /\ closed'[m] = closed[m]
    BY <1>3, <1>4
  <2>3. QED
    BY <2>1, <2>2 DEF Beyond
<1>11. GoesOn'
  <2>1. ASSUME NEW n \in KnownNodes', n # Goal PROVE Beyond(n, closed[n])'
    <3>1. PICK g : g = closed'[n] /\ (n # e.node => g = closed[n]) /\ (n = e.node => g = e.g)
      BY <1>1, <1>2, <1>3, <1>4
    <3>2. Beyond(n, g) /\ n \in Nodes
      BY <1>1, <1>3, <1>4, <2>1, <3>1 DEF OInv, GoesOn
    <3>3. Beyond(n, g)'
      BY <1>10, <3>2
    <3>4. QED
      BY <3>1, <3>3
  <2>2. ASSUME NEW f \in open', f.node # Goal PROVE Beyond(f.node, f.g)'
    <3>1. CASE f \in open
      <4>1. Beyond(f.node, f.g) /\ f.node \in Nodes
        BY <2>2, <3>1 DEF OInv, GoesOn, IInv, TypeOK
      <4>2. QED
        BY <1>10, <4>1
    <3>2. CASE f \in new
      BY <1>1, <1>2, <1>3, <1>6, <3>2 DEF Beyond
    <3>3. QED
      BY <3>1, <3>2
  <2>3. QED
    BY <2>1, <2>2 DEF GoesOn
<1>12. QED
  BY <1>1, <1>2, <1>3, <1>4, <1>9, <1>11

LEMMA ExpandExplores ==
  ASSUME OInv, Expand PROVE OInv'
<1>1. PICK e \in open : /\ Pop(e) /\ ~Known(e.node) /\ e.node # want
                        /\ closed' = [closed EXCEPT ![e.node] = e.g]
                        /\ open' = (open \ {e}) \cup Expansion(e)
                        /\ UNCHANGED <<want, answer>>
  BY DEF Expand
<1>2. IInv'
  BY ExpandKeeps DEF OInv
<1>3. /\ KnownNodes' = KnownNodes \cup {e.node}
      /\ \A n \in KnownNodes : closed'[n] = closed[n]
      /\ closed'[e.node] = e.g
      /\ Reached' /\ GoesOn'
  BY <1>1, OneIsClosed
<1>4. e \in [node : Nodes, g : Nat]
  BY DEF OInv, IInv, TypeOK
<1>5. \A n \in Nodes : (Known(n) <=> n \in KnownNodes) /\ (Known(n)' <=> n \in KnownNodes')
  BY DEF KnownNodes, Known
<1>6. ASSUME NEW n \in Nodes, NEW g \in Nat, Within(n, g) PROVE Within(n, g)'
  <2>1. CASE Known(n) /\ closed[n] <= g
    BY <1>3, <1>5, <2>1 DEF Within
  <2>2. CASE \E f \in open : f.node = n /\ f.g <= g
    <3>1. PICK f \in open : f.node = n /\ f.g <= g
      BY <2>2
    <3>2. CASE f \in open'
      BY <3>1, <3>2 DEF Within
    <3>3. CASE f \notin open'
      <4>1. f = e
        BY <1>1, <3>3
      <4>2. n \in KnownNodes' /\ closed'[n] <= g
        BY <1>3, <3>1, <4>1
      <4>3. QED
        BY <1>5, <4>2 DEF Within
    <3>4. QED
      BY <3>2, <3>3
  <2>3. QED
    BY <1>6, <2>1, <2>2 DEF Within
<1>7. Explored'
  <2> SUFFICES ASSUME \A n \in Nodes : answer[n] = NONE
               PROVE  /\ Within(Goal, 0)'
                      /\ \A m \in KnownNodes', n \in Nodes :
                           {m, n} \in Roads => Within(n, closed[m] + Length[{m, n}])'
    BY <1>1 DEF Explored
  <2>1. /\ Within(Goal, 0)
        /\ \A m \in KnownNodes, n \in Nodes :
             {m, n} \in Roads => Within(n, closed[m] + Length[{m, n}])
    BY DEF OInv, Explored
  <2>2. Within(Goal, 0)'
    BY <1>6, <2>1, MapAssumption
  <2>3. ASSUME NEW m \in KnownNodes', NEW n \in Nodes, {m, n} \in Roads
        PROVE  Within(n, closed[m] + Length[{m, n}])'
    <3>1. PICK d \in Nat : d = closed'[m] + Length[{m, n}]
      <4>1. closed'[m] \in Nat /\ Length[{m, n}] \in Nat
        BY <1>2, <2>3, MapAssumption DEF KnownNodes, Known, IInv, TypeOK
      <4>2. QED
        BY <4>1
    <3>2. CASE m \in KnownNodes
      <4>1. Within(n, d)
        BY <1>3, <2>1, <2>3, <3>1, <3>2
      <4>2. Within(n, d)'
        BY <1>6, <4>1
      <4>3. QED
        BY <3>1, <4>2
    <3>3. CASE m = e.node
      <4>1. CASE Known(n)
        <5>1. closed[n] <= e.g /\ closed[n] \in Nat
          BY <4>1 DEF OInv, IInv, FrontierBeyondClosed, TypeOK, Known
        <5>2. closed[n] <= d
          BY <1>3, <1>4, <2>3, <3>1, <3>3, <5>1, MapAssumption
        <5>3. Within(n, d)
          BY <4>1, <5>2 DEF Within
        <5>4. Within(n, d)'
          BY <1>6, <5>3
        <5>5. QED
          BY <3>1, <5>4
      <4>2. CASE ~Known(n)
        <5>1. n \in {x \in Neighbours(e.node) : ~Known(x)}
          BY <2>3, <3>3, <4>2 DEF Neighbours
        <5>2. [node |-> n, g |-> e.g + Length[{e.node, n}]] \in open'
          BY <1>1, <5>1 DEF Expansion
        <5>3. d = e.g + Length[{e.node, n}]
          BY <1>3, <3>1, <3>3
        <5>4. \E f \in open' : f.node = n /\ f.g <= d
          BY <5>2, <5>3
        <5>5. QED
          BY <3>1, <5>4 DEF Within
      <4>3. QED
        BY <4>1, <4>2
    <3>4. QED
      BY <1>3, <3>2, <3>3
  <2>4. QED
    BY <2>2, <2>3
<1>8. QED
  BY <1>2, <1>3, <1>7 DEF OInv

LEMMA OInvStep == ASSUME OInv, [Next]_vars PROVE OInv'
<1>0. IInv' /\ \A m \in Nodes : answer[m] # NONE => answer'[m] = answer[m]
  BY StepKeeps DEF OInv
<1>1. \A n \in Nodes : answer'[n] = NONE => answer[n] = NONE
  BY <1>0
<1>2. CASE UNCHANGED vars \/ (\E n \in Nodes : Hit(n) \/ Ask(n)) \/ GiveUp
  <2>1. closed' = closed /\ open' = open
    BY <1>2 DEF vars, Hit, Ask, GiveUp
  <2>2. QED
    BY <1>0, <1>1, <2>1, NothingClosed
<1>3. CASE Skip
  <2>1. PICK e \in open : Known(e.node) /\ open' = open \ {e} /\ closed' = closed
    BY <1>3 DEF Skip
  <2>2. QED
    BY <1>0, <1>1, <2>1, NothingClosed
<1>4. CASE Find
  <2>1. PICK e \in open : /\ Pop(e) /\ ~Known(e.node) /\ e.node = want
                          /\ closed' = [closed EXCEPT ![e.node] = e.g]
                          /\ open' = open \ {e}
                          /\ answer' = [answer EXCEPT ![want] = e.g]
    BY <1>4 DEF Find
  <2>2. {} \in SUBSET Expansion(e) /\ open' = (open \ {e}) \cup {}
    BY <2>1
  <2>3. Reached' /\ GoesOn'
    BY <2>1, <2>2, OneIsClosed
  <2>4. e.node \in Nodes /\ answer'[e.node] \in Nat
    BY <2>1 DEF OInv, IInv, TypeOK
  <2>5. Explored'
    BY <2>4, MapAssumption DEF Explored
  <2>6. QED
    BY <1>0, <2>3, <2>5 DEF OInv
<1>5. CASE Expand
  BY <1>5, ExpandExplores
<1>6. QED
  BY <1>2, <1>3, <1>4, <1>5 DEF Next

LEMMA AlwaysOInv == Spec => []OInv
BY InitOInv, OInvStep, PTL DEF Spec

(* The reference: where there is a way it is the length of one, and no way *)
(* of fewer roads than there are nodes is shorter.                         *)
LEMMA ShortestIsLeast ==
  ASSUME NEW n \in Nodes, NEW k \in Nat, k < Cardinality(Nodes), NEW g,
         <<n, g>> \in Arrivals[k]
  PROVE  /\ Shortest[n] \in Nat /\ Shortest[n] <= g
         /\ \E i \in Nat : <<n, Shortest[n]>> \in Arrivals[i]
<1> DEFINE ways == UNION {Arrivals[i] : i \in 0 .. Cardinality(Nodes) - 1}
           lengths == {w[2] : w \in {w \in ways : w[1] = n}}
<1>1. Cardinality(Nodes) \in Nat
  BY KnownFinite
<1>2. \A w \in ways : w \in Nodes \X Nat /\ \E i \in Nat : w \in Arrivals[i]
  BY <1>1, ArrivalsUnfold
<1>3. k \in 0 .. Cardinality(Nodes) - 1
  BY <1>1
<1>4. <<n, g>> \in ways
  BY <1>3
<1> HIDE DEF ways
<1>5. \A l \in lengths : l \in Nat /\ \E i \in Nat : <<n, l>> \in Arrivals[i]
  <2> SUFFICES ASSUME NEW w \in ways, w[1] = n
               PROVE  w[2] \in Nat /\ \E i \in Nat : <<n, w[2]>> \in Arrivals[i]
    OBVIOUS
  <2>1. w = <<w[1], w[2]>> /\ w[2] \in Nat
    BY <1>2
  <2>2. QED
    BY <1>2, <2>1
<1>6. g \in lengths
  <2>1. PICK w : w = <<n, g>>
    OBVIOUS
  <2>2. w \in ways /\ w[1] = n /\ w[2] = g
    BY <1>4, <2>1
  <2>3. QED
    BY <2>2
<1>7. Shortest[n] = IF lengths = {} THEN Far ELSE Min(lengths)
  BY DEF Shortest, ways
<1> HIDE DEF lengths
<1>8. Shortest[n] = CHOOSE x \in lengths : \A y \in lengths : x <= y
  BY <1>6, <1>7 DEF Min
<1>9. \E x \in lengths : \A y \in lengths : x <= y
  BY <1>5, <1>6, LeastNumber
<1>10. Shortest[n] \in lengths /\ \A y \in lengths : Shortest[n] <= y
  BY <1>8, <1>9
<1>11. QED
  BY <1>5, <1>6, <1>10

LEMMA OInvNeverTooShort == ASSUME OInv PROVE NeverTooShort
<1>1. ASSUME NEW n \in Nodes, Known(n)
      PROVE  Shortest[n] # Far /\ closed[n] >= Shortest[n]
  <2>1. PICK k \in Nat : k < Cardinality(KnownNodes) /\ <<n, closed[n]>> \in Arrivals[k]
    BY <1>1 DEF OInv, Reached, KnownNodes
  <2>2. k < Cardinality(Nodes)
    BY <2>1, KnownFinite
  <2>3. Shortest[n] \in Nat /\ Shortest[n] <= closed[n]
    BY <2>1, <2>2, ShortestIsLeast
  <2>4. closed[n] \in Nat
    BY <1>1 DEF OInv, IInv, TypeOK, Known
  <2>5. QED
    BY <2>3, <2>4, MapAssumption
<1>2. QED
  BY <1>1 DEF NeverTooShort

LEMMA OInvFirstQueryExact == ASSUME OInv PROVE FirstQueryExact
<1>1. ASSUME \A n \in Nodes : answer[n] = NONE, NEW n \in Nodes, Known(n)
      PROVE  closed[n] = Shortest[n]
  <2>1. PICK k \in Nat : k < Cardinality(KnownNodes) /\ <<n, closed[n]>> \in Arrivals[k]
    BY <1>1 DEF OInv, Reached, KnownNodes
  <2>2. k < Cardinality(Nodes)
    BY <2>1, KnownFinite
  <2>3. /\ Shortest[n] \in Nat /\ Shortest[n] <= closed[n]
        /\ \E i \in Nat : <<n, Shortest[n]>> \in Arrivals[i]
    BY <2>1, <2>2, ShortestIsLeast
  <2>4. closed[n] \in Nat
    BY <1>1 DEF OInv, IInv, TypeOK, Known
  <2>5. closed[n] <= Shortest[n]
    <3>1. closed[n] <= Shortest[n] \/ \E f \in open : f.g <= Shortest[n]
      BY <1>1, <2>3, NoShorterWay DEF OInv
    <3>2. ASSUME NEW f \in open, f.g <= Shortest[n] PROVE closed[n] <= Shortest[n]
      <4>1. closed[n] <= f.g /\ f.g \in Nat
        BY <1>1 DEF OInv, IInv, FrontierBeyondClosed, TypeOK
      <4>2. QED
        BY <2>3, <2>4, <3>2, <4>1
    <3>3. QED
      BY <3>1, <3>2
  <2>6. QED
    BY <2>3, <2>4, <2>5
<1>2. QED
  BY <1>1 DEF FirstQueryExact

(* No distance promises a way that is not there.                           *)
THEOREM NoDistanceTooShort == Spec => []NeverTooShort
BY OInvNeverTooShort, AlwaysOInv, PTL

(* The first query is exact.                                               *)
THEOREM FirstQueryIsExact == Spec => []FirstQueryExact
BY OInvFirstQueryExact, AlwaysOInv, PTL

=============================================================================
