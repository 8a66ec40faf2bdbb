------------------------------ MODULE MCTraffic ------------------------------
(***************************************************************************)
(* Traffic on small maps: Links is the set of pairs of neighbours, and the *)
(* planner may issue every walk along links that visits no node twice, up  *)
(* to MaxWalk nodes.                                                       *)
(***************************************************************************)
EXTENDS Traffic, TLC

CONSTANTS n1, n2, n3, a1, a2, MaxWalk

Line == {{n1, n2}, {n2, n3}}

WalksOver(links) ==
  {w \in UNION {[1..k -> UNION links] : k \in 2..MaxWalk} :
     /\ \A i \in 1..(Len(w) - 1) : {w[i], w[i + 1]} \in links
     /\ \A i, j \in 1..Len(w) : i # j => w[i] # w[j]}

LineWalks == WalksOver(Line)

HomeOfTwo == (a1 :> n1) @@ (a2 :> n3)

(* The line is the same from both ends, and so are the two homes.          *)
Mirror ==
  {(n1 :> n3) @@ (n2 :> n2) @@ (n3 :> n1) @@ (a1 :> a2) @@ (a2 :> a1)}

=============================================================================
