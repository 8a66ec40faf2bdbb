----------------------------- MODULE Kinematics -----------------------------
(***************************************************************************)
(* The time tables that PathFinder::FindPath can build on a map before it  *)
(* looks at the ledger: the AGV visits no node twice, drives every link in *)
(* its travel time and waits on a node in whole steps of WAIT_TIME, as     *)
(* long as the window is not over.  Every table starts at time 0.          *)
(***************************************************************************)
EXTENDS Integers, Sequences

(* links: pairs of neighbours; travel: the travel time of each; wait:      *)
(* WAIT_TIME; window: WINDOW_TIME.                                         *)
Stays(n, arr, wait, window) ==
  {[node |-> n, arr |-> arr, dep |-> arr + k * wait] :
     k \in {k \in 0..window : k = 0 \/ arr + (k - 1) * wait < window}}

Onward(p, nodes, links) ==
  {m \in nodes : {p[Len(p)].node, m} \in links /\ \A i \in 1..Len(p) : p[i].node # m}

(* One link further, from where the window still allows it.                *)
Longer(P, nodes, links, travel, wait, window) ==
  UNION {UNION {{Append(p, s) : s \in Stays(m, p[Len(p)].dep + travel[{p[Len(p)].node, m}],
                                            wait, window)}
                  : m \in Onward(p, nodes, links)}
           : p \in {p \in P : p[Len(p)].dep < window}}

(* The tables along k links.                                               *)
Along(nodes, links, travel, wait, window) ==
  LET tables[k \in Nat] ==
        IF k = 0 THEN {<<s>> : s \in UNION {Stays(n, 0, wait, window) : n \in nodes}}
        ELSE Longer(tables[k - 1], nodes, links, travel, wait, window)
  IN  tables

TimeTables(nodes, links, travel, wait, window) ==
  UNION {Along(nodes, links, travel, wait, window)[k] : k \in 1..window}

=============================================================================
