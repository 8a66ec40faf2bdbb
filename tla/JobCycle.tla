------------------------------ MODULE JobCycle ------------------------------
(***************************************************************************)
(* What a dispatcher promises: an AGV fetches a load only while it is      *)
(* empty, delivers only while it is laden, and gets rid of the load only   *)
(* by delivering it.  A laden AGV for which there is no place to deliver   *)
(* to leaves the cycle, and nothing more is promised for it.               *)
(***************************************************************************)
CONSTANT Agvs

VARIABLE job   \* what each AGV is about

Init == job = [a \in Agvs |-> "empty"]

After ==
  [empty |-> {"fetching"}, fetching |-> {"laden"},
   laden |-> {"delivering", "stranded"}, delivering |-> {"empty"},
   stranded |-> {}]

(* Several AGVs may come a step further at once.                           *)
Next ==
  /\ job' \in [Agvs -> DOMAIN After]
  /\ \A a \in Agvs : job'[a] \in {job[a]} \cup After[job[a]]

Spec == Init /\ [][Next]_job

=============================================================================
