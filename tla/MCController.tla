---------------------------- MODULE MCController ----------------------------
(***************************************************************************)
(* Controller in units of 1/20 s: three links of 4 m and of 5.66 m, with   *)
(* and without a wait of 1 s between them.                                 *)
(***************************************************************************)
EXTENDS Controller

Step(arr, dep) == [arr |-> arr, dep |-> dep]

ThreeLinks ==
  {<<Step(0, 0), Step(20, 20), Step(40, 40), Step(60, 60)>>,
   <<Step(0, 0), Step(20, 40), Step(68, 68)>>}

=============================================================================
