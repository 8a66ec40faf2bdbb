---------------------------- MODULE BlockSections ----------------------------
(***************************************************************************)
(* What the edge interlock promises, as a railway would put it: the track  *)
(* is cut into sections and a section is entered only while nobody rides   *)
(* it.  An AGV rides at most one section at a time.                        *)
(***************************************************************************)
CONSTANTS Agvs, Sections, NONE

VARIABLE riding   \* the section each AGV rides, or NONE

Init == riding = [a \in Agvs |-> NONE]

Enter(a, s) ==
  /\ riding[a] = NONE
  /\ \A b \in Agvs : riding[b] # s
  /\ riding' = [riding EXCEPT ![a] = s]

Leave(a) ==
  /\ riding[a] # NONE
  /\ riding' = [riding EXCEPT ![a] = NONE]

Next == \E a \in Agvs : Leave(a) \/ \E s \in Sections : Enter(a, s)

Spec == Init /\ [][Next]_riding

=============================================================================
