-------------------------------- MODULE Robot --------------------------------
(***************************************************************************)
(* What the server may take a robot for, whatever its clock, its time      *)
(* table and the way ahead are: it rides one link of its route at a time,  *)
(* posts one letter at the end of each, and does not leave before that     *)
(* letter was read.  A new route makes it stand and drops its letter.      *)
(***************************************************************************)
EXTENDS Naturals

VARIABLES
  left,    \* links of the route that are not yet ridden to their end
  moving,
  unread   \* letters

vars == <<left, moving, unread>>

Init == left = 0 /\ moving = FALSE /\ unread = 0

Follow == left' \in Nat /\ moving' = FALSE /\ unread' = 0

Read == unread' = 0 /\ UNCHANGED <<left, moving>>

Depart ==
  /\ ~moving /\ left > 0 /\ unread = 0
  /\ moving' = TRUE
  /\ UNCHANGED <<left, unread>>

Arrive ==
  /\ moving
  /\ left' = left - 1 /\ moving' = FALSE /\ unread' = unread + 1

Next == Follow \/ Read \/ Depart \/ Arrive

Spec == Init /\ [][Next]_vars

=============================================================================
