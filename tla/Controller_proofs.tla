-------------------------- MODULE Controller_proofs --------------------------
(***************************************************************************)
(* Proofs about Controller, for all time tables that never go back in      *)
(* time, all lengths of a frame and all answers of the clearance.          *)
(*                                                                         *)
(* The promises are not inductive: what the next link may do depends on    *)
(* how long ago the last one ended and how much of that is in m_OverTime.  *)
(* IInv says it for a robot that rides and for one that stands.            *)
(***************************************************************************)
EXTENDS Controller, TLAPS

(* The cached links follow one another in time.                            *)
LinksInOrder ==
  /\ \A i \in 1..Len(links) : links[i].arr >= links[i].dep + MaxFrame
  /\ \A i \in 1..Len(links) - 1 : links[i + 1].dep >= links[i].arr

(* At most the letter of the last arrival is in the box, until it is read. *)
Mail ==
  /\ phase = "server" => letters = <<>>
  /\ letters # <<>> =>
       ~moving /\ index > 1 /\ letters = <<index - 1>> /\ serverTime >= exact

Arrived == index > 1 => exact >= links[index - 1].arr

(* A ride ends in the first frame that is late enough.                     *)
Riding ==
  moving =>
    /\ HasLink
    /\ start >= Link.dep
    /\ index > 1 => start >= exact
    /\ serverTime < start + Duration(Link) + (IF phase = "server" THEN MaxFrame ELSE 0)

(* m_OverTime does not reach back behind the last arrival.                 *)
Standing == ~moving /\ HasLink /\ index > 1 => serverTime - overTime >= exact

(* A robot that stands and was never refused waits for its departure, or   *)
(* has just arrived.                                                       *)
Punctual ==
  ~held =>
    /\ moving => start <= Link.dep + index * MaxFrame
    /\ ~moving /\ HasLink =>
         LET frame == IF phase = "server" THEN MaxFrame ELSE 0 IN
         \/ serverTime <= Link.dep + frame
         \/ index > 1 /\ serverTime <= exact + overTime + frame

IInv ==
  /\ TypeOK /\ LinksInOrder /\ Mail /\ Arrived
  /\ Riding /\ Standing /\ Punctual /\ LateByFrames

-----------------------------------------------------------------------------
LEMMA InitIInv == Init => IInv
<1> SUFFICES ASSUME Init PROVE IInv
  OBVIOUS
<1> USE DEF Init
<1>1. TypeOK
  <2>1. /\ links \in Seq(Links) /\ Len(links) = 0
        /\ letters \in Seq(1..Len(links))
    OBVIOUS
  <2>2. index \in 1..Len(links) + 1 /\ overTime \in 0..MaxFrame - 1
    BY <2>1, TablesAssumption
  <2>3. serverTime \in Nat /\ start \in Int /\ exact \in Int
    OBVIOUS
  <2> QED  BY <2>1, <2>2, <2>3, Zenon DEF TypeOK
<1>2. LinksInOrder /\ Mail /\ Arrived
  BY DEF LinksInOrder, Mail, Arrived
<1>3. Riding /\ Standing /\ Punctual /\ LateByFrames
  BY DEF Riding, Standing, Punctual, LateByFrames, HasLink
<1> QED  BY <1>1, <1>2, <1>3 DEF IInv

(* Two facts about numbers, on their own because the provers are slow to   *)
(* see them in terms of tables and links.                                  *)
LEMMA Overrun ==
  \A end \in Int, now \in Int, frame \in Nat :
    now >= end /\ now < end + frame => now - end \in 0..frame - 1
OBVIOUS

LEMMA Shifted ==
  \A begin \in Nat, dep \in Nat, arr \in Nat, frame \in Nat :
    arr >= dep + frame => begin + arr >= (begin + dep) + frame /\ begin + dep >= begin
OBVIOUS

(* What the links of a new table look like.                                *)
LEMMA LinksOfTable ==
  ASSUME NEW table \in Tables, NEW begin \in Nat
  PROVE  LET new == LinksOf(table, begin) IN
         /\ new \in Seq(Links)
         /\ Len(new) = Len(table) - 1
         /\ \A i \in 1..Len(new) :
              new[i].arr >= new[i].dep + MaxFrame /\ new[i].dep >= begin
         /\ \A i \in 1..Len(new) - 1 : new[i + 1].dep >= new[i].arr
<1> DEFINE new == LinksOf(table, begin)
<1>1. table \in Seq(Steps) /\ Len(table) \in Nat \ {0}
  BY TablesAssumption
<1>2. \A i \in 1..Len(table) : table[i] \in Steps
  BY <1>1
<1>3. /\ \A i \in 1..Len(table) : table[i].dep >= table[i].arr
      /\ \A i \in 1..Len(table) - 1 : table[i + 1].arr >= table[i].dep + MaxFrame
  BY TablesAssumption
<1>4. \A i \in 1..Len(table) - 1 :
        /\ new[i] = [dep |-> begin + table[i].dep, arr |-> begin + table[i + 1].arr]
        /\ new[i] \in Links
  <2> TAKE i \in 1..Len(table) - 1
  <2>1. table[i].dep \in Nat /\ table[i + 1].arr \in Nat
    <3>1. i \in 1..Len(table) /\ i + 1 \in 1..Len(table)
      BY <1>1
    <3> QED  BY <1>2, <3>1 DEF Steps
  <2>2. new[i] = [dep |-> begin + table[i].dep, arr |-> begin + table[i + 1].arr]
    BY DEF LinksOf
  <2> HIDE DEF new
  <2> QED  BY <2>1, <2>2 DEF Links
<1>5. new \in Seq(Links) /\ Len(new) = Len(table) - 1
  BY <1>1, <1>4 DEF LinksOf
<1> HIDE DEF new
<1>6. ASSUME NEW i \in 1..Len(new)
      PROVE  new[i].arr >= new[i].dep + MaxFrame /\ new[i].dep >= begin
  <2>0. i \in 1..Len(table) - 1 /\ i \in 1..Len(table) /\ i + 1 \in 1..Len(table)
    BY <1>1, <1>5
  <2>1. table[i + 1].arr >= table[i].dep + MaxFrame
    BY <1>3, <2>0
  <2>2. table[i].dep \in Nat /\ table[i + 1].arr \in Nat
    BY <1>2, <2>0 DEF Steps
  <2>3. new[i].dep = begin + table[i].dep /\ new[i].arr = begin + table[i + 1].arr
    <3>1. new[i] = [dep |-> begin + table[i].dep, arr |-> begin + table[i + 1].arr]
      BY <1>4, <2>0
    <3> QED  BY <3>1
  <2>4. MaxFrame \in Nat
    BY TablesAssumption
  <2>5. /\ begin + table[i + 1].arr >= (begin + table[i].dep) + MaxFrame
        /\ begin + table[i].dep >= begin
    BY <2>1, <2>2, <2>4, Shifted
  <2> QED  BY <2>3, <2>5
<1>7. ASSUME NEW i \in 1..Len(new) - 1
      PROVE  new[i + 1].dep >= new[i].arr
  <2>0. /\ i \in 1..Len(table) - 1 /\ i + 1 \in 1..Len(table) - 1
        /\ i + 1 \in 1..Len(table)
    BY <1>1, <1>5
  <2>1. table[i + 1].dep >= table[i + 1].arr
    BY <1>3, <2>0
  <2>2. table[i + 1].dep \in Nat /\ table[i + 1].arr \in Nat
    BY <1>2, <2>0 DEF Steps
  <2>3. new[i + 1].dep = begin + table[i + 1].dep /\ new[i].arr = begin + table[i + 1].arr
    <3>1. new[i] = [dep |-> begin + table[i].dep, arr |-> begin + table[i + 1].arr]
      BY <1>4, <2>0
    <3>2. new[i + 1] = [dep |-> begin + table[i + 1].dep,
                        arr |-> begin + table[i + 1 + 1].arr]
      BY <1>4, <2>0
    <3> QED  BY <3>1, <3>2
  <2> QED  BY <2>1, <2>2, <2>3
<1> QED  BY <1>5, <1>6, <1>7 DEF new

(* The link the robot is on, or at, in the types of the invariant.         *)
LEMMA LinkFacts ==
  ASSUME TypeOK, LinksInOrder, HasLink
  PROVE  /\ index \in Nat /\ index >= 1
         /\ Link \in Links /\ Link.dep \in Int /\ Link.arr \in Int
         /\ Link.arr >= Link.dep + MaxFrame
         /\ Duration(Link) = Link.arr - Link.dep
         /\ index > 1 => links[index - 1].arr \in Int /\ Link.dep >= links[index - 1].arr
<1>1. index \in 1..Len(links) /\ links \in Seq(Links)
  BY DEF TypeOK, HasLink
<1>2. Link \in Links
  BY <1>1 DEF Link
<1>3. Link.arr >= Link.dep + MaxFrame
  BY <1>1 DEF LinksInOrder, Link
<1>4. Duration(Link) = Link.arr - Link.dep
  BY <1>2, <1>3, TablesAssumption DEF Duration, Links
<1>5. ASSUME index > 1
      PROVE  links[index - 1].arr \in Int /\ Link.dep >= links[index - 1].arr
  <2>1. index - 1 \in 1..Len(links) - 1
    BY <1>1, <1>5
  <2>2. links[index - 1] \in Links
    BY <1>1, <2>1
  <2>3. links[index - 1 + 1].dep >= links[index - 1].arr
    BY <2>1 DEF LinksInOrder
  <2>4. index - 1 + 1 = index
    BY <1>1
  <2>5. Link.dep >= links[index - 1].arr
    BY <2>3, <2>4 DEF Link
  <2> QED  BY <2>2, <2>5 DEF Links
<1> QED  BY <1>1, <1>2, <1>3, <1>4, <1>5 DEF Links

-----------------------------------------------------------------------------
LEMMA BeginFrameIInv == IInv /\ BeginFrame => IInv'
<1> SUFFICES ASSUME IInv, BeginFrame PROVE IInv'
  OBVIOUS
<1> USE TablesAssumption DEF IInv, BeginFrame, route
<1>1. PICK dt \in 1..MaxFrame : serverTime' = serverTime + dt
  OBVIOUS
<1>2. TypeOK'
  <2>1. serverTime' \in Nat
    BY <1>1 DEF TypeOK
  <2>2. letters' \in Seq(1..Len(links'))
    OBVIOUS
  <2>3. phase' = "server" /\ UNCHANGED <<links, index, moving, start, overTime, exact, held>>
    OBVIOUS
  <2> QED  BY <2>1, <2>2, <2>3 DEF TypeOK
<1>3. (LinksInOrder /\ Mail /\ Arrived /\ LateByFrames)'
  BY DEF LinksInOrder, Mail, Arrived, LateByFrames
<1>4. HasLink' = HasLink /\ Link' = Link
  BY DEF HasLink, Link
<1>5. CASE HasLink
  <2>1. /\ Link.dep \in Int /\ Link.arr \in Int
        /\ Duration(Link) = Link.arr - Link.dep
    BY <1>5, LinkFacts
  <2>0. Duration(Link)' = Duration(Link)
    BY <1>4 DEF Duration
  <2>2. Riding' /\ Standing'
    <3>1. /\ serverTime \in Nat /\ start \in Int /\ overTime \in Int /\ exact \in Int
          /\ serverTime' >= serverTime /\ serverTime' <= serverTime + MaxFrame
      BY <1>1 DEF TypeOK
    <3>2. Riding'
      BY <1>4, <1>5, <2>0, <2>1, <3>1 DEF Riding
    <3>3. Standing'
      BY <1>4, <1>5, <3>1 DEF Standing
    <3> QED  BY <3>2, <3>3
  <2>3. Punctual'
    BY <1>1, <1>4, <1>5, <2>1 DEF TypeOK, Punctual
  <2> QED  BY <1>2, <1>3, <2>2, <2>3
<1>6. CASE ~HasLink
  BY <1>2, <1>3, <1>4, <1>6 DEF Riding, Standing, Punctual
<1> QED  BY <1>5, <1>6

LEMMA FollowRouteIInv == IInv /\ FollowRoute => IInv'
<1> SUFFICES ASSUME IInv, FollowRoute PROVE IInv'
  OBVIOUS
<1> USE TablesAssumption DEF IInv, FollowRoute, clock
<1>1. PICK table \in Tables, begin \in Beginnings : links' = LinksOf(table, begin)
  OBVIOUS
<1>2. begin \in Nat /\ begin >= serverTime - MaxFrame
  BY DEF Beginnings, TypeOK
<1>3. /\ links' \in Seq(Links) /\ Len(links') \in Nat
      /\ \A i \in 1..Len(links') :
           links'[i].arr >= links'[i].dep + MaxFrame /\ links'[i].dep >= begin
      /\ \A i \in 1..Len(links') - 1 : links'[i + 1].dep >= links'[i].arr
  BY <1>1, <1>2, LinksOfTable
<1>4. TypeOK'
  <2>1. letters' \in Seq(1..Len(links'))
    OBVIOUS
  <2>2. index' \in 1..Len(links') + 1 /\ overTime' \in 0..MaxFrame - 1
    BY <1>3
  <2>3. serverTime' \in Nat /\ start' \in Int /\ exact' \in Int /\ phase' = "server"
    BY DEF TypeOK
  <2> QED  BY <1>3, <2>1, <2>2, <2>3, Zenon DEF TypeOK
<1>5. (LinksInOrder /\ Mail /\ Arrived /\ Riding /\ Standing /\ LateByFrames)'
  BY <1>3 DEF LinksInOrder, Mail, Arrived, Riding, Standing, LateByFrames
<1>6. Punctual'
  <2>1. ASSUME HasLink'
        PROVE  Link'.dep \in Int /\ serverTime' <= Link'.dep + MaxFrame
    <3>1. 1 \in 1..Len(links') /\ Link' = links'[1]
      BY <1>3, <2>1 DEF HasLink, Link
    <3>2. Link' \in Links /\ Link'.dep >= begin
      BY <1>3, <3>1
    <3>3. Link'.dep \in Int
      BY <3>2 DEF Links
    <3>4. serverTime \in Nat /\ serverTime' = serverTime /\ MaxFrame \in Nat
      BY DEF TypeOK
    <3>5. PICK d \in Int : d = Link'.dep
      BY <3>3
    <3> QED  BY <1>2, <3>2, <3>4, <3>5
  <2> QED  BY <2>1 DEF Punctual
<1> QED  BY <1>4, <1>5, <1>6

LEMMA NothingToDoIInv == IInv /\ NothingToDo => IInv'
<1> SUFFICES ASSUME IInv, NothingToDo PROVE IInv'
  OBVIOUS
<1> USE TablesAssumption DEF IInv, NothingToDo, BeginUpdate, ride
<1>1. TypeOK'
  BY DEF TypeOK
<1>2. (LinksInOrder /\ Mail /\ Arrived /\ LateByFrames)'
  BY DEF LinksInOrder, Mail, Arrived, LateByFrames
<1>3. HasLink' = HasLink /\ Link' = Link
  BY DEF HasLink, Link
<1>4. CASE ~HasLink
  BY <1>1, <1>2, <1>3, <1>4 DEF Riding, Standing, Punctual
<1>5. CASE HasLink
  <2>1. ~moving /\ serverTime < Link.dep /\ Link.dep \in Int
    BY <1>5, LinkFacts
  <2>2. Riding' /\ Standing' /\ Punctual'
    BY <1>3, <1>5, <2>1 DEF Riding, Standing, Punctual, TypeOK
  <2> QED  BY <1>1, <1>2, <2>2
<1> QED  BY <1>4, <1>5

LEMMA HoldIInv == IInv /\ Hold => IInv'
<1> SUFFICES ASSUME IInv, Hold PROVE IInv'
  OBVIOUS
<1> USE DEF IInv, Hold, BeginUpdate, Departing, ride
<1>1. TypeOK'
  BY DEF TypeOK
<1>2. (LinksInOrder /\ Mail /\ Arrived /\ LateByFrames)'
  BY DEF LinksInOrder, Mail, Arrived, LateByFrames
<1>3. (Riding /\ Standing /\ Punctual)'
  BY DEF Riding, Standing, Punctual, HasLink
<1> QED  BY <1>1, <1>2, <1>3

-----------------------------------------------------------------------------
(* A link, from when it counts.  A start is due when the invariant allows  *)
(* a ride that began there.                                                *)
Due(from) ==
  /\ from \in Int
  /\ from >= Link.dep
  /\ index > 1 => from >= exact
  /\ serverTime < from + Duration(Link) + MaxFrame
  /\ ~held => from <= Link.dep + index * MaxFrame

LEMMA RidingIsDue ==
  ASSUME IInv, BeginUpdate, moving  PROVE  HasLink /\ Due(start)
BY TablesAssumption DEF IInv, BeginUpdate, Riding, Punctual, Due, TypeOK

LEMMA DepartureIsDue ==
  ASSUME IInv, BeginUpdate, Departing  PROVE  Due(ActualStart)
<1> USE TablesAssumption DEF IInv, BeginUpdate, Departing
<1>1. /\ index \in Nat /\ index >= 1 /\ exact \in Int /\ serverTime \in Nat
      /\ overTime \in 0..MaxFrame - 1
  BY LinkFacts DEF TypeOK
<1>2. /\ Link.dep \in Int /\ Link.arr \in Int /\ Link.arr >= Link.dep + MaxFrame
      /\ Duration(Link) = Link.arr - Link.dep
      /\ index > 1 => links[index - 1].arr \in Int /\ Link.dep >= links[index - 1].arr
  BY LinkFacts
<1>3. /\ ActualStart \in Int /\ ActualStart >= Link.dep
      /\ ActualStart >= serverTime - overTime
      /\ ActualStart <= serverTime
      /\ ActualStart = Link.dep \/ ActualStart = serverTime - overTime
  BY <1>1, <1>2 DEF ActualStart, Later
<1>4. index > 1 => ActualStart >= exact
  BY <1>1, <1>3 DEF Standing
<1>5. serverTime < ActualStart + Duration(Link) + MaxFrame
  BY <1>1, <1>2, <1>3
<1>6. ASSUME ~held
      PROVE  ActualStart <= Link.dep + index * MaxFrame
  <2>1. index * MaxFrame = (index - 1) * MaxFrame + MaxFrame
        /\ (index - 1) * MaxFrame \in Nat /\ index * MaxFrame \in Nat
    BY <1>1
  <2>2. CASE serverTime <= Link.dep + MaxFrame
    <3>1. index * MaxFrame >= MaxFrame
      BY <2>1
    <3> HIDE DEF ActualStart
    <3>2. ActualStart <= Link.dep + MaxFrame
      BY <1>1, <1>2, <1>3, <2>2
    <3> QED  BY <1>2, <1>3, <2>1, <3>1, <3>2
  <2>3. CASE index > 1 /\ serverTime <= exact + overTime + MaxFrame
    <3>1. exact <= links[index - 1].arr + (index - 1) * MaxFrame
      BY <1>6, <2>3 DEF LateByFrames
    <3> QED  BY <1>1, <1>2, <1>3, <2>1, <2>3, <3>1
  <2> QED  BY <1>6, <2>2, <2>3 DEF Punctual
<1> QED  BY <1>3, <1>4, <1>5, <1>6 DEF Due

(* The end of a link, or one more frame on it.                             *)
LEMMA ArriveIInv ==
  ASSUME IInv, BeginUpdate, UNCHANGED held, HasLink,
         NEW from, Due(from), Arrive(from), serverTime < from + Duration(Link) + MaxFrame
  PROVE  IInv'
<1>0. /\ from \in Int /\ from >= Link.dep
      /\ ~held => from <= Link.dep + index * MaxFrame
  BY DEF Due
<1>1. /\ index \in 1..Len(links) /\ serverTime \in Nat /\ links \in Seq(Links)
      /\ Len(links) \in Nat /\ held \in BOOLEAN
  BY DEF IInv, TypeOK, HasLink
<1>2. /\ Link.dep \in Int /\ Link.arr \in Int /\ Link.arr >= Link.dep + MaxFrame
      /\ Duration(Link) = Link.arr - Link.dep
  BY LinkFacts DEF IInv
<1>3. MaxFrame \in Nat
  BY TablesAssumption
<1>4. /\ phase = "server" /\ phase' = "idle"
      /\ serverTime' = serverTime /\ links' = links /\ held' = held
      /\ index' = index + 1 /\ moving' = FALSE /\ start' = from
      /\ exact' = from + Duration(Link) /\ serverTime >= from + Duration(Link)
      /\ overTime' = IF index = Len(links) THEN 0 ELSE serverTime - exact'
  BY DEF BeginUpdate, Arrive
<1>5. letters' = <<index>>
  BY <1>1, <1>4 DEF IInv, Mail, Arrive
<1>6. /\ exact' = from + (Link.arr - Link.dep) /\ exact' \in Int
      /\ serverTime - exact' \in 0..MaxFrame - 1
      /\ exact' >= Link.arr
  <2>1. exact' = from + (Link.arr - Link.dep)
    BY <1>2, <1>4
  <2>2. from + (Link.arr - Link.dep) \in Int /\ from + (Link.arr - Link.dep) >= Link.arr
    BY <1>0, <1>2
  <2>3. exact' \in Int /\ serverTime >= exact' /\ serverTime < exact' + MaxFrame
    BY <1>2, <1>4, <2>1, <2>2
  <2>4. serverTime - exact' \in 0..MaxFrame - 1
    <3>1. serverTime \in Int
      BY <1>1
    <3> QED  BY <1>3, <2>3, <3>1, Overrun
  <2> QED  BY <2>1, <2>2, <2>3, <2>4
<1>7. TypeOK'
  <2>1. letters' \in Seq(1..Len(links'))
    BY <1>1, <1>4, <1>5
  <2>2. index' \in 1..Len(links') + 1 /\ overTime' \in 0..MaxFrame - 1
    BY <1>1, <1>3, <1>4, <1>6
  <2> QED  BY <1>0, <1>1, <1>4, <1>6, <2>1, <2>2 DEF TypeOK
<1>8. index' - 1 = index /\ index' > 1 /\ links'[index' - 1] = Link
  BY <1>1, <1>4 DEF Link
<1>9. LinksInOrder' /\ Mail' /\ Arrived'
  <2>1. LinksInOrder'
    BY <1>4 DEF IInv, LinksInOrder
  <2>2. Mail'
    BY <1>1, <1>4, <1>5, <1>6, <1>8 DEF Mail
  <2>3. Arrived'
    BY <1>6, <1>8 DEF Arrived
  <2> QED  BY <2>1, <2>2, <2>3
<1>10. HasLink' => overTime' = serverTime - exact'
  BY <1>1, <1>4 DEF HasLink
<1>11. Riding' /\ Standing'
  <2>1. Riding'
    BY <1>4 DEF Riding
  <2>2. Standing'
    BY <1>1, <1>4, <1>6, <1>10 DEF Standing
  <2> QED  BY <2>1, <2>2
<1>12. Punctual'
  BY <1>1, <1>4, <1>6, <1>8, <1>10 DEF Punctual
<1>13. LateByFrames'
  <2> DEFINE delay == index * MaxFrame
  <2>1. delay \in Nat /\ (~held => from <= Link.dep + delay)
    BY <1>0, <1>1, <1>3
  <2> HIDE DEF delay
  <2>2. ~held => exact' <= Link.arr + delay
    BY <1>0, <1>2, <1>6, <2>1
  <2>3. ~held => exact' <= links'[index' - 1].arr + (index' - 1) * MaxFrame
    BY <1>8, <2>2 DEF delay
  <2> QED  BY <1>4, <2>3 DEF LateByFrames
<1> QED  BY <1>7, <1>9, <1>11, <1>12, <1>13 DEF IInv

LEMMA RideOnIInv ==
  ASSUME IInv, BeginUpdate, UNCHANGED held, HasLink, NEW from, Due(from), RideOn(from)
  PROVE  IInv'
<1> USE TablesAssumption DEF IInv, BeginUpdate, RideOn, Due
<1>1. TypeOK'
  BY DEF TypeOK
<1>2. LinksInOrder' /\ Mail' /\ Arrived' /\ LateByFrames'
  BY DEF LinksInOrder, Mail, Arrived, LateByFrames
<1>3. HasLink' /\ Link' = Link /\ Duration(Link)' = Duration(Link)
  BY DEF HasLink, Link, Duration
<1>4. Link.dep \in Int /\ Link.arr \in Int /\ Duration(Link) = Link.arr - Link.dep
  BY LinkFacts
<1>5. Riding' /\ Standing'
  BY <1>3, <1>4 DEF Riding, Standing, TypeOK
<1>6. Punctual'
  BY <1>3, <1>4 DEF Punctual, TypeOK
<1> QED  BY <1>1, <1>2, <1>5, <1>6

LEMMA NextIInv == IInv /\ [Next]_vars => IInv'
<1> SUFFICES ASSUME IInv, [Next]_vars PROVE IInv'
  OBVIOUS
<1>1. CASE BeginFrame
  BY <1>1, BeginFrameIInv
<1>2. CASE FollowRoute
  BY <1>2, FollowRouteIInv
<1>3. CASE NothingToDo
  BY <1>3, NothingToDoIInv
<1>4. CASE Hold
  BY <1>4, HoldIInv
<1>5. CASE Depart
  <2>1. BeginUpdate /\ Departing /\ UNCHANGED held /\ HasLink
    BY <1>5 DEF Depart, Departing
  <2>2. Due(ActualStart)
    BY <2>1, DepartureIsDue
  <2>3. CASE Arrive(ActualStart)
    BY <2>1, <2>2, <2>3, ArriveIInv DEF Due
  <2>4. CASE RideOn(ActualStart)
    BY <2>1, <2>2, <2>4, RideOnIInv
  <2> QED  BY <1>5, <2>3, <2>4 DEF Depart
<1>6. CASE Ride
  <2>1. BeginUpdate /\ moving /\ UNCHANGED held
    BY <1>6 DEF Ride
  <2>2. HasLink /\ Due(start)
    BY <2>1, RidingIsDue
  <2>3. CASE Arrive(start)
    BY <2>1, <2>2, <2>3, ArriveIInv DEF Due
  <2>4. CASE RideOn(start)
    BY <2>1, <2>2, <2>4, RideOnIInv
  <2> QED  BY <1>6, <2>3, <2>4 DEF Ride
<1>7. CASE UNCHANGED vars
  BY <1>7 DEF vars, clock, route, ride, IInv, TypeOK, LinksInOrder, Mail, Arrived,
              Riding, Standing, Punctual, LateByFrames, HasLink, Link, Duration
<1> QED  BY <1>1, <1>2, <1>3, <1>4, <1>5, <1>6, <1>7 DEF Next

(* The invariant of the timed controller.                                  *)
THEOREM ControllerInvariant == Spec => []IInv
BY InitIInv, NextIInv, PTL DEF Spec

-----------------------------------------------------------------------------
(* The controller's variables keep their types; above all m_OverTime is    *)
(* less than a frame.                                                      *)
THEOREM TypeCorrect == Spec => []TypeOK
<1>1. IInv => TypeOK
  BY DEF IInv
<1> QED  BY <1>1, ControllerInvariant, PTL

(* No robot leaves or reports a node before its table says so.             *)
THEOREM NobodyIsEarly == Spec => []NeverEarly
<1>1. IInv => NeverEarly
  <2> SUFFICES ASSUME IInv PROVE NeverEarly
    OBVIOUS
  <2>1. moving => start >= Link.dep
    BY DEF IInv, Riding
  <2>2. ASSUME NEW i \in DOMAIN letters
        PROVE  serverTime >= exact /\ exact >= links[letters[i]].arr
    <3>1. letters # <<>>
      BY <2>2 DEF IInv, TypeOK
    <3>2. letters = <<index - 1>> /\ index > 1 /\ serverTime >= exact
      BY <3>1 DEF IInv, Mail
    <3>3. letters[i] = index - 1
      BY <2>2, <3>2
    <3> QED  BY <3>2, <3>3 DEF IInv, Arrived
  <2> QED  BY <2>1, <2>2 DEF NeverEarly
<1> QED  BY <1>1, ControllerInvariant, PTL

(* No link begins before the end of the one before it.                     *)
THEOREM LinksFollowOnAnother == Spec => []NoTimeGained
<1>1. IInv => NoTimeGained
  BY DEF IInv, Riding, NoTimeGained
<1> QED  BY <1>1, ControllerInvariant, PTL

(* Without a refusal the delay grows by at most a frame per link.          *)
THEOREM DelayBounded == Spec => []LateByFrames
<1>1. IInv => LateByFrames
  BY DEF IInv
<1> QED  BY <1>1, ControllerInvariant, PTL

-----------------------------------------------------------------------------
(* A call of Update that departs does not arrive: what the robot makes up  *)
(* for is less than a frame, and no link is ridden in less than one.       *)
LEMMA DepartureIsNoArrival ==
  ASSUME IInv, BeginUpdate, Departing
  PROVE  ~Arrive(ActualStart)
<1>1. /\ Link.dep \in Int /\ Link.arr \in Int /\ Duration(Link) = Link.arr - Link.dep
      /\ Link.arr >= Link.dep + MaxFrame
  BY LinkFacts DEF IInv, Departing
<1>2. serverTime \in Nat /\ overTime \in 0..MaxFrame - 1 /\ MaxFrame \in Nat
  BY TablesAssumption DEF IInv, TypeOK
<1>3. ActualStart \in Int /\ ActualStart >= serverTime - overTime
  BY <1>1, <1>2 DEF ActualStart, Later
<1>4. PICK d \in Int : d = Duration(Link) /\ d >= MaxFrame
  BY <1>1, <1>2
<1> HIDE DEF ActualStart
<1>5. ~(serverTime >= ActualStart + d)
  BY <1>2, <1>3, <1>4
<1> QED  BY <1>4, <1>5 DEF Arrive

LEMMA LeftFacts ==
  ASSUME IInv
  PROVE  /\ index \in Nat /\ Len(links) \in Nat /\ Len(letters) \in Nat
         /\ Len(links) + 1 - index \in Nat
         /\ HasLink <=> Len(links) + 1 - index > 0
         /\ letters = <<>> <=> Len(letters) = 0
BY DEF IInv, TypeOK, HasLink

(* The end of a link is the end of a ride of the abstract robot.           *)
LEMMA ArriveMapped ==
  ASSUME IInv, BeginUpdate, moving, NEW from, Arrive(from)
  PROVE  Abstract!Arrive
<1>1. letters = <<>> /\ index \in Nat /\ Len(links) \in Nat
  BY LeftFacts DEF IInv, Mail, BeginUpdate
<1>2. letters' = <<index>> /\ index' = index + 1 /\ moving' = FALSE /\ links' = links
  BY <1>1 DEF Arrive, BeginUpdate
<1>3. Len(letters) = 0 /\ Len(letters') = 1
  BY <1>1, <1>2
<1>4. Len(links') + 1 - index' = (Len(links) + 1 - index) - 1
  BY <1>1, <1>2
<1> QED  BY <1>2, <1>3, <1>4 DEF Abstract!Arrive

LEMMA StepMapped ==
  ASSUME IInv, IInv', [Next]_vars
  PROVE  [Abstract!Next]_Abstract!vars
<1>1. CASE BeginFrame
  <2>1. letters' = <<>> /\ UNCHANGED <<links, index, moving>>
    BY <1>1 DEF BeginFrame, route
  <2>2. Abstract!Read
    BY <2>1 DEF Abstract!Read
  <2> QED  BY <2>2 DEF Abstract!Next
<1>2. CASE FollowRoute
  <2>1. letters' = <<>> /\ moving' = FALSE /\ index' = 1 /\ Len(links') \in Nat
    <3>1. links' \in Seq(Links)
      BY DEF IInv, TypeOK
    <3> QED  BY <1>2, <3>1 DEF FollowRoute
  <2>2. Len(links') + 1 - index' \in Nat /\ Len(letters') = 0
    BY <2>1
  <2>3. Abstract!Follow
    BY <2>1, <2>2 DEF Abstract!Follow
  <2> QED  BY <2>3 DEF Abstract!Next
<1>3. CASE NothingToDo \/ Hold \/ UNCHANGED vars
  <2>1. UNCHANGED <<links, index, moving, letters>>
    BY <1>3 DEF NothingToDo, Hold, BeginUpdate, ride, vars, route
  <2> QED  BY <2>1 DEF Abstract!vars
<1>4. CASE Depart
  <2>1. BeginUpdate /\ Departing /\ HasLink
    BY <1>4 DEF Depart, Departing
  <2>2. RideOn(ActualStart)
    BY <1>4, <2>1, DepartureIsNoArrival DEF Depart
  <2>3. /\ letters = <<>> /\ ~moving /\ moving' = TRUE
        /\ UNCHANGED <<links, index, letters>>
    BY <2>1, <2>2 DEF IInv, Mail, BeginUpdate, Departing, RideOn
  <2>4. Abstract!Depart
    BY <2>1, <2>3, LeftFacts DEF Abstract!Depart
  <2> QED  BY <2>4 DEF Abstract!Next
<1>5. CASE Ride
  <2>1. BeginUpdate /\ moving
    BY <1>5 DEF Ride
  <2>2. CASE Arrive(start)
    BY <2>1, <2>2, ArriveMapped DEF Abstract!Next
  <2>3. CASE RideOn(start)
    <3>1. UNCHANGED <<links, index, letters>> /\ moving' = moving
      BY <2>1, <2>3 DEF BeginUpdate, RideOn, IInv, TypeOK
    <3> QED  BY <3>1 DEF Abstract!vars
  <2> QED  BY <1>5, <2>2, <2>3 DEF Ride
<1> QED  BY <1>1, <1>2, <1>3, <1>4, <1>5 DEF Next

(* For all tables, frames and answers of the clearance the timed           *)
(* controller is a Robot: it departs and arrives in different calls, and   *)
(* the server reads every arrival before the robot goes on.                *)
THEOREM ControllerIsARobot == Spec => RobotSpec
<1>1. Init => Abstract!Init
  <2> SUFFICES ASSUME Init PROVE Abstract!Init
    OBVIOUS
  <2>1. Len(links) = 0 /\ Len(letters) = 0 /\ index = 1 /\ moving = FALSE
    BY DEF Init
  <2> QED  BY <2>1 DEF Abstract!Init
<1>2. IInv /\ IInv' /\ [Next]_vars => [Abstract!Next]_Abstract!vars
  BY StepMapped
<1> QED  BY <1>1, <1>2, ControllerInvariant, PTL DEF Spec, RobotSpec, Abstract!Spec

=============================================================================
