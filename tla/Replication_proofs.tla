-------------------------- MODULE Replication_proofs --------------------------
(***************************************************************************)
(* Proofs about Replication: its type invariant, and that a client is told *)
(* of every object exactly once and before the first update of it, for any *)
(* number of clients and objects.                                          *)
(***************************************************************************)
EXTENDS Replication, TLAPS

(* A session is made by Hello and never given up.                          *)
SessionsMatchStages ==
  \A c \in Clients : Registered(c) <=> stage[c] \notin {"away", "accepted", "selected"}

Untold(c, o) == commands[c][o] = NONE /\ creates[c][o] = 0

(* Nothing is noted for a client without a session or of an object that is *)
(* not there yet: what Hello and RegisterObject note is the first news.    *)
NoEarlyNews ==
  \A c \in Clients, o \in Ids : ~Registered(c) \/ o > last => Untold(c, o)

IInv ==
  /\ TypeOK
  /\ SessionsMatchStages
  /\ NoEarlyNews
  /\ NoOrphanUpdate
  /\ CreatedOnce
  /\ NobodyMissesAnObject

-----------------------------------------------------------------------------
(* HandleHello_Packet registers the client it is called for, and no other. *)
LEMMA HelloRegisters ==
  ASSUME TypeOK, NEW c \in Clients, Hello(c), NEW d \in Clients
  PROVE  Registered(d)' <=> Registered(d) \/ d = c
  <1>1. /\ sessions' = Append(sessions, c)
        /\ sessions \in Seq(Clients)
    BY DEF Hello, TypeOK
  <1>2. DOMAIN sessions' = 1..(Len(sessions) + 1) /\ DOMAIN sessions = 1..Len(sessions)
    BY <1>1
  <1>3. sessions'[Len(sessions) + 1] = c
    BY <1>1
  <1>4. \A s \in DOMAIN sessions : sessions'[s] = sessions[s]
    BY <1>1
  <1>5. \A s \in DOMAIN sessions' : s \in DOMAIN sessions \/ s = Len(sessions) + 1
    BY <1>1, <1>2
  <1>6. Len(sessions) + 1 \in DOMAIN sessions' /\ DOMAIN sessions \subseteq DOMAIN sessions'
    BY <1>1, <1>2
  <1> QED
    BY <1>3, <1>4, <1>5, <1>6 DEF Registered

(* No other step changes the register.                                     *)
LEMMA SessionsKept ==
  ASSUME sessions' = sessions, NEW d \in Clients
  PROVE  Registered(d)' <=> Registered(d)
  BY DEF Registered

(* One step keeps the types.                                               *)
LEMMA TypeStep == TypeOK /\ [Next]_vars => TypeOK'
<1> SUFFICES ASSUME TypeOK, [Next]_vars PROVE TypeOK'
  OBVIOUS
<1> USE CountAssumption DEF TypeOK, Actions, Ids
<1>1. CASE UpdateWorld
  BY <1>1 DEF UpdateWorld, SetStateDirty
<1>2. CASE SendOutgoingReplicationPackets
  <2>1. creates' \in [Clients -> [Ids -> Nat]]
    BY <1>2 DEF SendOutgoingReplicationPackets
  <2>2. commands' \in [Clients -> [Ids -> Actions \cup {NONE}]]
    BY <1>2 DEF SendOutgoingReplicationPackets
  <2>3. stage' \in [Clients -> {"away", "accepted", "selected", "hello", "map", "ready"}]
    BY <1>2 DEF SendOutgoingReplicationPackets, Selected
  <2> QED
    BY <1>2, <2>1, <2>2, <2>3 DEF SendOutgoingReplicationPackets
<1>3. ASSUME NEW c \in Clients, Accept(c) PROVE TypeOK'
  BY <1>3 DEF Accept, Advance
<1>4. ASSUME NEW c \in Clients, Hello(c) PROVE TypeOK'
  BY <1>4 DEF Hello, Advance, ReplicateCreate
<1>5. ASSUME NEW c \in Clients, ReadyMap(c) PROVE TypeOK'
  <2>1. last' \in 0..MaxObjects
    BY <1>5 DEF ReadyMap
  <2>2. commands' \in [Clients -> [Ids -> Actions \cup {NONE}]]
    BY <1>5 DEF ReadyMap, ReplicateCreate
  <2> QED
    BY <1>5, <2>1, <2>2 DEF ReadyMap, Advance
<1>6. ASSUME NEW c \in Clients, ReadyObject(c) PROVE TypeOK'
  BY <1>6 DEF ReadyObject, Advance
<1>7. ASSUME NEW c \in Clients, Leave(c) PROVE TypeOK'
  BY <1>7 DEF Leave
<1>8. ASSUME NEW c \in Clients, BrokenPipe(c) PROVE TypeOK'
  BY <1>8 DEF BrokenPipe
<1>9. CASE UNCHANGED vars
  BY <1>9 DEF vars
<1> QED
  BY <1>1, <1>2, <1>3, <1>4, <1>5, <1>6, <1>7, <1>8, <1>9 DEF Next

LEMMA InitTypeOK == Init => TypeOK
  <1> SUFFICES ASSUME Init PROVE TypeOK
    OBVIOUS
  <1>1. sessions \in Seq(Clients)
    BY DEF Init
  <1>2. last \in 0..MaxObjects
    BY CountAssumption DEF Init
  <1>3. commands \in [Clients -> [Ids -> Actions \cup {NONE}]]
    BY DEF Init
  <1>4. creates \in [Clients -> [Ids -> Nat]]
    BY DEF Init
  <1> QED
    BY <1>1, <1>2, <1>3, <1>4 DEF Init, TypeOK

(* All variables keep their types.                                         *)
THEOREM TypeCorrect == Spec => []TypeOK
  BY InitTypeOK, TypeStep, PTL DEF Spec

-----------------------------------------------------------------------------
LEMMA InitIInv == Init => IInv
  <1> SUFFICES ASSUME Init PROVE IInv
    OBVIOUS
  <1>1. TypeOK
    BY InitTypeOK
  <1>2. \A c \in Clients : ~Registered(c)
    <2>1. DOMAIN sessions = 1..0
      BY DEF Init
    <2> QED
      BY <2>1 DEF Registered
  <1>3. SessionsMatchStages
    BY <1>2 DEF Init, SessionsMatchStages
  <1>4. \A c \in Clients, o \in Ids : Untold(c, o)
    BY DEF Init, Untold
  <1>5. NoEarlyNews /\ NoOrphanUpdate /\ NobodyMissesAnObject
    BY <1>2, <1>4 DEF NoEarlyNews, NoOrphanUpdate, NobodyMissesAnObject
  <1>6. CreatedOnce
    BY <1>4 DEF CreatedOnce, Untold
  <1> QED
    BY <1>1, <1>3, <1>5, <1>6 DEF IInv

LEMMA UpdateWorldIInv == IInv /\ UpdateWorld => IInv'
  <1> SUFFICES ASSUME IInv, UpdateWorld PROVE IInv'
    OBVIOUS
  <1> USE DEF IInv
  <1>1. TypeOK'
    BY TypeStep DEF Next
  <1>2. \A c \in Clients : Registered(c)' <=> Registered(c)
    BY SessionsKept DEF UpdateWorld
  <1>3. SessionsMatchStages'
    BY <1>2 DEF SessionsMatchStages, UpdateWorld
  <1>4. \A c \in Clients, o \in Ids :
           /\ creates'[c][o] = creates[c][o]
           /\ \/ commands'[c][o] = commands[c][o]
              \/ /\ commands[c][o] = NONE
                 /\ commands'[c][o] = "RT_UPDATE"
                 /\ Registered(c) /\ o \in objects
    BY DEF UpdateWorld, SetStateDirty, TypeOK
  <1>5. NoEarlyNews'
    BY <1>2, <1>4 DEF NoEarlyNews, Untold, UpdateWorld, objects, TypeOK, Ids
  <1>6. NoOrphanUpdate'
    BY <1>2, <1>4, NoneAssumption
    DEF NoOrphanUpdate, NobodyMissesAnObject, Actions
  <1>7. CreatedOnce'
    BY <1>4, NoneAssumption DEF CreatedOnce, Actions
  <1>8. NobodyMissesAnObject'
    <2>1. objects' = objects /\ objects \subseteq Ids
      BY CountAssumption DEF UpdateWorld, objects, Ids, TypeOK
    <2> QED
      BY <1>2, <1>4, <2>1, NoneAssumption DEF NobodyMissesAnObject, Actions
  <1> QED
    BY <1>1, <1>3, <1>5, <1>6, <1>7, <1>8

LEMMA SendIInv == IInv /\ SendOutgoingReplicationPackets => IInv'
  <1> SUFFICES ASSUME IInv, SendOutgoingReplicationPackets PROVE IInv'
    OBVIOUS
  <1> USE DEF IInv
  <1>1. TypeOK'
    BY TypeStep DEF Next
  <1>2. \A c \in Clients : Registered(c)' <=> Registered(c)
    BY SessionsKept DEF SendOutgoingReplicationPackets
  <1>3. SessionsMatchStages'
    BY <1>2 DEF SessionsMatchStages, SendOutgoingReplicationPackets, Selected, TypeOK
  <1>4. \A c \in Clients, o \in Ids :
           \/ /\ ~Sent(c, o)
              /\ creates'[c][o] = creates[c][o]
              /\ commands'[c][o] = commands[c][o]
           \/ /\ Sent(c, o)
              /\ creates'[c][o] = creates[c][o] + 1
              /\ commands'[c][o] = "RT_UPDATE"
    BY DEF SendOutgoingReplicationPackets, TypeOK
  <1>5. NoEarlyNews'
    BY <1>2, <1>4, NoneAssumption
    DEF NoEarlyNews, Untold, Sent, SendOutgoingReplicationPackets, Actions
  <1>6. \A c \in Clients, o \in Ids : creates[c][o] \in Nat
    BY DEF TypeOK
  <1>7. NoOrphanUpdate'
    BY <1>2, <1>4, <1>6 DEF NoOrphanUpdate
  <1>8. CreatedOnce'
    BY <1>4, <1>6 DEF CreatedOnce, Sent
  <1>9. NobodyMissesAnObject'
    <2>1. objects' = objects /\ objects \subseteq Ids
      BY CountAssumption DEF SendOutgoingReplicationPackets, objects, Ids, TypeOK
    <2> QED
      BY <1>2, <1>4, <1>6, <2>1 DEF NobodyMissesAnObject
  <1> QED
    BY <1>1, <1>3, <1>5, <1>7, <1>8, <1>9

LEMMA HelloIInv == ASSUME NEW c \in Clients, IInv, Hello(c) PROVE IInv'
  <1> USE DEF IInv
  <1>1. TypeOK'
    BY TypeStep DEF Next
  <1>2. \A d \in Clients : Registered(d)' <=> Registered(d) \/ d = c
    BY HelloRegisters
  <1>3. ~Registered(c)
    BY DEF SessionsMatchStages, Hello, Advance
  <1>4. SessionsMatchStages'
    BY <1>2 DEF SessionsMatchStages, Hello, Advance, TypeOK
  <1>5. last' = last /\ objects' = objects /\ objects \subseteq Ids
    BY CountAssumption DEF Hello, objects, Ids, TypeOK
  <1>6. \A d \in Clients, o \in Ids :
           /\ creates'[d][o] = creates[d][o]
           /\ \/ /\ d = c /\ o \in objects
                 /\ commands'[d][o] = "RT_CREATE"
              \/ /\ d # c \/ o \notin objects
                 /\ commands'[d][o] = commands[d][o]
    BY DEF Hello, ReplicateCreate, TypeOK
  <1>7. \A o \in Ids : Untold(c, o)
    BY <1>3 DEF NoEarlyNews
  <1>8. NoEarlyNews'
    <2>1. \A o \in objects : ~(o > last)
      BY DEF objects, TypeOK
    <2> QED
      BY <1>2, <1>5, <1>6, <2>1 DEF NoEarlyNews, Untold
  <1>9. NoOrphanUpdate'
    BY <1>2, <1>6, <1>7, NoneAssumption DEF NoOrphanUpdate, Untold, Actions
  <1>10. CreatedOnce'
    BY <1>6, <1>7 DEF CreatedOnce, Untold
  <1>11. NobodyMissesAnObject'
    BY <1>2, <1>5, <1>6 DEF NobodyMissesAnObject
  <1> QED
    BY <1>1, <1>4, <1>8, <1>9, <1>10, <1>11

LEMMA ReadyMapIInv == ASSUME NEW c \in Clients, IInv, ReadyMap(c) PROVE IInv'
  <1> USE DEF IInv
  <1>1. TypeOK'
    BY TypeStep DEF Next
  <1>2. \A d \in Clients : Registered(d)' <=> Registered(d)
    BY SessionsKept DEF ReadyMap
  <1>3. SessionsMatchStages'
    BY <1>2 DEF SessionsMatchStages, ReadyMap, Advance, TypeOK
  <1> DEFINE New == last + 1 .. last'
  <1>4. /\ last' \in Nat /\ last \in Nat /\ last < last'
        /\ objects' = objects \cup New
        /\ objects' \subseteq Ids
        /\ \A o \in New : o > last
        /\ \A o \in objects : ~(o > last)
    BY CountAssumption DEF ReadyMap, TypeOK, objects, Ids
  <1>5. \A d \in Clients, o \in Ids :
           /\ creates'[d][o] = creates[d][o]
           /\ \/ /\ Registered(d) /\ o \in New
                 /\ commands'[d][o] = "RT_CREATE"
              \/ /\ ~Registered(d) \/ o \notin New
                 /\ commands'[d][o] = commands[d][o]
    BY DEF ReadyMap, ReplicateCreate, TypeOK
  <1>6. \A d \in Clients, o \in Ids : o \in New => Untold(d, o)
    BY <1>4 DEF NoEarlyNews
  <1>7. NoEarlyNews'
    <2>1. \A o \in Ids : o > last' => o > last /\ o \notin New
      BY <1>4 DEF Ids
    <2> QED
      BY <1>2, <1>5, <2>1 DEF NoEarlyNews, Untold
  <1>8. NoOrphanUpdate'
    BY <1>2, <1>5 DEF NoOrphanUpdate
  <1>9. CreatedOnce'
    BY <1>5, <1>6 DEF CreatedOnce, Untold
  <1>10. NobodyMissesAnObject'
    BY <1>2, <1>4, <1>5 DEF NobodyMissesAnObject
  <1> QED
    BY <1>1, <1>3, <1>7, <1>8, <1>9, <1>10

(* Accept, READY_OBJECT, a client that leaves and a broken pipe touch      *)
(* neither register nor commands.                                          *)
LEMMA OtherIInv ==
  ASSUME IInv, TypeOK',
         UNCHANGED <<sessions, last, commands, creates>>,
         \A c \in Clients : stage'[c] \in {"away", "accepted", "selected"}
                              <=> stage[c] \in {"away", "accepted", "selected"}
  PROVE  IInv'
  BY SessionsKept
  DEF IInv, SessionsMatchStages, NoEarlyNews, NoOrphanUpdate, CreatedOnce,
      NobodyMissesAnObject, Untold, objects

(* A client without a session gets no news, an object that is not there    *)
(* yet is no news, and of every other object each session is told exactly  *)
(* once, before the first update: the invariant of the proof.              *)
THEOREM ReplicationInvariant == Spec => []IInv
<1>1. IInv /\ [Next]_vars => IInv'
  <2> SUFFICES ASSUME IInv, [Next]_vars PROVE IInv'
    OBVIOUS
  <2>0. TypeOK'
    BY TypeStep DEF IInv
  <2>1. CASE UpdateWorld
    BY <2>1, UpdateWorldIInv
  <2>2. CASE SendOutgoingReplicationPackets
    BY <2>2, SendIInv
  <2>3. ASSUME NEW c \in Clients, Accept(c) PROVE IInv'
    BY <2>0, <2>3, OtherIInv DEF Accept, Advance, IInv, TypeOK
  <2>4. ASSUME NEW c \in Clients, Hello(c) PROVE IInv'
    BY <2>4, HelloIInv
  <2>5. ASSUME NEW c \in Clients, ReadyMap(c) PROVE IInv'
    BY <2>5, ReadyMapIInv
  <2>6. ASSUME NEW c \in Clients, ReadyObject(c) PROVE IInv'
    BY <2>0, <2>6, OtherIInv DEF ReadyObject, Advance, IInv, TypeOK
  <2>7. ASSUME NEW c \in Clients, Leave(c) PROVE IInv'
    BY <2>0, <2>7, OtherIInv DEF Leave
  <2>8. ASSUME NEW c \in Clients, BrokenPipe(c) PROVE IInv'
    BY <2>0, <2>8, OtherIInv DEF BrokenPipe
  <2>9. CASE UNCHANGED vars
    BY <2>0, <2>9, OtherIInv DEF vars
  <2> QED
    BY <2>1, <2>2, <2>3, <2>4, <2>5, <2>6, <2>7, <2>8, <2>9 DEF Next
<1> QED
  BY <1>1, InitIInv, PTL DEF Spec

(* No client is sent the update of an object it does not know.             *)
THEOREM UpdatesFollowCreates == Spec => []NoOrphanUpdate
<1>1. IInv => NoOrphanUpdate
  BY DEF IInv
<1> QED
  BY <1>1, ReplicationInvariant, PTL

(* No client is told twice to create an object.                            *)
THEOREM ObjectsCreatedOnce == Spec => []CreatedOnce
<1>1. IInv => CreatedOnce
  BY DEF IInv
<1> QED
  BY <1>1, ReplicationInvariant, PTL

(* No session misses an object.                                            *)
THEOREM EveryObjectAnnounced == Spec => []NobodyMissesAnObject
<1>1. IInv => NobodyMissesAnObject
  BY DEF IInv
<1> QED
  BY <1>1, ReplicationInvariant, PTL

=============================================================================
