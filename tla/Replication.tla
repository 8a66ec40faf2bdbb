----------------------------- MODULE Replication -----------------------------
(***************************************************************************)
(* How the server keeps its viewers up to date: the handshake of a client  *)
(* (NetworkManagerServer::HandleHello, HandleReadyMap, HandleReadyObject), *)
(* the registration of objects, and the replication commands that          *)
(* ReplicationManagerServer writes into one packet per client and frame.   *)
(* One turn of the server's loop (ServerMain.cpp) is                       *)
(*   "read"   packets of the clients are handled,                          *)
(*   "send"   UpdateWorld has marked what moved, packets are written, and  *)
(*            the sockets accepted in this turn join the select set.       *)
(*                                                                         *)
(* The client is not part of the repository.  What is assumed of it is the *)
(* handshake: Hello first, then, when it has the map, READY_MAP, then      *)
(* READY_OBJECT, each once.  The server checks none of this.  A client may *)
(* close its connection at any time.  The server takes no notice: the      *)
(* proxy, its session and its socket stay, what the client sent before it  *)
(* left is still read, and each frame is still written to it.  A write to  *)
(* a closed connection may end the process, because send is called without *)
(* MSG_NOSIGNAL and nothing handles SIGPIPE; it need not, because the      *)
(* first such write can still succeed.                                     *)
(***************************************************************************)
EXTENDS Naturals, Sequences

CONSTANTS
  Clients,
  MaxObjects, \* bound: the objects spawned in a run
  Spawned,   \* spawnCount
  NONE

ASSUME CountAssumption == Spawned \in Nat \ {0} /\ MaxObjects \in Nat

Ids == 1..MaxObjects

VARIABLES
  phase,     \* the part of the turn
  stage,     \* how far the handshake of each client has come
  gone,      \* the clients that closed their connection
  sessions,  \* m_SessionIdToProxyMap: the client of each session id
  last,      \* LinkingContext: the network id given out last; the objects up
             \* to it exist
  active,    \* m_IsSimulationActive
  commands,  \* m_Commands of each client: NONE, or the action of the object
  creates    \* how often each client was told to create each object

vars == <<phase, stage, gone, sessions, last, active, commands, creates>>

Actions == {"RT_CREATE", "RT_UPDATE"}

ASSUME NoneAssumption == NONE \notin Actions

TypeOK ==
  /\ phase \in {"read", "send", "ended"}
  /\ stage \in [Clients -> {"away", "accepted", "selected", "hello", "map", "ready"}]
  /\ gone \subseteq Clients
  /\ sessions \in Seq(Clients)
  /\ last \in 0..MaxObjects
  /\ active \in BOOLEAN
  /\ commands \in [Clients -> [Ids -> Actions \cup {NONE}]]
  /\ creates \in [Clients -> [Ids -> Nat]]

Init ==
  /\ phase = "read"
  /\ stage = [c \in Clients |-> "away"]
  /\ gone = {}
  /\ sessions = <<>>
  /\ last = 0
  /\ active = FALSE
  /\ commands = [c \in Clients |-> [o \in Ids |-> NONE]]
  /\ creates = [c \in Clients |-> [o \in Ids |-> 0]]

objects == 1..last

Registered(c) == \E s \in DOMAIN sessions : sessions[s] = c

(* ReplicateCreate for a set of objects overwrites what was noted.         *)
ReplicateCreate(c, new) ==
  [o \in Ids |-> IF o \in new THEN "RT_CREATE" ELSE commands[c][o]]

-----------------------------------------------------------------------------
Advance(c, from, to) ==
  /\ phase = "read"
  /\ stage[c] = from
  /\ stage' = [stage EXCEPT ![c] = to]

(* OnClientAccepted: the proxy has no session yet.                         *)
Accept(c) ==
  /\ Advance(c, "away", "accepted")
  /\ UNCHANGED <<phase, gone, sessions, last, active, commands, creates>>

(* Mutant: the objects that exist are not noted for the new client.        *)
HelloOnly(c) ==
  /\ Advance(c, "selected", "hello")
  /\ sessions' = Append(sessions, c)
  /\ UNCHANGED <<phase, gone, last, active, commands, creates>>

(* HandleHello_Packet: the client gets the next session id, and everything *)
(* that exists is to be created on it.  Then the map is sent.              *)
Hello(c) ==
  /\ Advance(c, "selected", "hello")
  /\ sessions' = Append(sessions, c)
  /\ commands' = [commands EXCEPT ![c] = ReplicateCreate(c, objects)]
  /\ UNCHANGED <<phase, gone, last, active, creates>>

(* Mutant: only the client that asked is told of the new objects.          *)
ReadyMapForOne(c) ==
  /\ Advance(c, "hello", "map")
  /\ last + Spawned <= MaxObjects
  /\ last' = last + Spawned
  /\ commands' = [commands EXCEPT ![c] = ReplicateCreate(c, last + 1 .. last')]
  /\ UNCHANGED <<phase, gone, sessions, active, creates>>

(* Mutant: one network id too many is used up.                             *)
ReadyMapOneMore(c) ==
  /\ Advance(c, "hello", "map")
  /\ last + Spawned <= MaxObjects
  /\ last' = last + Spawned + 1
  /\ commands' = [d \in Clients |->
                    IF Registered(d) THEN ReplicateCreate(d, last + 1 .. last')
                                     ELSE commands[d]]
  /\ UNCHANGED <<phase, gone, sessions, active, creates>>

(* HandleReadyMap_Packet: a fleet is spawned, for every client that says   *)
(* READY_MAP; RegisterObject notes the new objects for every session.      *)
ReadyMap(c) ==
  /\ Advance(c, "hello", "map")
  /\ last + Spawned <= MaxObjects
  /\ last' = last + Spawned
  /\ commands' = [d \in Clients |->
                    IF Registered(d) THEN ReplicateCreate(d, last + 1 .. last')
                                     ELSE commands[d]]
  /\ UNCHANGED <<phase, gone, sessions, active, creates>>

(* HandleReadyObject_Packet: the first one starts the simulation.          *)
ReadyObject(c) ==
  /\ Advance(c, "map", "ready")
  /\ active' = TRUE
  /\ UNCHANGED <<phase, gone, sessions, last, commands, creates>>

(* UpdateWorld: once the simulation runs, every object is dirty in every   *)
(* frame, for every session; a command that is there is kept.              *)
SetStateDirty(c) ==
  [o \in Ids |-> IF o \in objects /\ commands[c][o] = NONE
                     THEN "RT_UPDATE" ELSE commands[c][o]]

UpdateWorld ==
  /\ phase = "read"
  /\ phase' = "send"
  /\ commands' = [c \in Clients |-> IF active /\ Registered(c) THEN SetStateDirty(c)
                                                                ELSE commands[c]]
  /\ UNCHANGED <<stage, gone, sessions, last, active, creates>>

(* SendOutgoingReplicationPackets and ReplicationManagerServer::Write: all *)
(* commands go out, and a create becomes an update for the next frames.    *)
Sent(c, o) == Registered(c) /\ commands[c][o] = "RT_CREATE"

(* The end of a turn: what was accepted in it is read from the next one on. *)
Selected == [c \in Clients |-> IF stage[c] = "accepted" THEN "selected" ELSE stage[c]]

(* Mutant: a create stays a create.                                        *)
SendCreatesAgain ==
  /\ phase = "send"
  /\ phase' = "read"
  /\ stage' = Selected
  /\ creates' = [c \in Clients |-> [o \in Ids |->
                   IF Sent(c, o) THEN creates[c][o] + 1 ELSE creates[c][o]]]
  /\ UNCHANGED <<gone, sessions, last, active, commands>>

(* Mutant: the loop over the sessions is left at a client that is gone.    *)
SendUntilOneIsGone ==
  /\ phase = "send"
  /\ phase' = "read"
  /\ stage' = Selected
  /\ IF \E c \in gone : Registered(c)
     THEN UNCHANGED <<creates, commands>>
     ELSE /\ creates' = [c \in Clients |-> [o \in Ids |->
                          IF Sent(c, o) THEN creates[c][o] + 1 ELSE creates[c][o]]]
          /\ commands' = [c \in Clients |-> [o \in Ids |->
                           IF Sent(c, o) THEN "RT_UPDATE" ELSE commands[c][o]]]
  /\ UNCHANGED <<gone, sessions, last, active>>

SendOutgoingReplicationPackets ==
  /\ phase = "send"
  /\ phase' = "read"
  /\ stage' = Selected
  /\ creates' = [c \in Clients |-> [o \in Ids |->
                   IF Sent(c, o) THEN creates[c][o] + 1 ELSE creates[c][o]]]
  /\ commands' = [c \in Clients |-> [o \in Ids |->
                   IF Sent(c, o) THEN "RT_UPDATE" ELSE commands[c][o]]]
  /\ UNCHANGED <<gone, sessions, last, active>>

(* A client closes its connection.                                         *)
Leave(c) ==
  /\ phase # "ended"
  /\ stage[c] # "away"
  /\ c \notin gone
  /\ gone' = gone \cup {c}
  /\ UNCHANGED <<phase, stage, sessions, last, active, commands, creates>>

(* What the server is about to write to a client: its id and the map in    *)
(* answer to Hello, or the packet of this frame.                           *)
HasPacketFor(c) ==
  \/ phase = "read" /\ stage[c] = "selected"
  \/ phase = "send" /\ Registered(c) /\ \E o \in Ids : commands[c][o] # NONE

(* The write to a client that is gone ends the process.  Which others of   *)
(* the turn were written before it is left out: nothing follows.           *)
BrokenPipe(c) ==
  /\ c \in gone
  /\ HasPacketFor(c)
  /\ phase' = "ended"
  /\ UNCHANGED <<stage, gone, sessions, last, active, commands, creates>>

Next ==
  \/ UpdateWorld
  \/ SendOutgoingReplicationPackets
  \/ \E c \in Clients : Accept(c) \/ Hello(c) \/ ReadyMap(c) \/ ReadyObject(c)
  \/ \E c \in Clients : Leave(c) \/ BrokenPipe(c)

Spec == Init /\ [][Next]_vars

(* The loop of main turns as long as the process lives: the wait in Select *)
(* has a timeout.  The clients owe the server nothing.                     *)
FairSpec == Spec /\ WF_vars(UpdateWorld) /\ WF_vars(SendOutgoingReplicationPackets)

-----------------------------------------------------------------------------
(* Safety.                                                                 *)

(* A client is never sent the update of an object it was not told to       *)
(* create before, whether the object or the client came first and wherever *)
(* in the turn they came.                                                  *)
NoOrphanUpdate ==
  \A c \in Clients, o \in Ids :
    Registered(c) /\ commands[c][o] = "RT_UPDATE" => creates[c][o] > 0

(* No object is created twice on a client.                                 *)
CreatedOnce ==
  \A c \in Clients, o \in Ids : creates[c][o] <= 1 /\
    (creates[c][o] = 1 => commands[c][o] = "RT_UPDATE")

(* Nothing that exists is missing on a client: between two turns every     *)
(* session knows every object, or will be told of it in the next packet.   *)
NobodyMissesAnObject ==
  \A c \in Clients, o \in objects :
    Registered(c) => creates[c][o] > 0 \/ commands[c][o] = "RT_CREATE"

(* Whoever else left, and even if it left itself: a client with a session  *)
(* is told of every object, unless the process ends before.                *)
ToldInTheEnd ==
  \A c \in Clients, o \in Ids :
    Registered(c) /\ o \in objects ~> creates[c][o] > 0 \/ phase = "ended"

=============================================================================
