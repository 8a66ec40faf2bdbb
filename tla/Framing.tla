------------------------------- MODULE Framing -------------------------------
(***************************************************************************)
(* TCPSession (Shared/TCPSession.cpp): packets that carry their own        *)
(* length, recovered from a stream that TCP cuts anywhere.  A packet is    *)
(* two bytes of total length, low byte first, and a payload.  The peer has *)
(* sent some packets, all of their bytes are on the way, and how many of   *)
(* them one call of recv returns is a choice.                              *)
(***************************************************************************)
EXTENDS Integers, SequencesExt

CONSTANTS
  Payloads,   \* the payloads a packet may have: sequences of bytes
  MaxPackets, \* bound: packets the peer sends
  Chunk       \* the size of the buffer handed to recv

ASSUME PayloadsAssumption ==
  \A p \in Payloads : p \in Seq(0..255) /\ Len(p) + 2 < 65536
ASSUME ChunkAssumption == Chunk \in Nat \ {0}

VARIABLES
  sent,       \* the payloads the peer sends, in order
  onTheWay,   \* the bytes that recv has not returned yet
  buffer,     \* m_ReceiveBuffer
  scanning,   \* the loop of ProcessIncomingData runs
  delivered   \* the payloads handed to OnPacketReceived

vars == <<sent, onTheWay, buffer, scanning, delivered>>

HeaderSize == 2   \* sizeof(uint16_t)

(* SendPacket: the length is a uint16_t.                                   *)
Packet(p) ==
  LET total == (Len(p) + HeaderSize) % 65536
  IN  <<total % 256, total \div 256>> \o p

TypeOK ==
  /\ sent \in Seq(Payloads)
  /\ onTheWay \in Seq(0..255)
  /\ buffer \in Seq(0..255)
  /\ scanning \in BOOLEAN
  /\ delivered \in Seq(Payloads)

Init ==
  /\ sent \in UNION {[1..n -> Payloads] : n \in 1..MaxPackets}
  /\ onTheWay = FlattenSeq([i \in DOMAIN sent |-> Packet(sent[i])])
  /\ buffer = <<>>
  /\ scanning = FALSE
  /\ delivered = <<>>

(* recv returns some bytes, which are put behind those of earlier calls.   *)
Receive ==
  /\ ~scanning
  /\ \E n \in 1..Len(onTheWay) :
       /\ n <= Chunk
       /\ buffer' = buffer \o SubSeq(onTheWay, 1, n)
       /\ onTheWay' = SubSeq(onTheWay, n + 1, Len(onTheWay))
  /\ scanning' = TRUE
  /\ UNCHANGED <<sent, delivered>>

PacketSize == buffer[1] + 256 * buffer[2]

HasHeader == Len(buffer) >= HeaderSize
HasPacket == HasHeader /\ Len(buffer) >= PacketSize

(* Mutant: only as many bytes as the payload has are taken off.            *)
DeliverLeavingHeader ==
  /\ scanning
  /\ HasPacket
  /\ delivered' = Append(delivered, SubSeq(buffer, HeaderSize + 1, PacketSize))
  /\ buffer' = SubSeq(buffer, PacketSize - HeaderSize + 1, Len(buffer))
  /\ UNCHANGED <<sent, onTheWay, scanning>>

(* Mutant: one packet per call, an "if" for the "while".                   *)
DeliverOne ==
  /\ scanning
  /\ HasPacket
  /\ delivered' = Append(delivered, SubSeq(buffer, HeaderSize + 1, PacketSize))
  /\ buffer' = SubSeq(buffer, PacketSize + 1, Len(buffer))
  /\ scanning' = FALSE
  /\ UNCHANGED <<sent, onTheWay>>

(* Mutant: the length is handed over with the payload.                     *)
DeliverWithHeader ==
  /\ scanning
  /\ HasPacket
  /\ delivered' = Append(delivered, SubSeq(buffer, 1, PacketSize))
  /\ buffer' = SubSeq(buffer, PacketSize + 1, Len(buffer))
  /\ UNCHANGED <<sent, onTheWay, scanning>>

(* The packet at the front is complete.                                    *)
Deliver ==
  /\ scanning
  /\ HasPacket
  /\ delivered' = Append(delivered, SubSeq(buffer, HeaderSize + 1, PacketSize))
  /\ buffer' = SubSeq(buffer, PacketSize + 1, Len(buffer))
  /\ UNCHANGED <<sent, onTheWay, scanning>>

(* It is not, or not even its length is known: wait for the next call.     *)
Wait ==
  /\ scanning
  /\ ~HasPacket
  /\ scanning' = FALSE
  /\ UNCHANGED <<sent, onTheWay, buffer, delivered>>

Next == Receive \/ Deliver \/ Wait

(* select reports a socket as long as it has bytes to read.                *)
Spec == Init /\ [][Next]_vars /\ WF_vars(Next)

-----------------------------------------------------------------------------
(* Whatever the cuts, the payloads come out as they were sent, in order.   *)
DeliveredAsSent == IsPrefix(delivered, sent)

(* In the end everything has been delivered: no packet that is complete is *)
(* kept back for want of the next one.                                     *)
AllDelivered == <>(delivered = sent)

=============================================================================
