--------------------------- MODULE ControlChannel ---------------------------
(***************************************************************************)
(* The receive side of the control channel: TLSConn.Read and its helpers   *)
(* (src/unnamed/part_007), the reliability layer the TLS handshake reads   *)
(* through.  The client keeps lastACK, the id of the last control packet   *)
(* it delivered and acknowledged, and ackQueue, a bounded channel where a  *)
(* packet that is not the next one is parked.  The peer (the reference     *)
(* server) sends control packets 1..MaxId inside a send window and         *)
(* retransmits every packet it has not seen acknowledged; it also sends    *)
(* ACK_V1 packets for the client's own records.  The carrier may lose,     *)
(* duplicate and reorder packets in both directions.                       *)
(***************************************************************************)
EXTENDS Naturals, Sequences

CONSTANTS
    MaxId,      \* number of control packets the peer sends in this key epoch
    Window,     \* peer's send window: packets in flight beyond the oldest unacked one
    QueueCap,   \* capacity of the buffered channel session.ackQueue
    MaxPeerAcks \* number of ACK_V1 packets the peer sends for the client's records

ASSUME ConstantsAssumption ==
    /\ MaxId \in Nat \ {0}
    /\ Window \in Nat \ {0}
    /\ QueueCap \in Nat \ {0}
    /\ MaxPeerAcks \in Nat

VARIABLES
    lastACK,     \* session.lastACK: id of the last delivered and acknowledged packet
    ackQueue,    \* session.ackQueue: ids of parked packets, in channel order
    pc,          \* where the goroutine calling TLSConn.Read is
    delivered,   \* history: ids whose payload reached the TLS library, in order
    wire,        \* packets in flight from the peer to the client (a set: copies merge)
    ackWire,     \* ACK_V1 packets in flight from the client to the peer (acked ids)
    peerNext,    \* next fresh packet id the peer will send
    peerAcked,   \* ids the peer has seen acknowledged (it stops retransmitting them)
    peerAcks     \* ACK_V1 packets the peer has sent so far

vars == <<lastACK, ackQueue, pc, delivered, wire, ackWire,
          peerNext, peerAcked, peerAcks>>

Ids == 1..MaxId

(* Wire packets: CONTROL_V1 carrying a TLS record, or a pure ACK_V1.        *)
ControlPkt(i) == [op |-> "CONTROL_V1", id |-> i]
AckPkt == [op |-> "ACK_V1", id |-> 0]
Packets == {ControlPkt(i) : i \in Ids} \cup {AckPkt}

(* Places of the reading goroutine: at the top of the loop in Read, blocked *)
(* in readPacket on the carrier, or blocked sending to a full ackQueue.     *)
PCs == {"read", "conn", "blocked"}

-----------------------------------------------------------------------------
(* Code-side helpers.                                                      *)

(* tlsTransport.ReadPacket: an ACK_V1 is "ignored" by returning an empty,   *)
(* non-nil packet, whose id is the zero value 0.                            *)
ReadPacket(p) == IF p.op = "ACK_V1" THEN 0 ELSE p.id

(* Mutant: accepting any packet ahead of lastACK, not only the next one.    *)
CanReadAhead(id) == id > lastACK

(* TLSConn.canRead / session.isNextPacket: the id follows lastACK.          *)
CanRead(id) == id = lastACK + 1

(* sendACK then writeAndReadFromBuffer: acknowledge the id (the ACK packet  *)
(* goes on the carrier), record it as lastACK, hand the payload upward.     *)
Deliver(id) ==
    /\ ackWire' = ackWire \cup {id}
    /\ lastACK' = id
    /\ delivered' = Append(delivered, id)

(* Mutant: parking without regard to the channel's capacity.               *)
ParkUnbounded(id) ==
    /\ ackQueue' = Append(ackQueue, id)
    /\ pc' = "read"

(* `ackQueue <- p`: parks the packet, or blocks the goroutine forever when  *)
(* the channel is full (it is the channel's only reader).                   *)
Park(id) ==
    IF Len(ackQueue) < QueueCap
    THEN /\ ackQueue' = Append(ackQueue, id)
         /\ pc' = "read"
    ELSE /\ pc' = "blocked"
         /\ UNCHANGED ackQueue

-----------------------------------------------------------------------------
(* Initially the hard reset exchange is over: Reset acknowledged the        *)
(* server's hard reset with packet id 0, so lastACK = 0.                    *)
Init ==
    /\ lastACK = 0
    /\ ackQueue = <<>>
    /\ pc = "read"
    /\ delivered = <<>>
    /\ wire = {}
    /\ ackWire = {}
    /\ peerNext = 1
    /\ peerAcked = {}
    /\ peerAcks = 0

(* TLSConn.Read with an empty ackQueue: go to doReadFromConn.               *)
ReadSelect ==
    /\ pc = "read"
    /\ ackQueue = <<>>
    /\ pc' = "conn"
    /\ UNCHANGED <<lastACK, ackQueue, delivered, wire, ackWire,
                   peerNext, peerAcked, peerAcks>>

(* TLSConn.Read with a non-empty ackQueue: doReadFromQueue takes the head; *)
(* the next packet is delivered, any other is put back at the tail and the *)
(* goroutine goes on to doReadFromConn.                                     *)
ReadFromQueue ==
    /\ pc = "read"
    /\ ackQueue # <<>>
    /\ LET id == Head(ackQueue) IN
       \/ /\ CanRead(id)
          /\ Deliver(id)
          /\ ackQueue' = Tail(ackQueue)
          /\ UNCHANGED pc
       \/ /\ ~CanRead(id)
          /\ ackQueue' = Append(Tail(ackQueue), id)
          /\ pc' = "conn"
          /\ UNCHANGED <<lastACK, delivered, ackWire>>
    /\ UNCHANGED <<wire, peerNext, peerAcked, peerAcks>>

(* Mutant: acknowledging a packet on receipt, before it can be delivered.   *)
ReadFromConnAckEarly ==
    /\ pc = "conn"
    /\ \E p \in wire :
          /\ wire' \in {wire, wire \ {p}}
          /\ LET id == ReadPacket(p) IN
             \/ /\ CanRead(id)
                /\ Deliver(id)
                /\ pc' = "read"
                /\ UNCHANGED ackQueue
             \/ /\ ~CanRead(id)
                /\ Park(id)
                /\ ackWire' = ackWire \cup ({id} \cap Ids)
                /\ UNCHANGED <<lastACK, delivered>>
    /\ UNCHANGED <<peerNext, peerAcked, peerAcks>>

(* doReadFromConn: readPacket returns one packet from the carrier (the      *)
(* carrier may keep a duplicate); the next packet is delivered, any other   *)
(* is parked in ackQueue.                                                   *)
ReadFromConn ==
    /\ pc = "conn"
    /\ \E p \in wire :
          /\ wire' \in {wire, wire \ {p}}
          /\ LET id == ReadPacket(p) IN
             \/ /\ CanRead(id)
                /\ Deliver(id)
                /\ pc' = "read"
                /\ UNCHANGED ackQueue
             \/ /\ ~CanRead(id)
                /\ Park(id)
                /\ UNCHANGED <<lastACK, delivered, ackWire>>
    /\ UNCHANGED <<peerNext, peerAcked, peerAcks>>

-----------------------------------------------------------------------------
(* The environment: the peer's reliability layer and the carrier.          *)

(* Oldest packet the peer has sent and not seen acknowledged.               *)
PeerUnacked == {i \in 1..(peerNext - 1) : i \notin peerAcked}
PeerLow == IF PeerUnacked = {} THEN peerNext
           ELSE CHOOSE i \in PeerUnacked : \A j \in PeerUnacked : i <= j

PeerSendNew ==
    /\ peerNext <= MaxId
    /\ peerNext < PeerLow + Window
    /\ wire' = wire \cup {ControlPkt(peerNext)}
    /\ peerNext' = peerNext + 1
    /\ UNCHANGED <<lastACK, ackQueue, pc, delivered, ackWire, peerAcked, peerAcks>>

PeerRetransmit ==
    /\ \E i \in PeerUnacked : wire' = wire \cup {ControlPkt(i)}
    /\ UNCHANGED <<lastACK, ackQueue, pc, delivered, ackWire,
                   peerNext, peerAcked, peerAcks>>

PeerSendAck ==
    /\ peerAcks < MaxPeerAcks
    /\ wire' = wire \cup {AckPkt}
    /\ peerAcks' = peerAcks + 1
    /\ UNCHANGED <<lastACK, ackQueue, pc, delivered, ackWire, peerNext, peerAcked>>

PeerRecvAck ==
    /\ \E i \in ackWire :
          /\ ackWire' = ackWire \ {i}
          /\ peerAcked' = peerAcked \cup {i}
    /\ UNCHANGED <<lastACK, ackQueue, pc, delivered, wire, peerNext, peerAcks>>

LosePacket ==
    /\ \E p \in wire : wire' = wire \ {p}
    /\ UNCHANGED <<lastACK, ackQueue, pc, delivered, ackWire,
                   peerNext, peerAcked, peerAcks>>

LoseAck ==
    /\ \E i \in ackWire : ackWire' = ackWire \ {i}
    /\ UNCHANGED <<lastACK, ackQueue, pc, delivered, wire,
                   peerNext, peerAcked, peerAcks>>

Client == ReadSelect \/ ReadFromQueue \/ ReadFromConn
Peer == PeerSendNew \/ PeerRetransmit \/ PeerSendAck \/ PeerRecvAck
Carrier == LosePacket \/ LoseAck

Next == Client \/ Peer \/ Carrier

Spec == Init /\ [][Next]_vars

-----------------------------------------------------------------------------
(* Properties.                                                             *)

TypeOK ==
    /\ lastACK \in 0..MaxId
    /\ ackQueue \in Seq(0..MaxId)
    /\ Len(ackQueue) <= QueueCap
    /\ pc \in PCs
    /\ delivered \in Seq(Ids)
    /\ wire \subseteq Packets
    /\ ackWire \subseteq Ids
    /\ peerNext \in 1..(MaxId + 1)
    /\ peerAcked \subseteq Ids
    /\ peerAcks \in 0..MaxPeerAcks

(* The TLS library reads every control payload exactly once, in ascending   *)
(* packet-id order and with no gap, whatever the carrier loses, duplicates  *)
(* or reorders (spec: RT delivers upward exactly once and in order).        *)
InOrderDelivery == delivered = [k \in 1..lastACK |-> k]

(* Neither an ACK in flight nor one the peer has received names a packet    *)
(* the client has not delivered: the peer stops retransmitting a packet     *)
(* only once its payload is safely upstream, so no record is ever lost.     *)
AckedOnlyDelivered ==
    /\ \A i \in ackWire : i <= lastACK
    /\ \A i \in peerAcked : i <= lastACK

(* The refinement: the history of payloads handed to TLS is the abstract   *)
(* stream of ReliableStream.                                                *)
Stream == INSTANCE ReliableStream WITH records <- delivered

(* The receive path implements an exactly-once, in-order stream: every     *)
(* step of TLSConn.Read, the peer and the carrier either hands TLS the     *)
(* next record or leaves the stream as it is, however packets are lost,    *)
(* duplicated, reordered or parked in ackQueue.                            *)
ImplementsStream == Stream!Spec

(* The reading goroutine never blocks forever on its own ackQueue.          *)
ReaderNeverBlocked == pc # "blocked"

=============================================================================
