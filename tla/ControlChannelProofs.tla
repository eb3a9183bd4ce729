------------------------ MODULE ControlChannelProofs ------------------------
(***************************************************************************)
(* Proofs, for every value of the constants, of the invariants that       *)
(* MCControlChannel.cfg checks on a small instance.                        *)
(***************************************************************************)
EXTENDS ControlChannel, TLAPS

(* The step relation of the whole system, split along its actions.         *)
LEMMA NextCases ==
    ASSUME Next
    PROVE  \/ ReadSelect \/ ReadFromQueue \/ ReadFromConn
           \/ PeerSendNew \/ PeerRetransmit \/ PeerSendAck \/ PeerRecvAck
           \/ LosePacket \/ LoseAck
BY DEF Next, Client, Peer, Carrier

-----------------------------------------------------------------------------
(* Type correctness: every variable keeps the shape TypeOK gives it; the   *)
(* reading goroutine never parks more than QueueCap packets.               *)
THEOREM TypeCorrect == Spec => []TypeOK
<1>1. Init => TypeOK
  BY ConstantsAssumption DEF Init, TypeOK, PCs
<1>2. TypeOK /\ [Next]_vars => TypeOK'
  <2> SUFFICES ASSUME TypeOK, [Next]_vars PROVE TypeOK'
    OBVIOUS
  <2> USE ConstantsAssumption DEF TypeOK, PCs
  <2>1. CASE ReadSelect
    BY <2>1 DEF ReadSelect
  <2>2. CASE ReadFromQueue
    <3> DEFINE id == Head(ackQueue)
    <3>1. id \in 0..MaxId
      BY <2>2 DEF ReadFromQueue
    <3>0. ackQueue # <<>> /\ UNCHANGED <<wire, peerNext, peerAcked, peerAcks>>
      BY <2>2 DEF ReadFromQueue
    <3>2. CASE CanRead(id)
      <4>1. /\ ackWire' = ackWire \cup {id} /\ lastACK' = id
            /\ delivered' = Append(delivered, id)
            /\ ackQueue' = Tail(ackQueue) /\ pc' = pc
        BY <2>2, <3>2 DEF ReadFromQueue, CanRead, Deliver
      <4>2. id \in Ids
        BY <3>1, <3>2 DEF CanRead, Ids
      <4>3. QED
        BY <3>0, <4>1, <4>2
    <3>3. CASE ~CanRead(id)
      <4>1. /\ ackQueue' = Append(Tail(ackQueue), id) /\ pc' = "conn"
            /\ UNCHANGED <<lastACK, delivered, ackWire>>
        BY <2>2, <3>3 DEF ReadFromQueue
      <4>2. Len(Append(Tail(ackQueue), id)) = Len(ackQueue)
        BY <3>0, <3>1
      <4>3. QED
        BY <3>0, <3>1, <4>1, <4>2
    <3>4. QED
      BY <3>2, <3>3
  <2>3. CASE ReadFromConn
    <3>1. PICK p \in wire :
              /\ wire' \in {wire, wire \ {p}}
              /\ \/ /\ CanRead(ReadPacket(p))
                    /\ Deliver(ReadPacket(p))
                    /\ pc' = "read"
                    /\ UNCHANGED ackQueue
                 \/ /\ ~CanRead(ReadPacket(p))
                    /\ Park(ReadPacket(p))
                    /\ UNCHANGED <<lastACK, delivered, ackWire>>
      BY <2>3 DEF ReadFromConn
    <3>2. ReadPacket(p) \in 0..MaxId
      BY <3>1 DEF ReadPacket, Packets, ControlPkt, AckPkt, Ids
    <3>3. UNCHANGED <<peerNext, peerAcked, peerAcks>>
      BY <2>3 DEF ReadFromConn
    <3>4. wire' \subseteq Packets
      BY <3>1
    <3>5. CASE CanRead(ReadPacket(p))
      <4>1. Deliver(ReadPacket(p)) /\ pc' = "read" /\ UNCHANGED ackQueue
        BY <3>1, <3>5
      <4>2. ReadPacket(p) \in Ids
        BY <3>2, <3>5 DEF CanRead, Ids
      <4>3. delivered' \in Seq(Ids)
        BY <4>1, <4>2 DEF Deliver
      <4>4. lastACK' \in 0..MaxId
        BY <4>1, <4>2 DEF Deliver, Ids
      <4>6. ackWire' \subseteq Ids
        BY <4>1, <4>2 DEF Deliver
      <4>5. QED
        BY <3>3, <3>4, <4>1, <4>3, <4>4, <4>6
    <3>6. CASE ~CanRead(ReadPacket(p))
      <4>1. Park(ReadPacket(p)) /\ UNCHANGED <<lastACK, delivered, ackWire>>
        BY <3>1, <3>6
      <4>2. CASE Len(ackQueue) < QueueCap
        <5>1. ackQueue' = Append(ackQueue, ReadPacket(p)) /\ pc' = "read"
          BY <4>1, <4>2 DEF Park
        <5>2. ackQueue' \in Seq(0..MaxId)
          BY <3>2, <5>1
        <5>3. Len(ackQueue') <= QueueCap
          BY <4>2, <5>1
        <5>4. QED
          BY <3>3, <3>4, <4>1, <5>1, <5>2, <5>3
      <4>3. CASE ~(Len(ackQueue) < QueueCap)
        <5>1. pc' = "blocked" /\ UNCHANGED ackQueue
          BY <4>1, <4>3 DEF Park
        <5>2. QED
          BY <3>3, <3>4, <4>1, <5>1
      <4>4. QED
        BY <4>2, <4>3
    <3>7. QED
      BY <3>5, <3>6
  <2>4. CASE PeerSendNew
    <3>1. peerNext \in Ids
      BY <2>4 DEF PeerSendNew, Ids
    <3>2. ControlPkt(peerNext) \in Packets
      BY <3>1, Zenon DEF Packets
    <3>3. QED
      BY <2>4, <3>2 DEF PeerSendNew
  <2>5. CASE PeerRetransmit
    <3>1. PICK i \in PeerUnacked : wire' = wire \cup {ControlPkt(i)}
      BY <2>5 DEF PeerRetransmit
    <3>2. i \in Ids
      BY <3>1 DEF PeerUnacked, Ids
    <3>3. ControlPkt(i) \in Packets
      BY <3>2, Zenon DEF Packets
    <3>4. QED
      BY <2>5, <3>1, <3>3 DEF PeerRetransmit
  <2>6. CASE PeerSendAck
    BY <2>6 DEF PeerSendAck, Packets
  <2>7. CASE PeerRecvAck
    BY <2>7 DEF PeerRecvAck
  <2>8. CASE LosePacket
    BY <2>8 DEF LosePacket
  <2>9. CASE LoseAck
    BY <2>9 DEF LoseAck
  <2>10. CASE UNCHANGED vars
    BY <2>10 DEF vars
  <2>11. QED
    BY <2>1, <2>2, <2>3, <2>4, <2>5, <2>6, <2>7, <2>8, <2>9, <2>10, NextCases
<1>3. QED
  BY <1>1, <1>2, PTL DEF Spec

-----------------------------------------------------------------------------
(* Appending n+1 to the identity sequence on 1..n gives the identity on    *)
(* 1..n+1.                                                                 *)
LEMMA AppendNext ==
    ASSUME NEW n \in Nat
    PROVE  Append([k \in 1..n |-> k], n + 1) = [k \in 1..(n + 1) |-> k]
OBVIOUS

(* lastACK never decreases and moves only through Deliver.                 *)
Safety == InOrderDelivery /\ AckedOnlyDelivered

(* The TLS library gets the control payloads exactly once, in order and    *)
(* without a gap, and the client never acknowledges a packet it has not    *)
(* delivered, for every number of packets, window and queue capacity.      *)
THEOREM DeliverySafety == Spec => [](InOrderDelivery /\ AckedOnlyDelivered)
<1> DEFINE IInv == TypeOK /\ Safety
<1>1. Init => IInv
  BY ConstantsAssumption DEF Init, TypeOK, PCs, Safety, InOrderDelivery,
     AckedOnlyDelivered
<1>2. IInv /\ [Next]_vars => Safety'
  <2> SUFFICES ASSUME TypeOK, Safety, [Next]_vars PROVE Safety'
    OBVIOUS
  <2> USE ConstantsAssumption DEF TypeOK, Safety
  (* A delivery of the next id keeps both parts.                           *)
  <2>0. ASSUME NEW id, id = lastACK + 1, Deliver(id),
               UNCHANGED peerAcked
        PROVE  Safety'
    <3>1. delivered' = [k \in 1..lastACK' |-> k]
      BY <2>0, AppendNext DEF Deliver, InOrderDelivery
    <3>4. \A i \in ackWire' : i <= lastACK'
      BY <2>0 DEF Deliver, AckedOnlyDelivered, Ids
    <3>5. \A i \in peerAcked' : i <= lastACK'
      BY <2>0 DEF Deliver, AckedOnlyDelivered, Ids
    <3>2. AckedOnlyDelivered'
      BY <3>4, <3>5 DEF AckedOnlyDelivered
    <3>3. QED
      BY <3>1, <3>2 DEF InOrderDelivery
  (* Any step that leaves lastACK, delivered and the acks alone keeps both. *)
  <2>00. ASSUME UNCHANGED <<lastACK, delivered, ackWire, peerAcked>>
         PROVE  Safety'
    BY <2>00 DEF InOrderDelivery, AckedOnlyDelivered
  <2>1. CASE ReadSelect
    BY <2>1, <2>00 DEF ReadSelect
  <2>2. CASE ReadFromQueue
    <3> DEFINE id == Head(ackQueue)
    <3>1. CASE CanRead(id)
      BY <2>2, <3>1, <2>0 DEF ReadFromQueue, CanRead
    <3>2. CASE ~CanRead(id)
      BY <2>2, <3>2, <2>00 DEF ReadFromQueue
    <3>3. QED
      BY <3>1, <3>2
  <2>3. CASE ReadFromConn
    <3>1. PICK p \in wire :
              \/ /\ CanRead(ReadPacket(p))
                 /\ Deliver(ReadPacket(p))
              \/ /\ ~CanRead(ReadPacket(p))
                 /\ UNCHANGED <<lastACK, delivered, ackWire>>
      BY <2>3 DEF ReadFromConn
    <3>2. UNCHANGED peerAcked
      BY <2>3 DEF ReadFromConn
    <3>3. CASE CanRead(ReadPacket(p))
      BY <3>1, <3>2, <3>3, <2>0 DEF CanRead
    <3>4. CASE ~CanRead(ReadPacket(p))
      BY <3>1, <3>2, <3>4, <2>00
    <3>5. QED
      BY <3>3, <3>4
  <2>4. CASE PeerSendNew
    BY <2>4, <2>00 DEF PeerSendNew
  <2>5. CASE PeerRetransmit
    BY <2>5, <2>00 DEF PeerRetransmit
  <2>6. CASE PeerSendAck
    BY <2>6, <2>00 DEF PeerSendAck
  <2>7. CASE PeerRecvAck
    BY <2>7 DEF PeerRecvAck, InOrderDelivery, AckedOnlyDelivered
  <2>8. CASE LosePacket
    BY <2>8, <2>00 DEF LosePacket
  <2>9. CASE LoseAck
    BY <2>9 DEF LoseAck, InOrderDelivery, AckedOnlyDelivered
  <2>10. CASE UNCHANGED vars
    BY <2>10, <2>00 DEF vars
  <2>11. QED
    BY <2>1, <2>2, <2>3, <2>4, <2>5, <2>6, <2>7, <2>8, <2>9, <2>10, NextCases
<1>3. QED
  BY <1>1, <1>2, TypeCorrect, PTL DEF Spec, Safety

(* The client acknowledges only what it has delivered: neither an ACK in  *)
(* flight nor one the peer has taken names a packet beyond lastACK, so the *)
(* peer never stops retransmitting a record TLS has not read.             *)
THEOREM AckedOnlyDeliveredHolds == Spec => []AckedOnlyDelivered
BY DeliverySafety, PTL

-----------------------------------------------------------------------------
(* The refinement of ReliableStream.                                       *)

(* A delivery of the next id, from the queue or from the carrier, is the   *)
(* abstract stream's Deliver step.                                        *)
LEMMA DeliverRefines ==
    ASSUME TypeOK, InOrderDelivery,
           NEW id \in 0..MaxId, id = lastACK + 1, Deliver(id)
    PROVE  Stream!Deliver
<1>1. Len(delivered) = lastACK
  BY DEF TypeOK, InOrderDelivery
<1>2. Len(delivered) < MaxId
  <2>1. lastACK \in Nat /\ lastACK + 1 <= MaxId
    BY ConstantsAssumption DEF TypeOK
  <2>2. QED
    BY <1>1, <2>1, ConstantsAssumption
<1>3. delivered' = Append(delivered, Len(delivered) + 1)
  BY <1>1 DEF Deliver
<1>4. QED
  BY <1>2, <1>3 DEF Stream!Deliver

(* Every step of the system is a Deliver of the stream or leaves the       *)
(* history of delivered records as it is.                                  *)
LEMMA StepRefines ==
    TypeOK /\ InOrderDelivery /\ [Next]_vars => [Stream!Deliver]_delivered
<1> SUFFICES ASSUME TypeOK, InOrderDelivery, [Next]_vars
             PROVE  [Stream!Deliver]_delivered
  OBVIOUS
<1>1. CASE ReadFromQueue
  <2> DEFINE id == Head(ackQueue)
  <2>1. ackQueue # << >>
    BY <1>1 DEF ReadFromQueue
  <2>2. id \in 0..MaxId
    BY <2>1, ConstantsAssumption DEF TypeOK
  <2>3. CASE CanRead(id)
    <3>1. Deliver(id)
      BY <1>1, <2>3 DEF ReadFromQueue
    <3>2. QED
      BY <2>2, <2>3, <3>1, DeliverRefines DEF CanRead
  <2>4. CASE ~CanRead(id)
    BY <1>1, <2>4 DEF ReadFromQueue
  <2>5. QED
    BY <2>3, <2>4
<1>2. CASE ReadFromConn
  <2>1. PICK p \in wire :
            \/ /\ CanRead(ReadPacket(p))
               /\ Deliver(ReadPacket(p))
            \/ /\ ~CanRead(ReadPacket(p))
               /\ UNCHANGED delivered
    BY <1>2 DEF ReadFromConn
  <2>2. ReadPacket(p) \in 0..MaxId
    BY <2>1, ConstantsAssumption DEF TypeOK, ReadPacket, Packets, ControlPkt, AckPkt, Ids
  <2>3. QED
    BY <2>1, <2>2, DeliverRefines DEF CanRead
<1>3. CASE ~ReadFromQueue /\ ~ReadFromConn
  BY <1>3 DEF Next, Client, Peer, Carrier, vars, ReadSelect, PeerSendNew,
     PeerRetransmit, PeerSendAck, PeerRecvAck, LosePacket, LoseAck
<1>4. QED
  BY <1>1, <1>2, <1>3

(* TLSConn.Read implements the exactly-once, in-order stream of control   *)
(* records, for every number of packets, window and queue capacity, and   *)
(* whatever the carrier loses, duplicates or reorders.                    *)
THEOREM StreamRefinement == Spec => ImplementsStream
<1>1. Init => Stream!Init
  BY DEF Init, Stream!Init
<1>3. QED
  BY <1>1, StepRefines, TypeCorrect, DeliverySafety, PTL
     DEF Spec, ImplementsStream, Stream!Spec

=============================================================================
