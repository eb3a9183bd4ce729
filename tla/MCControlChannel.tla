-------------------------- MODULE MCControlChannel --------------------------
(* Small instances of ControlChannel for TLC.                              *)
EXTENDS ControlChannel

(* Three control packets with a window of two: enough for a packet to      *)
(* overtake another and for a retransmission to arrive after delivery.     *)
MCMaxId == 3
MCWindow == 2
MCQueueCap == 2
MCMaxPeerAcks == 1
=============================================================================
