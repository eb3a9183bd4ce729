--------------------- MODULE DataChannelWorkersProofs -----------------------
(***************************************************************************)
(* Proofs that the data-channel workers of src/unnamed/part_000 keep their *)
(* channels within capacity and encrypt only with a key installed, for     *)
(* every number of keys, packets and every channel capacity.               *)
(***************************************************************************)
EXTENDS DataChannelWorkers, TLAPS

USE WorkersAssumption

(* The inductive invariant.  Keys installed and keys waiting in keyReady   *)
(* never outnumber the keys sent; keepalives counted and packets waiting   *)
(* never outnumber the packets sent; a keyWorker about to signal newKey    *)
(* has installed a key and handed Ready to the TUN layer.                  *)
KeyCount  == keys + keyReady <= keysSent
PingCount == pings + Len(muxerToData) <= inSent
KeyFirst  == keyPC \in {"ready", "newKey"} => keys >= 1
ReadyFirst == keyPC = "newKey" => tunReady = "got"

IInv == TypeOK /\ KeyCount /\ PingCount /\ KeyFirst /\ ReadyFirst
        /\ EncryptsOnlyWithKey

LEMMA NextCases ==
    ASSUME Next
    PROVE  \/ UpRecv \/ UpDeliver \/ UpStop
           \/ DownKey \/ DownEncrypt \/ DownStop
           \/ KeyRecv \/ KeySignal \/ KeyStop
           \/ TLSKey \/ MuxerUp \/ MuxerDrain \/ TUNWrite \/ TUNRead
           \/ StartShutdown
BY DEF Next, Up, Down, KeyW, Env

LEMMA InitIInv == Init => IInv
<1> SUFFICES ASSUME Init PROVE IInv
  OBVIOUS
<1>1. << >> \in Seq(Kinds) /\ << >> \in Seq({"data", "pong"}) /\ Len(<< >>) = 0
  OBVIOUS
<1>2. 0 \in 0..MaxKeys /\ 0 \in 0..MaxIn /\ 0 \in 0..MaxOut /\ 0 \in 0..Cap
      /\ 0 <= Cap
  OBVIOUS
<1>3. TypeOK
  BY <1>1, <1>2 DEF Init, TypeOK
<1>4. QED
  BY <1>1, <1>3 DEF Init, IInv, KeyCount, PingCount, KeyFirst, ReadyFirst,
     EncryptsOnlyWithKey

LEMMA NextIInv == IInv /\ [Next]_vars => IInv'
<1> SUFFICES ASSUME IInv, [Next]_vars PROVE IInv'
  OBVIOUS
<1> USE DEF IInv, TypeOK, KeyCount, PingCount, KeyFirst, ReadyFirst,
            EncryptsOnlyWithKey, env, Exit
<1>1. CASE UpRecv
  <2>1. muxerToData # << >> /\ muxerToData' = Tail(muxerToData)
    BY <1>1 DEF UpRecv
  <2>2. muxerToData' \in Seq(Kinds) /\ Len(muxerToData') = Len(muxerToData) - 1
    BY <2>1
  <2>3. pings' \in {pings, pings + 1} /\ upPC' \in {"loop", "deliver"}
    BY <1>1 DEF UpRecv
  <2>4. QED
    BY <1>1, <2>2, <2>3 DEF UpRecv
<1>2. CASE UpDeliver
  BY <1>2 DEF UpDeliver, Kinds
<1>3. CASE UpStop
  BY <1>3 DEF UpStop
<1>4. CASE DownKey
  BY <1>4 DEF DownKey
<1>5. CASE DownEncrypt
  <2>1. toMuxer' \in Seq({"data", "pong"}) /\ Len(toMuxer') <= Cap
    <3>1. CASE toMuxer' = Append(toMuxer, "data") /\ Len(toMuxer) < Cap
      BY <3>1
    <3>2. CASE toMuxer' = toMuxer
      BY <3>2
    <3>3. QED
      BY <1>5, <3>1, <3>2 DEF DownEncrypt
  <2>2. downPC = "loop" /\ downPC' \in {"loop", "done"} /\ shutdown' \in BOOLEAN
    BY <1>5 DEF DownEncrypt
  <2>3. tunToData > 0 /\ tunToData' = tunToData - 1
    BY <1>5 DEF DownEncrypt
  <2>4. UNCHANGED <<upPC, keyPC, keys, keyReady, keysSent, inSent, outSent,
                    muxerToData, dataToTUN, tunReady, pings>>
    BY <1>5 DEF DownEncrypt
  <2>5. QED
    BY <2>1, <2>2, <2>3, <2>4
<1>6. CASE DownStop
  BY <1>6 DEF DownStop
<1>7. CASE KeyRecv
  BY <1>7 DEF KeyRecv
<1>8. CASE KeySignal
  BY <1>8 DEF KeySignal
<1>9. CASE KeyStop
  BY <1>9 DEF KeyStop
<1>10. CASE TLSKey
  BY <1>10 DEF TLSKey
<1>11. CASE MuxerUp
  <2>1. PICK k \in Kinds : muxerToData' = Append(muxerToData, k)
    BY <1>11 DEF MuxerUp
  <2>2. muxerToData' \in Seq(Kinds) /\ Len(muxerToData') = Len(muxerToData) + 1
    BY <2>1
  <2>3. QED
    BY <1>11, <2>2 DEF MuxerUp
<1>12. CASE MuxerDrain
  BY <1>12 DEF MuxerDrain
<1>13. CASE TUNWrite
  BY <1>13 DEF TUNWrite
<1>14. CASE TUNRead
  BY <1>14 DEF TUNRead
<1>15. CASE StartShutdown
  BY <1>15 DEF StartShutdown
<1>16. CASE UNCHANGED vars
  BY <1>16 DEF vars
<1>17. QED
  BY <1>1, <1>2, <1>3, <1>4, <1>5, <1>6, <1>7, <1>8, <1>9, <1>10, <1>11,
     <1>12, <1>13, <1>14, <1>15, <1>16, NextCases

(* No channel of the workers ever holds more than its capacity, and every  *)
(* counter stays within its bound, for every capacity and every bound.     *)
THEOREM TypeCorrect == Spec => []TypeOK
BY InitIInv, NextIInv, PTL DEF Spec, IInv

(* moveDownWorker encrypts only once keyWorker has installed a key: the    *)
(* unbuffered newKey handoff orders setupKeys before the first             *)
(* writePacket, however the goroutines interleave.                         *)
THEOREM KeyBeforeEncrypt == Spec => []EncryptsOnlyWithKey
BY InitIInv, NextIInv, PTL DEF Spec, IInv

(* Only DownKey takes moveDownWorker from its newKey select to the loop,  *)
(* and it meets a keyWorker at `ws.newKey <- true`, which KeyFirst and     *)
(* ReadyFirst say has installed a key and handed Ready over.               *)
LEMMA HandoffStep == IInv /\ [Next]_vars => KeyHandoff
<1> SUFFICES ASSUME IInv, [Next]_vars,
                    downPC = "waitKey", downPC' = "loop"
             PROVE  keys >= 1 /\ tunReady = "got"
  BY DEF KeyHandoff
<1>1. DownKey
  BY NextCases DEF vars, UpRecv, UpDeliver, UpStop, DownEncrypt, DownStop,
     KeyRecv, KeySignal, KeyStop, TLSKey, MuxerUp, MuxerDrain, TUNWrite,
     TUNRead, StartShutdown, Exit
<1>2. QED
  BY <1>1 DEF DownKey, IInv, KeyFirst, ReadyFirst

(* However the three workers and the TUN layer interleave, the encrypt    *)
(* loop opens only after a key is installed and Ready has been received.  *)
THEOREM KeyHandoffHolds == Spec => KeyHandoffOrder
BY InitIInv, NextIInv, HandoffStep, PTL DEF Spec, KeyHandoffOrder

=============================================================================
