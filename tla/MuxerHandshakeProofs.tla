------------------------ MODULE MuxerHandshakeProofs ------------------------
(***************************************************************************)
(* Proofs that the handshake driver of src/vpn/muxer.go implements the     *)
(* stage machine HandshakeStages, and that Handshake returns nil only for  *)
(* a handshake whose results are all in place; and that the user's Read    *)
(* returns the decrypted pieces in order.                                  *)
(***************************************************************************)
EXTENDS MuxerHandshake, SequenceTheorems, TLAPS

(* The places of the driver after the server's reset reply was read, and   *)
(* after the remote key, and after SetupKeys.                              *)
PostReset == {"resetAck", "tls", "ctrl", "remoteKey", "keys", "push", "pushReply"}
PostKey   == {"keys", "push", "pushReply"}
PostSetup == {"push", "pushReply"}

Ready == remoteSet /\ remoteKey /\ keysSetup

(* The inductive invariant: each result is in place from the step that     *)
(* produces it on; the push reply is stored only as the driver returns     *)
(* nil; errch and the caller see nil only after that.                      *)
IInv ==
    /\ TypeOK
    /\ hs \in PostReset => remoteSet
    /\ hs \in PostKey => remoteKey
    /\ hs \in PostSetup => keysSetup
    /\ pushed => hs = "exit" /\ Ready
    /\ errch # "empty" => hs = "exit"
    /\ errch = "ok" => pushed
    /\ caller = "ok" => pushed

LEMMA NextCases ==
    ASSUME Next
    PROVE  \/ SendHardReset \/ ResetRead \/ SendACK \/ TLSHandshake
           \/ SendControlMessage \/ ReadAndLoadRemoteKey \/ SetupKeys
           \/ SendPushRequest \/ ReadPushReply
           \/ CallerResult \/ CallerRelErr \/ CallerTimeout
           \/ Deadline \/ ReliableError
           \/ ReadStart \/ HandleIncomingPacket \/ BufRead
BY DEF Next, Driver, Caller, User

LEMMA InitIInv == Init => IInv
<1> SUFFICES ASSUME Init PROVE IInv
  OBVIOUS
<1>1. 0 \in 0..PieceBound /\ << >> \in Seq(Nat)
  BY DEF PieceBound
<1>2. QED
  BY <1>1 DEF Init, IInv, TypeOK, HsPCs, PostReset, PostKey, PostSetup

LEMMA NextIInv == IInv /\ [Next]_vars => IInv'
<1> SUFFICES ASSUME IInv, [Next]_vars PROVE IInv'
  OBVIOUS
<1> USE DEF IInv, TypeOK, HsPCs, PostReset, PostKey, PostSetup, Ready, reader
<1>1. CASE SendHardReset
  BY <1>1 DEF SendHardReset, data
<1>2. CASE ResetRead
  BY <1>2 DEF ResetRead
<1>3. CASE SendACK
  BY <1>3 DEF SendACK, data
<1>4. CASE TLSHandshake
  BY <1>4 DEF TLSHandshake, Return, data
<1>5. CASE SendControlMessage
  BY <1>5 DEF SendControlMessage, Return, data
<1>6. CASE ReadAndLoadRemoteKey
  BY <1>6 DEF ReadAndLoadRemoteKey
<1>7. CASE SetupKeys
  BY <1>7 DEF SetupKeys, Return
<1>8. CASE SendPushRequest
  BY <1>8 DEF SendPushRequest, Return, data
<1>9. CASE ReadPushReply
  <2>1. CASE serverAuth /\ pushed' /\ hs' = "exit" /\ errch' = "ok"
    <3>1. hs = "pushReply" /\ UNCHANGED <<hasAuthInfo, serverAuth, caller, ctxDone,
            relErr, failed, remoteSet, remoteKey, keysSetup, lateReset, reader>>
          /\ authSeen' \in BOOLEAN
      BY <1>9 DEF ReadPushReply
    <3>2. QED
      BY <2>1, <3>1
  <2>2. CASE ~(serverAuth /\ pushed' /\ hs' = "exit" /\ errch' = "ok")
    <3>1. /\ UNCHANGED <<hs, errch, pushed, hasAuthInfo, serverAuth, caller,
                         ctxDone, relErr, failed, remoteSet, remoteKey,
                         keysSetup, lateReset, reader>>
          /\ authSeen' \in BOOLEAN
      BY <1>9, <2>2 DEF ReadPushReply, Return
    <3>2. QED
      BY <3>1
  <2>3. QED
    BY <2>1, <2>2
<1>10. CASE CallerResult
  BY <1>10 DEF CallerResult, data
<1>11. CASE CallerRelErr
  BY <1>11 DEF CallerRelErr, data
<1>12. CASE CallerTimeout
  BY <1>12 DEF CallerTimeout, data
<1>13. CASE Deadline
  BY <1>13 DEF Deadline, data
<1>14. CASE ReliableError
  BY <1>14 DEF ReliableError, data
<1>15. CASE UNCHANGED vars
  BY <1>15 DEF vars, reader
<1>16. CASE ReadStart
  BY <1>16 DEF ReadStart, data
<1>17. CASE HandleIncomingPacket
  <2>1. UNCHANGED <<hs, errch, caller, ctxDone, relErr, failed, data, lateReset, got>>
    BY <1>17 DEF HandleIncomingPacket
  <2>2. /\ rd' \in {"idle", "loop", "copy"} /\ rdRet' \in {"none", "data", "eof", "err"}
        /\ buf' \in Seq(Nat) /\ npieces' \in 0..PieceBound
    <3>1. CASE rd' = "idle" /\ rdRet' = "err" /\ UNCHANGED <<buf, npieces>>
      BY <3>1
    <3>2. CASE UNCHANGED <<rd, rdRet, buf, npieces>>
      BY <3>2
    <3>3. CASE \E k \in PiecesPerPacket :
                 /\ npieces + k <= PieceBound
                 /\ buf' = buf \o [i \in 1..k |-> npieces + i]
                 /\ npieces' = npieces + k
                 /\ rd' = "copy"
                 /\ UNCHANGED rdRet
      <4>1. PICK k \in PiecesPerPacket :
                 /\ npieces + k <= PieceBound
                 /\ buf' = buf \o [i \in 1..k |-> npieces + i]
                 /\ npieces' = npieces + k
                 /\ rd' = "copy"
                 /\ UNCHANGED rdRet
        BY <3>3
      <4>2. [i \in 1..k |-> npieces + i] \in Seq(Nat)
        BY DEF PiecesPerPacket
      <4>3. QED
        BY <4>1, <4>2 DEF PiecesPerPacket, PieceBound
    <3>4. QED
      BY <1>17, <3>1, <3>2, <3>3 DEF HandleIncomingPacket
  <2>3. QED
    BY <2>1, <2>2 DEF data
<1>18. CASE BufRead
  <2>1. UNCHANGED <<hs, errch, caller, ctxDone, relErr, failed, data, lateReset, npieces>>
        /\ rd' = "idle" /\ rdRet' \in {"eof", "data"}
    BY <1>18 DEF BufRead
  <2>2. buf' \in Seq(Nat) /\ got' \in Seq(Nat)
    <3>1. CASE buf = << >>
      BY <1>18, <3>1 DEF BufRead
    <3>2. CASE buf # << >>
      <4>1. got' = Append(got, Head(buf)) /\ buf' = Tail(buf)
        BY <1>18, <3>2 DEF BufRead
      <4>2. Head(buf) \in Nat /\ Tail(buf) \in Seq(Nat)
        BY <3>2
      <4>3. QED
        BY <4>1, <4>2
    <3>3. QED
      BY <3>1, <3>2
  <2>3. QED
    BY <2>1, <2>2 DEF data
<1>19. QED
  BY <1>1, <1>2, <1>3, <1>4, <1>5, <1>6, <1>7, <1>8, <1>9, <1>10, <1>11,
     <1>12, <1>13, <1>14, <1>15, <1>16, <1>17, <1>18, NextCases

(* Every variable of the handshake keeps the type of the Go value it      *)
(* models in every reachable state: the stage, the error channel, the      *)
(* caller's result and the session flags set by the reset, key and         *)
(* options steps.                                                          *)
THEOREM TypeCorrect == Spec => []TypeOK
<1>1. IInv => TypeOK
  BY DEF IInv
<1>2. QED
  BY InitIInv, NextIInv, <1>1, PTL DEF Spec

(* Handshake returns nil only when the remote session id, the remote key,  *)
(* the data-channel keys and the pushed options are all in place, whatever *)
(* the I/O calls return and however the deadline races the driver.         *)
THEOREM OkMeansReadyHolds == Spec => []OkMeansReady
<1>1. IInv => OkMeansReady
  BY DEF IInv, OkMeansReady, Ready
<1>2. QED
  BY InitIInv, NextIInv, <1>1, PTL DEF Spec

-----------------------------------------------------------------------------
(* The bytes Read has returned, followed by what bufReader still holds,    *)
(* are the pieces in the order the data packets carried them.  Only        *)
(* handleIncomingPacket's bufReader.Write and bufReader.Read touch them.   *)
LEMMA ReadStep == IInv /\ ReadInOrder /\ [Next]_vars => ReadInOrder'
<1> SUFFICES ASSUME IInv, ReadInOrder, [Next]_vars PROVE ReadInOrder'
  OBVIOUS
<1> DEFINE Pieces(n) == [i \in 1..n |-> i]
<1>1. got \in Seq(Nat) /\ buf \in Seq(Nat) /\ npieces \in 0..PieceBound
  BY DEF IInv, TypeOK
<1>2. got \o buf = Pieces(npieces)
  BY DEF ReadInOrder
<1>3. CASE UNCHANGED <<got, buf, npieces>>
  BY <1>2, <1>3 DEF ReadInOrder
<1>4. CASE HandleIncomingPacket /\ ~UNCHANGED <<got, buf, npieces>>
  <2>1. PICK k \in PiecesPerPacket :
             /\ buf' = buf \o [i \in 1..k |-> npieces + i]
             /\ npieces' = npieces + k
             /\ got' = got
    BY <1>4 DEF HandleIncomingPacket
  <2> DEFINE S == [i \in 1..k |-> npieces + i]
  <2>2. S \in Seq(Nat) /\ k \in Nat
    BY <1>1 DEF PiecesPerPacket
  <2>3. got' \o buf' = Pieces(npieces) \o S
    <3>1. (got \o buf) \o S = got \o (buf \o S)
      BY <1>1, <2>2, ConcatAssociative
    <3>2. QED
      BY <1>2, <2>1, <3>1
  <2>4. Pieces(npieces) \o S = Pieces(npieces + k)
    <3>1. Pieces(npieces) \in Seq(Nat) /\ Pieces(npieces + k) \in Seq(Nat)
      BY <1>1, <2>2
    <3>2. Len(Pieces(npieces) \o S) = npieces + k
      BY <1>1, <2>2, <3>1, ConcatProperties
    <3>3. \A i \in 1..(npieces + k) : (Pieces(npieces) \o S)[i] = i
      BY <1>1, <2>2, <3>1, ConcatProperties
    <3>4. QED
      BY <1>1, <2>2, <3>1, <3>2, <3>3, ConcatProperties, SeqEqual
  <2>5. QED
    BY <2>1, <2>3, <2>4 DEF ReadInOrder
<1>5. CASE BufRead /\ buf # << >>
  <2>1. got' = Append(got, Head(buf)) /\ buf' = Tail(buf) /\ npieces' = npieces
    BY <1>5 DEF BufRead
  <2>2. Head(buf) \in Nat /\ Tail(buf) \in Seq(Nat)
    BY <1>1, <1>5, HeadTailProperties
  <2>3. buf = << Head(buf) >> \o Tail(buf)
    <3>1. << Head(buf) >> \o Tail(buf) \in Seq(Nat)
      BY <2>2, ConcatProperties
    <3>2. Len(<< Head(buf) >> \o Tail(buf)) = Len(buf)
      BY <1>1, <1>5, <2>2, HeadTailProperties, ConcatProperties
    <3>3. \A i \in 1..Len(buf) : (<< Head(buf) >> \o Tail(buf))[i] = buf[i]
      BY <1>1, <1>5, <2>2, HeadTailProperties, ConcatProperties
    <3>4. QED
      BY <1>1, <3>1, <3>2, <3>3, SeqEqual
  <2>4. got' \o buf' = got \o buf
    BY <1>1, <2>1, <2>2, <2>3, AppendIsConcat, ConcatAssociative
  <2>5. QED
    BY <1>2, <2>1, <2>4 DEF ReadInOrder
<1>6. QED
  <2>1. HandleIncomingPacket => UNCHANGED got
    BY DEF HandleIncomingPacket
  <2>2. BufRead /\ buf = << >> => UNCHANGED <<got, buf, npieces>>
    BY DEF BufRead
  <2>3. (Next \/ UNCHANGED vars) /\ ~HandleIncomingPacket /\ ~BufRead
          => UNCHANGED <<got, buf, npieces>>
    BY DEF Next, Driver, Caller, User, vars, reader, SendHardReset, ResetRead,
           SendACK, TLSHandshake, SendControlMessage, ReadAndLoadRemoteKey,
           SetupKeys, SendPushRequest, ReadPushReply, CallerResult,
           CallerRelErr, CallerTimeout, Deadline, ReliableError, ReadStart
  <2>4. QED
    BY <1>3, <1>4, <1>5, <2>1, <2>2, <2>3

(* Read hands the user the decrypted bytes in the order the data packets   *)
(* carried them, never repeated and never skipped, for every interleaving  *)
(* of dropped, failing and data packets with the user's reads.             *)
THEOREM ReadInOrderHolds == Spec => []ReadInOrder
<1>1. Init => ReadInOrder
  BY DEF Init, ReadInOrder
<1>2. QED
  BY <1>1, InitIInv, NextIInv, ReadStep, PTL DEF Spec

-----------------------------------------------------------------------------
(* The refinement.                                                         *)

abs == <<StageOf, OutcomeOf>>

(* The stage of each place of the driver.                                  *)
LEMMA StageValues ==
    ASSUME TypeOK
    PROVE  /\ hs \in {"reset", "resetRead", "resetAck"} => StageOf = "reset"
           /\ hs = "tls" => StageOf = "tls"
           /\ hs \in {"ctrl", "remoteKey", "keys", "push", "pushReply"}
                 => StageOf = "data"
           /\ hs = "exit" /\ pushed => StageOf = "done"
           /\ hs = "exit" /\ ~pushed => StageOf = "error"
BY DEF StageOf, TypeOK, HsPCs

LEMMA StageValuesNext ==
    ASSUME TypeOK'
    PROVE  /\ hs' \in {"reset", "resetRead", "resetAck"} => StageOf' = "reset"
           /\ hs' = "tls" => StageOf' = "tls"
           /\ hs' \in {"ctrl", "remoteKey", "keys", "push", "pushReply"}
                 => StageOf' = "data"
           /\ hs' = "exit" /\ pushed' => StageOf' = "done"
           /\ hs' = "exit" /\ ~pushed' => StageOf' = "error"
BY DEF StageOf, TypeOK, HsPCs

(* A driver step that stays in its stage, and leaves the caller alone, is  *)
(* a stutter of the stage machine.                                         *)
LEMMA DriverStutter ==
    ASSUME TypeOK, TypeOK', UNCHANGED caller, StageOf' = StageOf
    PROVE  UNCHANGED abs
BY DEF abs, OutcomeOf

(* A driver step from stage s to Succ[s], with the caller waiting or not.   *)
LEMMA DriverAdvance ==
    ASSUME NEW s \in {"reset", "tls", "data"},
           StageOf = s, StageOf' = Stages!Succ[s], UNCHANGED caller
    PROVE  Stages!Advance
BY DEF Stages!Advance, Stages!Succ, OutcomeOf

LEMMA DriverFail ==
    ASSUME NEW s \in {"reset", "tls", "data"},
           StageOf = s, StageOf' = "error", UNCHANGED caller
    PROVE  Stages!Fail
BY DEF Stages!Fail, Stages!Succ, OutcomeOf

LEMMA StepRefines == IInv /\ [Next]_vars => [Stages!Next]_abs
<1> SUFFICES ASSUME IInv, [Next]_vars PROVE [Stages!Next]_abs
  OBVIOUS
<1>0. IInv'
  BY NextIInv
<1>00. TypeOK /\ TypeOK'
  BY <1>0 DEF IInv
<1> USE DEF IInv
<1>a. StageValues!2!1 /\ StageValues!2!2 /\ StageValues!2!3
      /\ StageValues!2!4 /\ StageValues!2!5
  BY <1>00, StageValues
<1>b. StageValuesNext!2!1 /\ StageValuesNext!2!2 /\ StageValuesNext!2!3
      /\ StageValuesNext!2!4 /\ StageValuesNext!2!5
  BY <1>00, StageValuesNext
<1>1. CASE SendHardReset
  <2>1. hs \in {"reset", "resetRead", "resetAck"}
        /\ hs' \in {"reset", "resetRead", "resetAck"}
        /\ UNCHANGED caller
    BY <1>1 DEF SendHardReset
  <2>2. QED
    BY <2>1, <1>a, <1>b, <1>00, DriverStutter
<1>2. CASE ResetRead
  <2>1. hs \in {"reset", "resetRead", "resetAck"}
        /\ hs' \in {"reset", "resetRead", "resetAck"}
        /\ UNCHANGED caller
    BY <1>2 DEF ResetRead
  <2>2. QED
    BY <2>1, <1>a, <1>b, <1>00, DriverStutter
<1>3. CASE SendACK
  <2>1. hs = "resetAck" /\ hs' \in {"tls", "reset"} /\ UNCHANGED caller
    BY <1>3 DEF SendACK
  <2>2. CASE hs' = "reset"
    BY <2>1, <2>2, <1>a, <1>b, <1>00, DriverStutter
  <2>3. CASE hs' = "tls"
    <3>1. StageOf = "reset" /\ StageOf' = "tls"
      BY <2>1, <2>3, <1>a, <1>b
    <3>2. Stages!Succ["reset"] = "tls"
      BY DEF Stages!Succ
    <3>3. QED
      BY <2>1, <3>1, <3>2, DriverAdvance DEF Stages!Next
  <2>4. QED
    BY <2>1, <2>2, <2>3
(* A step of the data stage that either stays in it, moves on, or returns  *)
(* an error.                                                               *)
<1>4. CASE TLSHandshake
  <2>1. hs = "tls" /\ UNCHANGED <<caller, pushed>> /\ ~pushed
    BY <1>4 DEF TLSHandshake, data
  <2>2. hs' \in {"ctrl", "exit"}
    BY <1>4 DEF TLSHandshake, Return
  <2>3. CASE hs' = "ctrl"
    <3>1. StageOf = "tls" /\ StageOf' = "data" /\ Stages!Succ["tls"] = "data"
      BY <2>1, <2>3, <1>a, <1>b DEF Stages!Succ
    <3>2. QED
      BY <2>1, <3>1, DriverAdvance DEF Stages!Next
  <2>4. CASE hs' = "exit"
    <3>1. StageOf = "tls" /\ StageOf' = "error"
      BY <2>1, <2>4, <1>a, <1>b
    <3>2. QED
      BY <2>1, <3>1, DriverFail DEF Stages!Next
  <2>5. QED
    BY <2>2, <2>3, <2>4
<1>5. CASE SendControlMessage
  <2>1. hs = "ctrl" /\ UNCHANGED <<caller, pushed>> /\ ~pushed
        /\ hs' \in {"remoteKey", "exit"}
    BY <1>5 DEF SendControlMessage, Return, data
  <2>2. CASE hs' = "remoteKey"
    BY <2>1, <2>2, <1>a, <1>b, <1>00, DriverStutter
  <2>3. CASE hs' = "exit"
    <3>1. StageOf = "data" /\ StageOf' = "error"
      BY <2>1, <2>3, <1>a, <1>b
    <3>2. QED
      BY <2>1, <3>1, DriverFail DEF Stages!Next
  <2>4. QED
    BY <2>1, <2>2, <2>3
<1>6. CASE ReadAndLoadRemoteKey
  <2>1. hs = "remoteKey" /\ hs' \in {"remoteKey", "keys"} /\ UNCHANGED caller
    BY <1>6 DEF ReadAndLoadRemoteKey
  <2>2. QED
    BY <2>1, <1>a, <1>b, <1>00, DriverStutter
<1>7. CASE SetupKeys
  <2>1. hs = "keys" /\ UNCHANGED <<caller, pushed>> /\ ~pushed
        /\ hs' \in {"push", "exit"}
    BY <1>7 DEF SetupKeys, Return
  <2>2. CASE hs' = "push"
    BY <2>1, <2>2, <1>a, <1>b, <1>00, DriverStutter
  <2>3. CASE hs' = "exit"
    <3>1. StageOf = "data" /\ StageOf' = "error"
      BY <2>1, <2>3, <1>a, <1>b
    <3>2. QED
      BY <2>1, <3>1, DriverFail DEF Stages!Next
  <2>4. QED
    BY <2>1, <2>2, <2>3
<1>8. CASE SendPushRequest
  <2>1. hs = "push" /\ UNCHANGED <<caller, pushed>> /\ ~pushed
        /\ hs' \in {"pushReply", "exit"}
    BY <1>8 DEF SendPushRequest, Return, data
  <2>2. CASE hs' = "pushReply"
    BY <2>1, <2>2, <1>a, <1>b, <1>00, DriverStutter
  <2>3. CASE hs' = "exit"
    <3>1. StageOf = "data" /\ StageOf' = "error"
      BY <2>1, <2>3, <1>a, <1>b
    <3>2. QED
      BY <2>1, <3>1, DriverFail DEF Stages!Next
  <2>4. QED
    BY <2>1, <2>2, <2>3
<1>9. CASE ReadPushReply
  <2>1. hs = "pushReply" /\ UNCHANGED caller
    BY <1>9 DEF ReadPushReply
  <2>2. CASE hs' = "pushReply"
    BY <2>1, <2>2, <1>a, <1>b, <1>00, DriverStutter
  <2>3. CASE hs' # "pushReply"
    <3>1. hs' = "exit" /\ pushed'
      BY <1>9, <2>3 DEF ReadPushReply, Return
    <3>2. StageOf = "data" /\ StageOf' = "done" /\ Stages!Succ["data"] = "done"
      BY <2>1, <3>1, <1>a, <1>b DEF Stages!Succ
    <3>3. QED
      BY <2>1, <3>2, DriverAdvance DEF Stages!Next
  <2>4. QED
    BY <2>2, <2>3
<1>10. CASE CallerResult
  <2>1. caller = "wait" /\ errch # "empty" /\ caller' = errch
        /\ UNCHANGED <<hs, pushed>>
    BY <1>10 DEF CallerResult, data
  <2>2. UNCHANGED StageOf
    BY <2>1, <1>00 DEF StageOf
  <2>3. OutcomeOf = "pending"
    BY <2>1 DEF OutcomeOf
  <2>4. CASE errch = "ok"
    <3>1. hs = "exit" /\ pushed
      BY <2>4
    <3>2. StageOf = "done" /\ OutcomeOf' = "ok"
      BY <2>1, <2>4, <3>1, <1>a DEF OutcomeOf
    <3>3. QED
      BY <2>2, <2>3, <3>2 DEF Stages!Next, Stages!ReportOk
  <2>5. CASE errch # "ok"
    <3>1. OutcomeOf' = "failed"
      BY <2>1, <2>5, <1>00 DEF OutcomeOf, TypeOK
    <3>2. QED
      BY <2>2, <2>3, <3>1 DEF Stages!Next, Stages!ReportFailure
  <2>6. QED
    BY <2>4, <2>5
<1>11. CASE CallerRelErr \/ CallerTimeout
  <2>1. caller = "wait" /\ caller' \in {"relErr", "ctx"} /\ UNCHANGED <<hs, pushed>>
    BY <1>11 DEF CallerRelErr, CallerTimeout, data
  <2>2. UNCHANGED StageOf
    BY <2>1, <1>00 DEF StageOf
  <2>3. OutcomeOf = "pending" /\ OutcomeOf' = "failed"
    BY <2>1 DEF OutcomeOf
  <2>4. QED
    BY <2>2, <2>3 DEF Stages!Next, Stages!ReportFailure
<1>12. CASE Deadline \/ ReliableError \/ UNCHANGED vars
            \/ ReadStart \/ HandleIncomingPacket \/ BufRead
  <2>1. UNCHANGED <<hs, pushed, caller>>
    BY <1>12 DEF Deadline, ReliableError, vars, data, ReadStart,
       HandleIncomingPacket, BufRead
  <2>2. QED
    BY <2>1 DEF abs, StageOf, OutcomeOf
<1>13. QED
  BY <1>1, <1>2, <1>3, <1>4, <1>5, <1>6, <1>7, <1>8, <1>9, <1>10, <1>11,
     <1>12, NextCases

(* The driver implements the stage machine: it goes through the hard       *)
(* reset, the TLS handshake and the data set-up in that order, never back, *)
(* and Handshake reports success only once the handshake is done.         *)
THEOREM Refinement == Spec => ImplementsStages
<1>1. Init => Stages!Init
  BY DEF Init, Stages!Init, StageOf, OutcomeOf
<1>2. []IInv /\ [][Next]_vars => [][Stages!Next]_abs
  BY StepRefines, PTL
<1>3. QED
  BY <1>1, <1>2, InitIInv, NextIInv, PTL DEF Spec, ImplementsStages,
     Stages!Spec, abs

=============================================================================
