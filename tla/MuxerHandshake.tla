--------------------------- MODULE MuxerHandshake ---------------------------
(***************************************************************************)
(* The handshake driver of the older vpn package (src/vpn/muxer.go):       *)
(* Handshake runs handshake() on a goroutine and waits, in one select, for *)
(* its result on errch, for an error of the reliable transport, or for the *)
(* context's deadline, on which it sets m.failed.  handshake() retries     *)
(* Reset until it succeeds, runs the TLS handshake, and InitDataWithRemote *)
(* Key: control message, a retry loop reading the remote key, SetupKeys,   *)
(* push request, and a retry loop reading the push reply.                  *)
(*                                                                         *)
(* After Handshake returns nil, the user calls Read: handleIncomingPacket *)
(* reads packets until one decrypts, writes its plaintext into bufReader, *)
(* and Read returns what fits into the user's buffer.  A plaintext is a   *)
(* number of pieces the size of that buffer; pieces are numbered in the   *)
(* order they were decrypted.                                              *)
(*                                                                         *)
(* Each outcome of an I/O call (readPacket, SendHardReset, SendACK, the    *)
(* TLS handshake, reads and writes over TLS) is a nondeterministic choice  *)
(* between success and an error.  Fixed for a run: whether the options    *)
(* carry credentials, and whether the server accepts them or answers the   *)
(* push request with AUTH_FAILED.                                          *)
(***************************************************************************)
EXTENDS Naturals, Sequences

VARIABLES
    hasAuthInfo, \* m.options.hasAuthInfo()
    serverAuth,  \* the server accepts the client's credentials
    hs,          \* where the handshake goroutine is
    errch,       \* the buffered errch: "empty", "ok" (nil) or "err"
    caller,      \* Handshake: "wait", or what it returned: "ok", "err", "ctx", "relErr"
    ctxDone,     \* the context's deadline has passed
    relErr,      \* the reliable transport has sent on errChan
    failed,      \* m.failed
    remoteSet,   \* r.session.RemoteSessionID was set from a reset reply
    remoteKey,   \* the remote key was loaded
    keysSetup,   \* m.data.SetupKeys succeeded
    pushed,      \* the tunnel's ip, gw, peer id came from a push reply
    authSeen,    \* readPushReply has read an AUTH_FAILED reply
    lateReset,   \* a hard reset was sent after Handshake returned
    rd,          \* the user's Read: "idle", "loop" (handleIncomingPacket), "copy"
    rdRet,       \* what the last Read returned: "none", "data", "eof", "err"
    buf,         \* m.bufReader: the pieces not read yet
    got,         \* the pieces Read has returned, in order
    npieces      \* pieces decrypted so far

reader == <<rd, rdRet, buf, got, npieces>>

vars == <<hasAuthInfo, serverAuth, hs, errch, caller, ctxDone, relErr, failed, remoteSet, remoteKey,
          keysSetup, pushed, authSeen, lateReset, reader>>

data == <<hasAuthInfo, serverAuth, remoteSet, remoteKey, keysSetup, pushed, authSeen>>

(* Bound on the pieces decrypted in a behaviour, and the pieces one        *)
(* plaintext may hold (0: an empty plaintext).                             *)
PieceBound == 3
PiecesPerPacket == 0..2

HsPCs == {"reset", "resetRead", "resetAck", "tls", "ctrl", "remoteKey",
          "keys", "push", "pushReply", "exit"}

-----------------------------------------------------------------------------
Init ==
    /\ hasAuthInfo \in BOOLEAN
    /\ serverAuth \in BOOLEAN
    /\ hs = "reset"
    /\ errch = "empty"
    /\ caller = "wait"
    /\ ctxDone = FALSE
    /\ relErr = FALSE
    /\ failed = FALSE
    /\ remoteSet = FALSE
    /\ remoteKey = FALSE
    /\ keysSetup = FALSE
    /\ pushed = FALSE
    /\ authSeen = FALSE
    /\ lateReset = FALSE
    /\ rd = "idle"
    /\ rdRet = "none"
    /\ buf = << >>
    /\ got = << >>
    /\ npieces = 0

(* handshake() returns r: the deferred ticker stop, then `errch <- r`.      *)
Return(r) == hs' = "exit" /\ errch' = r

(* Reset: SendHardReset; on error Reset returns it and the loop in         *)
(* handshake() calls Reset again.                                          *)
SendHardReset ==
    /\ hs = "reset"
    /\ lateReset' = (lateReset \/ caller # "wait")
    /\ hs' \in {"reset", "resetRead"}
    /\ UNCHANGED <<errch, caller, ctxDone, relErr, failed, data, reader>>

(* One turn of Reset's read loop.  m.failed is written by the caller's     *)
(* goroutine with no synchronisation: a read after the write may still     *)
(* see FALSE.  Seen TRUE, Reset returns an error and handshake() retries   *)
(* from SendHardReset.  Otherwise readPacket fails or returns a packet    *)
(* that is not 26 bytes long (continue), or the 26-byte reply: its remote  *)
(* session id is stored (ParseHardReset's error is not checked).          *)
ResetRead ==
    /\ hs = "resetRead"
    /\ \/ /\ failed
          /\ hs' = "reset"
          /\ UNCHANGED remoteSet
       \/ /\ UNCHANGED <<hs, remoteSet>>
       \/ /\ hs' = "resetAck"
          /\ remoteSet' = TRUE
    /\ UNCHANGED <<hasAuthInfo, serverAuth, errch, caller, ctxDone, relErr,
                   failed, remoteKey, keysSetup, pushed, authSeen, lateReset, reader>>

(* SendACK for packet id 0; on error Reset fails and is called again.       *)
SendACK ==
    /\ hs = "resetAck"
    /\ hs' \in {"tls", "reset"}
    /\ UNCHANGED <<errch, caller, ctxDone, relErr, failed, data, lateReset, reader>>

(* Mutant: a failed TLS handshake starts over from the hard reset.          *)
TLSHandshakeRetry ==
    /\ hs = "tls"
    /\ hs' \in {"ctrl", "reset"}
    /\ UNCHANGED <<errch, caller, ctxDone, relErr, failed, data, lateReset, reader>>

(* The option check, the certificate and TLS configuration, and the TLS    *)
(* handshake over the reliable transport: any failure returns it.          *)
TLSHandshake ==
    /\ hs = "tls"
    /\ IF hasAuthInfo
       THEN \/ /\ hs' = "ctrl" /\ UNCHANGED errch
            \/ Return("err")
       ELSE Return("err")
    /\ UNCHANGED <<caller, ctxDone, relErr, failed, data, lateReset, reader>>

(* InitDataWithRemoteKey 1: sendControlMessage, or return its error.        *)
SendControlMessage ==
    /\ hs = "ctrl"
    /\ \/ /\ hs' = "remoteKey" /\ UNCHANGED errch
       \/ Return("err")
    /\ UNCHANGED <<caller, ctxDone, relErr, failed, data, lateReset, reader>>

(* InitDataWithRemoteKey 2: readAndLoadRemoteKey until it succeeds; a read *)
(* error, a message without the null header or a parse error is retried.   *)
ReadAndLoadRemoteKey ==
    /\ hs = "remoteKey"
    /\ \/ UNCHANGED <<hs, remoteKey>>
       \/ /\ hs' = "keys"
          /\ remoteKey' = TRUE
    /\ UNCHANGED <<hasAuthInfo, serverAuth, errch, caller, ctxDone, relErr,
                   failed, remoteSet, keysSetup, pushed, authSeen, lateReset, reader>>

(* Mutant: the key set-up is skipped.                                       *)
SetupKeysSkipped ==
    /\ hs = "keys"
    /\ hs' = "push"
    /\ UNCHANGED <<errch, caller, ctxDone, relErr, failed, data, lateReset, reader>>

(* InitDataWithRemoteKey 3: ActiveKey and SetupKeys, or return the error.  *)
SetupKeys ==
    /\ hs = "keys"
    /\ \/ /\ hs' = "push"
          /\ keysSetup' = TRUE
          /\ UNCHANGED errch
       \/ /\ Return("err")
          /\ UNCHANGED keysSetup
    /\ UNCHANGED <<hasAuthInfo, serverAuth, caller, ctxDone, relErr, failed,
                   remoteSet, remoteKey, pushed, authSeen, lateReset, reader>>

(* InitDataWithRemoteKey 4: sendPushRequest, or return its error.           *)
SendPushRequest ==
    /\ hs = "push"
    /\ \/ /\ hs' = "pushReply" /\ UNCHANGED errch
       \/ Return("err")
    /\ UNCHANGED <<caller, ctxDone, relErr, failed, data, lateReset, reader>>

(* readPushReply until it succeeds: a read error, an AUTH_FAILED reply     *)
(* (errBadAuth) or another reply is retried after a random sleep.  On a    *)
(* push reply the tunnel info is stored; then SetPeerID, the              *)
(* DataInitDone event, the doneHandshake send, and handshake() returns nil.*)
ReadPushReply ==
    /\ hs = "pushReply"
    /\ \/ UNCHANGED <<hs, errch, pushed, authSeen>>
       \/ /\ ~serverAuth
          /\ authSeen' = TRUE
          /\ UNCHANGED <<hs, errch, pushed>>
       \/ /\ serverAuth
          /\ pushed' = TRUE
          /\ Return("ok")
          /\ UNCHANGED authSeen
    /\ UNCHANGED <<hasAuthInfo, serverAuth, caller, ctxDone, relErr, failed,
                   remoteSet, remoteKey, keysSetup, lateReset, reader>>

-----------------------------------------------------------------------------
(* Mutant: the select takes errch before anything was sent on it.         *)
CallerResultNoWait ==
    /\ caller = "wait"
    /\ caller' = errch
    /\ errch' = "empty"
    /\ UNCHANGED <<hs, ctxDone, relErr, failed, data, lateReset, reader>>

(* Handshake's select: the result of handshake() on errch.                 *)
CallerResult ==
    /\ caller = "wait"
    /\ errch # "empty"
    /\ caller' = errch
    /\ errch' = "empty"
    /\ UNCHANGED <<hs, ctxDone, relErr, failed, data, lateReset, reader>>

(* Handshake's select: an error on the reliable transport's errChan.       *)
CallerRelErr ==
    /\ caller = "wait"
    /\ relErr
    /\ caller' = "relErr"
    /\ UNCHANGED <<hs, errch, ctxDone, relErr, failed, data, lateReset, reader>>

(* Handshake's select: ctx.Done(); it sets m.failed and returns ctx.Err(). *)
CallerTimeout ==
    /\ caller = "wait"
    /\ ctxDone
    /\ caller' = "ctx"
    /\ failed' = TRUE
    /\ UNCHANGED <<hs, errch, ctxDone, relErr, data, lateReset, reader>>

(* The environment: the deadline passes; the reliable transport fails.     *)
Deadline ==
    /\ ~ctxDone
    /\ ctxDone' = TRUE
    /\ UNCHANGED <<hs, errch, caller, relErr, failed, data, lateReset, reader>>

ReliableError ==
    /\ ~relErr
    /\ relErr' = TRUE
    /\ UNCHANGED <<hs, errch, caller, ctxDone, failed, data, lateReset, reader>>

-----------------------------------------------------------------------------
(* The user calls Read once Handshake has returned nil.                    *)
ReadStart ==
    /\ caller = "ok"
    /\ rd = "idle"
    /\ rd' = "loop"
    /\ UNCHANGED <<hs, errch, caller, ctxDone, relErr, failed, data, lateReset,
                   rdRet, buf, got, npieces>>

(* Mutant: the plaintext replaces what bufReader held.                      *)
HandleIncomingPacketReset ==
    /\ rd = "loop"
    /\ \E k \in PiecesPerPacket :
          /\ npieces + k <= PieceBound
          /\ buf' = [i \in 1..k |-> npieces + i]
          /\ npieces' = npieces + k
          /\ rd' = "copy"
    /\ UNCHANGED <<hs, errch, caller, ctxDone, relErr, failed, data, lateReset,
                   rdRet, got>>

(* One call of handleIncomingPacket(nil) in Read's loop.  readPacket may   *)
(* fail, the packet may not parse, or ReadPacket may fail to decrypt it:   *)
(* Read returns the error.  A ping (answered with handleDataPing, whose    *)
(* error is only logged), a control packet, an ACK or another non-data    *)
(* packet is dropped and the loop reads again.  A data packet's plaintext *)
(* is written to bufReader and the loop ends.                             *)
HandleIncomingPacket ==
    /\ rd = "loop"
    /\ \/ /\ rd' = "idle"
          /\ rdRet' = "err"
          /\ UNCHANGED <<buf, npieces>>
       \/ UNCHANGED <<rd, rdRet, buf, npieces>>
       \/ \E k \in PiecesPerPacket :
            /\ npieces + k <= PieceBound
            /\ buf' = buf \o [i \in 1..k |-> npieces + i]
            /\ npieces' = npieces + k
            /\ rd' = "copy"
            /\ UNCHANGED rdRet
    /\ UNCHANGED <<hs, errch, caller, ctxDone, relErr, failed, data, lateReset,
                   got>>

(* m.bufReader.Read(b): one piece, or io.EOF when the buffer is empty.     *)
BufRead ==
    /\ rd = "copy"
    /\ rd' = "idle"
    /\ IF buf = << >>
       THEN /\ rdRet' = "eof"
            /\ UNCHANGED <<buf, got>>
       ELSE /\ rdRet' = "data"
            /\ got' = Append(got, Head(buf))
            /\ buf' = Tail(buf)
    /\ UNCHANGED <<hs, errch, caller, ctxDone, relErr, failed, data, lateReset,
                   npieces>>

User == ReadStart \/ HandleIncomingPacket \/ BufRead

Driver == SendHardReset \/ ResetRead \/ SendACK \/ TLSHandshake
          \/ SendControlMessage \/ ReadAndLoadRemoteKey \/ SetupKeys
          \/ SendPushRequest \/ ReadPushReply
Caller == CallerResult \/ CallerRelErr \/ CallerTimeout

Next == Driver \/ Caller \/ Deadline \/ ReliableError \/ User

(* Both goroutines are scheduled eventually and the deadline's timer fires. *)
Fairness == WF_vars(Driver) /\ WF_vars(Caller) /\ WF_vars(Deadline)

Spec == Init /\ [][Next]_vars
FairSpec == Spec /\ Fairness

-----------------------------------------------------------------------------
(* The stage machine this driver implements.                               *)
StageOf ==
    CASE hs \in {"reset", "resetRead", "resetAck"} -> "reset"
      [] hs = "tls"                                 -> "tls"
      [] hs \in {"ctrl", "remoteKey", "keys", "push", "pushReply"} -> "data"
      [] hs = "exit" /\ pushed                      -> "done"
      [] OTHER                                      -> "error"

OutcomeOf ==
    CASE caller = "wait" -> "pending"
      [] caller = "ok"   -> "ok"
      [] OTHER           -> "failed"

Stages == INSTANCE HandshakeStages WITH stage <- StageOf, outcome <- OutcomeOf

(* The driver goes through the hard reset, TLS and data set-up in order,   *)
(* never back, and Handshake reports success only for a finished one.      *)
ImplementsStages == Stages!Spec

(* Each variable has its type; Handshake returns only once it has a result.*)
TypeOK ==
    /\ {hasAuthInfo, serverAuth} \subseteq BOOLEAN
    /\ hs \in HsPCs
    /\ errch \in {"empty", "ok", "err"}
    /\ caller \in {"wait", "ok", "err", "ctx", "relErr"}
    /\ {ctxDone, relErr, failed, lateReset} \subseteq BOOLEAN
    /\ {remoteSet, remoteKey, keysSetup, pushed, authSeen} \subseteq BOOLEAN
    /\ rd \in {"idle", "loop", "copy"}
    /\ rdRet \in {"none", "data", "eof", "err"}
    /\ buf \in Seq(Nat) /\ got \in Seq(Nat)
    /\ npieces \in 0..PieceBound

(* When Handshake returns nil the tunnel is ready: the remote session id,  *)
(* the remote key, the data-channel keys and the pushed options are all in *)
(* place (the caller goes on to use them).                                 *)
OkMeansReady ==
    caller = "ok" => remoteSet /\ remoteKey /\ keysSetup /\ pushed

(* Once Handshake has returned, the driver goroutine sends no more hard    *)
(* resets: a timed-out handshake stops talking to the server.              *)
NoResetAfterReturn == ~lateReset

(* Spec 6: an AUTH_FAILED reply makes Handshake fail with the error the    *)
(* handshake itself returns (errBadAuth), not with the context's timeout.  *)
AuthFailureReported == (authSeen /\ caller = "wait") ~> caller = "err"

(* The bytes Read returns are the decrypted plaintexts in the order they   *)
(* were decrypted, none lost or repeated, however Read calls with a short  *)
(* buffer interleave with new packets: what was returned, followed by what *)
(* bufReader still holds, is every piece decrypted so far.                 *)
ReadInOrder == got \o buf = [i \in 1..npieces |-> i]

=============================================================================
