------------------------- MODULE DataChannelWorkers -------------------------
(***************************************************************************)
(* The three goroutines of the data-channel service (src/unnamed/part_000, *)
(* package datachannel): moveUpWorker decrypts packets from the muxer and  *)
(* hands them to the TUN layer, moveDownWorker waits once for a key on     *)
(* newKey and then encrypts what the TUN layer writes, keyWorker installs  *)
(* each key from the TLS layer, sets S_GENERATED_KEYS (which sends on the  *)
(* session manager's Ready channel, see SessionManager) and signals        *)
(* newKey.  They stop on the workers manager's shutdown broadcast.          *)
(*                                                                         *)
(* The environment: the TLS layer sending keys on keyReady, the muxer      *)
(* filling muxerToData and draining dataOrControlToMuxer, and the TUN      *)
(* layer writing tunToData, reading dataToTUN and receiving Ready once.    *)
(* The TUN layer is a worker of the same manager: it stops reading on      *)
(* shutdown.  Payloads are abstracted to their kind: a keepalive "ping"    *)
(* (a 16-byte plaintext) or "data".                                        *)
(***************************************************************************)
EXTENDS Naturals, Sequences

CONSTANTS
    MaxKeys,   \* keys the TLS layer sends on keyReady
    MaxIn,     \* data packets the muxer passes up
    MaxOut,    \* payloads the TUN layer writes down
    Cap        \* capacity of each buffered channel

ASSUME WorkersAssumption ==
    /\ MaxKeys \in Nat
    /\ MaxIn \in Nat
    /\ MaxOut \in Nat
    /\ Cap \in Nat \ {0}

Kinds == {"data", "ping"}

VARIABLES
    upPC, downPC, keyPC,  \* where each worker is
    shutdown,             \* the ShouldShutdown channel is closed
    keys,                 \* keys installed by setupKeys
    keyReady,             \* keys waiting in the keyReady channel
    keysSent,             \* keys the TLS layer has sent
    muxerToData,          \* packets from the muxer, by kind
    inSent,               \* packets the muxer has passed up
    tunToData,            \* payloads waiting in tunToData
    outSent,              \* payloads the TUN layer has written
    dataToTUN,            \* plaintexts waiting for the TUN layer, by kind
    toMuxer,              \* encrypted packets in dataOrControlToMuxer, by kind
    tunReady,             \* the TUN layer's one receive from Ready: "wait" or "got"
    pings                 \* keepalives moveUpWorker has decrypted

vars == <<upPC, downPC, keyPC, shutdown, keys, keyReady, keysSent, muxerToData,
          inSent, tunToData, outSent, dataToTUN, toMuxer, tunReady, pings>>

env == <<keysSent, inSent, outSent>>

-----------------------------------------------------------------------------
(* StartWorkers: the three workers at the top of their loops; newKey is     *)
(* unbuffered, no key yet.                                                  *)
Init ==
    /\ upPC = "loop"
    /\ downPC = "waitKey"
    /\ keyPC = "loop"
    /\ shutdown = FALSE
    /\ keys = 0
    /\ keyReady = 0
    /\ keysSent = 0
    /\ muxerToData = <<>>
    /\ inSent = 0
    /\ tunToData = 0
    /\ outSent = 0
    /\ dataToTUN = <<>>
    /\ toMuxer = <<>>
    /\ tunReady = "wait"
    /\ pings = 0

(* The deferred OnWorkerDone and StartShutdown of every worker: the worker  *)
(* is done and the shutdown broadcast is (already) closed.                  *)
Exit(pcVar) == pcVar' = "done" /\ shutdown' = TRUE

(* moveUpWorker receives a packet.  readPacket fails without a key (the    *)
(* worker logs and continues); a 16-byte plaintext is printed and dropped; *)
(* anything else goes on to the blocking send to dataToTUN.                 *)
UpRecv ==
    /\ upPC = "loop"
    /\ muxerToData # <<>>
    /\ muxerToData' = Tail(muxerToData)
    /\ LET p == Head(muxerToData) IN
       IF keys = 0 THEN UNCHANGED <<upPC, pings>>
       ELSE IF p = "ping" THEN /\ pings' = pings + 1
                               /\ UNCHANGED upPC
       ELSE /\ upPC' = "deliver"
            /\ UNCHANGED pings
    /\ UNCHANGED <<downPC, keyPC, shutdown, keys, keyReady, env, tunToData,
                   dataToTUN, toMuxer, tunReady>>

(* Mutant: delivery to the TUN layer as if the channel had no bound.        *)
UpDeliverUnbounded ==
    /\ upPC = "deliver"
    /\ dataToTUN' = Append(dataToTUN, "data")
    /\ upPC' = "loop"
    /\ UNCHANGED <<downPC, keyPC, shutdown, keys, keyReady, env, muxerToData,
                   tunToData, toMuxer, tunReady, pings>>

(* `ws.dataToTUN <- decrypted`, outside any select.                         *)
UpDeliver ==
    /\ upPC = "deliver"
    /\ Len(dataToTUN) < Cap
    /\ dataToTUN' = Append(dataToTUN, "data")
    /\ upPC' = "loop"
    /\ UNCHANGED <<downPC, keyPC, shutdown, keys, keyReady, env, muxerToData,
                   tunToData, toMuxer, tunReady, pings>>

(* moveUpWorker's select takes the shutdown case.                           *)
UpStop ==
    /\ upPC = "loop"
    /\ shutdown
    /\ Exit(upPC)
    /\ UNCHANGED <<downPC, keyPC, keys, keyReady, env, muxerToData, tunToData,
                   dataToTUN, toMuxer, tunReady, pings>>

(* Mutant: moveDownWorker does not wait for the key.                        *)
DownKeySkipped ==
    /\ downPC = "waitKey"
    /\ downPC' = "loop"
    /\ UNCHANGED <<upPC, keyPC, shutdown, keys, keyReady, env, muxerToData,
                   tunToData, dataToTUN, toMuxer, tunReady, pings>>

(* moveDownWorker's outer select receives from newKey: keyWorker's          *)
(* `ws.newKey <- true` completes.  It never returns to this select.          *)
DownKey ==
    /\ downPC = "waitKey"
    /\ keyPC = "newKey"
    /\ downPC' = "loop"
    /\ keyPC' = "loop"
    /\ UNCHANGED <<upPC, shutdown, keys, keyReady, env, muxerToData,
                   tunToData, dataToTUN, toMuxer, tunReady, pings>>

(* moveDownWorker takes a payload and writePacket encrypts it (or fails:    *)
(* log and continue).  The inner select with a default then pushes it to    *)
(* the muxer, returns on shutdown, or drops it when the channel is full.   *)
DownEncrypt ==
    /\ downPC = "loop"
    /\ tunToData > 0
    /\ tunToData' = tunToData - 1
    /\ \/ UNCHANGED <<downPC, shutdown, toMuxer>>
       \/ /\ Len(toMuxer) < Cap
          /\ toMuxer' = Append(toMuxer, "data")
          /\ UNCHANGED <<downPC, shutdown>>
       \/ /\ shutdown
          /\ Exit(downPC)
          /\ UNCHANGED toMuxer
    /\ UNCHANGED <<upPC, keyPC, keys, keyReady, env, muxerToData, dataToTUN,
                   tunReady, pings>>

(* Either select of moveDownWorker takes the shutdown case.                 *)
DownStop ==
    /\ downPC \in {"waitKey", "loop"}
    /\ shutdown
    /\ Exit(downPC)
    /\ UNCHANGED <<upPC, keyPC, keys, keyReady, env, muxerToData, tunToData,
                   dataToTUN, toMuxer, tunReady, pings>>

(* keyWorker receives a key; setupKeys installs it (or fails: log and       *)
(* continue); then SetNegotiationState(S_GENERATED_KEYS) sends on Ready.    *)
KeyRecv ==
    /\ keyPC = "loop"
    /\ keyReady > 0
    /\ keyReady' = keyReady - 1
    /\ \/ UNCHANGED <<keyPC, keys>>
       \/ /\ keys' = keys + 1
          /\ keyPC' = "ready"
    /\ UNCHANGED <<upPC, downPC, shutdown, env, muxerToData, tunToData,
                   dataToTUN, toMuxer, tunReady, pings>>

(* `m.Ready <- true` inside SetNegotiationState meets the TUN layer's one   *)
(* receive; keyWorker goes on to `ws.newKey <- true`.                       *)
KeySignal ==
    /\ keyPC = "ready"
    /\ tunReady = "wait"
    /\ tunReady' = "got"
    /\ keyPC' = "newKey"
    /\ UNCHANGED <<upPC, downPC, shutdown, keys, keyReady, env, muxerToData,
                   tunToData, dataToTUN, toMuxer, pings>>

(* keyWorker's select takes the shutdown case.                              *)
KeyStop ==
    /\ keyPC = "loop"
    /\ shutdown
    /\ Exit(keyPC)
    /\ UNCHANGED <<upPC, downPC, keys, keyReady, env, muxerToData, tunToData,
                   dataToTUN, toMuxer, tunReady, pings>>

-----------------------------------------------------------------------------
(* The environment.                                                        *)

TLSKey ==
    /\ keysSent < MaxKeys
    /\ keysSent' = keysSent + 1
    /\ keyReady' = keyReady + 1
    /\ UNCHANGED <<upPC, downPC, keyPC, shutdown, keys, inSent, muxerToData,
                   outSent, tunToData, dataToTUN, toMuxer, tunReady, pings>>

MuxerUp ==
    /\ inSent < MaxIn
    /\ Len(muxerToData) < Cap
    /\ \E k \in Kinds : muxerToData' = Append(muxerToData, k)
    /\ inSent' = inSent + 1
    /\ UNCHANGED <<upPC, downPC, keyPC, shutdown, keys, keyReady, keysSent,
                   outSent, tunToData, dataToTUN, toMuxer, tunReady, pings>>

MuxerDrain ==
    /\ toMuxer # <<>>
    /\ toMuxer' = Tail(toMuxer)
    /\ UNCHANGED <<upPC, downPC, keyPC, shutdown, keys, keyReady, env,
                   muxerToData, tunToData, dataToTUN, tunReady, pings>>

TUNWrite ==
    /\ ~shutdown
    /\ outSent < MaxOut
    /\ tunToData < Cap
    /\ tunToData' = tunToData + 1
    /\ outSent' = outSent + 1
    /\ UNCHANGED <<upPC, downPC, keyPC, shutdown, keys, keyReady, keysSent,
                   inSent, muxerToData, dataToTUN, toMuxer, tunReady, pings>>

TUNRead ==
    /\ ~shutdown
    /\ dataToTUN # <<>>
    /\ dataToTUN' = Tail(dataToTUN)
    /\ UNCHANGED <<upPC, downPC, keyPC, shutdown, keys, keyReady, env,
                   muxerToData, tunToData, toMuxer, tunReady, pings>>

(* A fatal error elsewhere (muxer, TLS layer) starts the shutdown.          *)
StartShutdown ==
    /\ ~shutdown
    /\ shutdown' = TRUE
    /\ UNCHANGED <<upPC, downPC, keyPC, keys, keyReady, env, muxerToData,
                   tunToData, dataToTUN, toMuxer, tunReady, pings>>

Up == UpRecv \/ UpDeliver \/ UpStop
Down == DownKey \/ DownEncrypt \/ DownStop
KeyW == KeyRecv \/ KeySignal \/ KeyStop
Env == TLSKey \/ MuxerUp \/ MuxerDrain \/ TUNWrite \/ TUNRead \/ StartShutdown

Next == Up \/ Down \/ KeyW \/ Env

(* The Go scheduler runs every runnable goroutine eventually: weak fairness *)
(* for the workers and for the TUN reader and the muxer's drain.            *)
Fairness ==
    /\ WF_vars(Up) /\ WF_vars(Down) /\ WF_vars(KeyW)
    /\ WF_vars(TUNRead) /\ WF_vars(MuxerDrain)

Spec == Init /\ [][Next]_vars
FairSpec == Spec /\ Fairness

-----------------------------------------------------------------------------
(* Each variable has its type; no channel holds more than its capacity.    *)
TypeOK ==
    /\ upPC \in {"loop", "deliver", "done"}
    /\ downPC \in {"waitKey", "loop", "done"}
    /\ keyPC \in {"loop", "ready", "newKey", "done"}
    /\ shutdown \in BOOLEAN
    /\ keys \in 0..MaxKeys
    /\ keyReady \in 0..MaxKeys
    /\ keysSent \in 0..MaxKeys
    /\ muxerToData \in Seq(Kinds) /\ Len(muxerToData) <= Cap
    /\ inSent \in 0..MaxIn
    /\ tunToData \in 0..Cap
    /\ outSent \in 0..MaxOut
    /\ dataToTUN \in Seq(Kinds) /\ Len(dataToTUN) <= Cap
    /\ toMuxer \in Seq({"data", "pong"}) /\ Len(toMuxer) <= Cap
    /\ tunReady \in {"wait", "got"}
    /\ pings \in 0..MaxIn

(* moveDownWorker encrypts only once keyWorker has installed a key: the    *)
(* newKey handshake between the two goroutines orders setupKeys before     *)
(* the first writePacket (spec: DC blocks on KeyReady before encrypting).  *)
EncryptsOnlyWithKey == downPC = "loop" => keys >= 1

(* moveDownWorker leaves its newKey select for the encrypt loop only after *)
(* keyWorker has installed a key and its SetNegotiationState has handed    *)
(* Ready to the TUN layer: keyWorker signals newKey after both.            *)
KeyHandoff ==
    downPC = "waitKey" /\ downPC' = "loop" => keys >= 1 /\ tunReady = "got"

KeyHandoffOrder == [][KeyHandoff]_vars

(* Spec 5: once shutdown is broadcast every worker exits, so the workers   *)
(* manager's wait for them returns.                                        *)
ShutdownCompletes ==
    shutdown ~> (upPC = "done" /\ downPC = "done" /\ keyPC = "done")

=============================================================================
