--------------------------- MODULE SessionManager ---------------------------
(***************************************************************************)
(* The session manager of src/internal/session/manager.go: the object the  *)
(* goroutines of the newer stack share under one mutex.  It hands out the  *)
(* control and data packet ids (both counters start at 1 and stop at the   *)
(* largest id with ErrExpiredKey), keeps the remote session id and the     *)
(* negotiation state, and, on S_GENERATED_KEYS, signals the unbuffered     *)
(* Ready channel while still holding the mutex.                            *)
(*                                                                         *)
(* Callers are goroutines that may call any method concurrently (the type  *)
(* is documented "concurrency safe").  The reader of Ready is the TUN      *)
(* layer, which receives from it once, at start-up, and then asks for the  *)
(* tunnel info.  Each critical section is split at the statements whose    *)
(* interleaving matters: reading a counter, and incrementing it.           *)
(***************************************************************************)
EXTENDS Naturals, Sequences

CONSTANTS
    Callers,    \* goroutines that call the manager
    MaxPID,     \* largest packet id (math.MaxUint32 in the code)
    MaxKeys,    \* number of keys the key worker installs (S_GENERATED_KEYS)
    MaxRemoteSets, \* hard-reset replies handled with SetRemoteSessionID
    NoHolder    \* model value: the mutex is free

ASSUME ManagerAssumption ==
    /\ MaxPID \in Nat \ {0}
    /\ MaxKeys \in Nat
    /\ MaxRemoteSets \in Nat
    /\ NoHolder \notin Callers

(* model.NegotiationState values, in their order.                          *)
NegStates == {"S_ERROR", "S_UNDEF", "S_INITIAL", "S_PRE_START", "S_START",
              "S_SENT_KEY", "S_GOT_KEY", "S_ACTIVE", "S_GENERATED_KEYS"}

(* uint32 arithmetic, at the model's width: ids live in 0..MaxPID.          *)
PIDSpace == MaxPID + 1
Inc(x) == (x + 1) % PIDSpace

Kinds == {"control", "data"}

VARIABLES
    mu,           \* holder of m.mu, or NoHolder
    counter,      \* [Kinds -> ids]: localControlPacketID, localDataPacketID
    remoteSet,    \* remoteSessionID is Some
    remoteSets,   \* SetRemoteSessionID calls so far
    panicked,     \* runtimex.Assert failed: the process is gone
    negState,     \* m.negState
    pc,           \* [Callers -> place in the method being run]
    kind,         \* [Callers -> Kinds]: which counter a NewPacket call uses
    pid,          \* [Callers -> id]: the local pid read under the lock
    issued,       \* [Kinds -> Seq(ids)]: history of ids handed to callers
    keys,         \* S_GENERATED_KEYS transitions started so far
    tun           \* the TUN reader: "wait" on Ready, "info" wants the lock, "done"

vars == <<mu, counter, remoteSet, remoteSets, panicked, negState, pc, kind, pid, issued, keys, tun>>

PCs == {"idle", "read", "inc", "ready"}

-----------------------------------------------------------------------------
(* NewManager: both counters at 1 (0 is the hard reset's), no remote        *)
(* session id, negState the zero value S_UNDEF.                             *)
Init ==
    /\ mu = NoHolder
    /\ counter = [k \in Kinds |-> 1]
    /\ remoteSet = FALSE
    /\ remoteSets = 0
    /\ panicked = FALSE
    /\ negState = "S_UNDEF"
    /\ pc = [c \in Callers |-> "idle"]
    /\ kind = [c \in Callers |-> "control"]
    /\ pid = [c \in Callers |-> 1]
    /\ issued = [k \in Kinds |-> <<>>]
    /\ keys = 0
    /\ tun = "wait"

(* Mutant: a lock that does not exclude (the Lock call left out).          *)
LockNoWait(c) == mu' = c

(* m.mu.Lock(): only when the mutex is free.                                *)
Lock(c) == mu = NoHolder /\ mu' = c

(* NewPacket(opcode) or LocalDataPacketID(): take the lock, then run        *)
(* localControlPacketIDLocked or localDataPacketIDLocked.                   *)
NewPacket(c, k) ==
    /\ pc[c] = "idle"
    /\ Lock(c)
    /\ pc' = [pc EXCEPT ![c] = "read"]
    /\ kind' = [kind EXCEPT ![c] = k]
    /\ UNCHANGED <<counter, remoteSet, remoteSets, panicked, negState, pid, issued, keys, tun>>

(* Mutant: no ErrExpiredKey check, the counter overflows.                   *)
ReadPIDNoLimit(c) ==
    /\ pc[c] = "read"
    /\ pid' = [pid EXCEPT ![c] = counter[kind[c]]]
    /\ pc' = [pc EXCEPT ![c] = "inc"]
    /\ UNCHANGED <<mu, counter, remoteSet, remoteSets, panicked, negState, kind, issued, keys, tun>>

(* pid := m.localXPacketID; at the largest id return ErrExpiredKey (the     *)
(* deferred Unlock releases the mutex).                                     *)
ReadPID(c) ==
    /\ pc[c] = "read"
    /\ pid' = [pid EXCEPT ![c] = counter[kind[c]]]
    /\ IF counter[kind[c]] = MaxPID
       THEN /\ pc' = [pc EXCEPT ![c] = "idle"]
            /\ mu' = NoHolder
       ELSE /\ pc' = [pc EXCEPT ![c] = "inc"]
            /\ UNCHANGED mu
    /\ UNCHANGED <<counter, remoteSet, remoteSets, panicked, negState, kind, issued, keys, tun>>

(* m.localXPacketID++; return pid; Unlock.                                  *)
IncPID(c) ==
    /\ pc[c] = "inc"
    /\ counter' = [counter EXCEPT ![kind[c]] = Inc(@)]
    /\ issued' = [issued EXCEPT ![kind[c]] = Append(@, pid[c])]
    /\ pc' = [pc EXCEPT ![c] = "idle"]
    /\ mu' = NoHolder
    /\ UNCHANGED <<remoteSet, remoteSets, panicked, negState, kind, pid, keys, tun>>

(* SetRemoteSessionID, called on each hard-reset reply the handshake       *)
(* handles: under the lock, runtimex.Assert that it is still None (a panic *)
(* ends the process), then set it.                                         *)
SetRemoteSessionID(c) ==
    /\ pc[c] = "idle"
    /\ remoteSets < MaxRemoteSets
    /\ mu = NoHolder
    /\ remoteSets' = remoteSets + 1
    /\ IF remoteSet
       THEN /\ panicked' = TRUE
            /\ UNCHANGED remoteSet
       ELSE /\ remoteSet' = TRUE
            /\ UNCHANGED panicked
    /\ UNCHANGED <<mu, counter, negState, pc, kind, pid, issued, keys, tun>>

(* SetNegotiationState(s): under the lock set negState; for               *)
(* S_GENERATED_KEYS the goroutine then sends on the unbuffered Ready       *)
(* channel before the deferred Unlock.                                      *)
SetNegotiationState(c, s) ==
    /\ pc[c] = "idle"
    /\ s = "S_GENERATED_KEYS" => keys < MaxKeys
    /\ mu = NoHolder
    /\ negState' = s
    /\ IF s = "S_GENERATED_KEYS"
       THEN /\ mu' = c
            /\ pc' = [pc EXCEPT ![c] = "ready"]
            /\ keys' = keys + 1
       ELSE UNCHANGED <<mu, pc, keys>>
    /\ UNCHANGED <<counter, remoteSet, remoteSets, panicked, kind, pid, issued, tun>>

(* `m.Ready <- true` meets the TUN reader's receive; then Unlock.           *)
ReadyHandoff(c) ==
    /\ pc[c] = "ready"
    /\ tun = "wait"
    /\ tun' = "info"
    /\ pc' = [pc EXCEPT ![c] = "idle"]
    /\ mu' = NoHolder
    /\ UNCHANGED <<counter, remoteSet, remoteSets, panicked, negState, kind, pid, issued, keys>>

(* The TUN reader, after Ready, calls TunnelInfo(), which takes the lock.   *)
TunnelInfo ==
    /\ tun = "info"
    /\ mu = NoHolder
    /\ tun' = "done"
    /\ UNCHANGED <<mu, counter, remoteSet, remoteSets, panicked, negState, pc, kind, pid, issued, keys>>

(* The states the handshake layers move through before the keys exist.     *)
HandshakeStates == NegStates \ {"S_UNDEF"}

Next ==
    /\ ~panicked
    /\ \/ \E c \in Callers :
             \/ \E k \in Kinds : NewPacket(c, k)
             \/ ReadPID(c)
             \/ IncPID(c)
             \/ SetRemoteSessionID(c)
             \/ \E s \in HandshakeStates : SetNegotiationState(c, s)
             \/ ReadyHandoff(c)
       \/ TunnelInfo

Spec == Init /\ [][Next]_vars

-----------------------------------------------------------------------------
(* Each variable has its type; both counters stay in 1..MaxPID: the uint32  *)
(* increment never wraps to 0, the id of the hard reset.                    *)
TypeOK ==
    /\ mu \in Callers \cup {NoHolder}
    /\ counter \in [Kinds -> 1..MaxPID]
    /\ remoteSet \in BOOLEAN
    /\ remoteSets \in 0..MaxRemoteSets
    /\ panicked \in BOOLEAN
    /\ negState \in NegStates
    /\ pc \in [Callers -> PCs]
    /\ kind \in [Callers -> Kinds]
    /\ pid \in [Callers -> 1..MaxPID]
    /\ issued \in [Kinds -> Seq(1..MaxPID)]
    /\ keys \in 0..MaxKeys
    /\ tun \in {"wait", "info", "done"}

(* Concurrent callers of NewPacket get the ids 1, 2, 3, ... of each         *)
(* counter, each exactly once: never 0 (reserved for the hard reset), never *)
(* a repeat, also after the counter reaches its largest value.              *)
FreshPacketIDs ==
    \A k \in Kinds : \A i \in 1..Len(issued[k]) : issued[k][i] = i

(* A step that moves a counter moves it by one and hands its old value,   *)
(* the one the goroutine read under the lock, to that goroutine: no read  *)
(* of a counter another NewPacket is about to increment goes stale.        *)
CounterStep ==
    \A k \in Kinds :
        counter'[k] # counter[k] =>
            /\ counter'[k] = counter[k] + 1
            /\ issued'[k] = Append(issued[k], counter[k])

CounterIssues == [][CounterStep]_vars

(* The abstract allocator, with the manager's history of handed-out ids   *)
(* as its own.                                                             *)
Allocator == INSTANCE PacketIDAllocator

(* The manager, under any interleaving of its goroutines, implements the   *)
(* atomic allocator: the lock makes each read-and-increment one Issue, and *)
(* ReadPID's ErrExpiredKey keeps the largest id from being handed out.      *)
ImplementsAllocator == Allocator!Spec

(* Spec 5: the mutex guards short critical sections.  A goroutine that     *)
(* sends on Ready while holding it always has a receiver, so it cannot     *)
(* hold the mutex, and with it every other goroutine, forever.             *)
ReadyHasReceiver == \A c \in Callers : pc[c] = "ready" => tun = "wait"

=============================================================================
