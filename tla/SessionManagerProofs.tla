----------------------- MODULE SessionManagerProofs -------------------------
(***************************************************************************)
(* Proofs that the session manager hands out fresh packet ids, for any     *)
(* number of goroutines and any largest id.                                *)
(***************************************************************************)
EXTENDS SessionManager, TLAPS

(* The step relation, split along its actions.                             *)
LEMMA NextCases ==
    ASSUME Next
    PROVE  \/ \E c \in Callers : \E k \in Kinds : NewPacket(c, k)
           \/ \E c \in Callers : ReadPID(c)
           \/ \E c \in Callers : IncPID(c)
           \/ \E c \in Callers : SetRemoteSessionID(c)
           \/ \E c \in Callers : \E s \in HandshakeStates : SetNegotiationState(c, s)
           \/ \E c \in Callers : ReadyHandoff(c)
           \/ TunnelInfo
BY DEF Next

(* Places where a goroutine is inside a critical section of the manager.   *)
Inside == {"read", "inc", "ready"}

(* The inductive invariant.  Excl: a goroutine inside a critical section   *)
(* holds the mutex, so at most one is.  Count: each counter is one past    *)
(* the number of ids it has handed out.  Reading: a goroutine about to     *)
(* increment read the current counter, and it was not the largest id.     *)
Excl    == \A c \in Callers : pc[c] \in Inside => mu = c
Count   == \A k \in Kinds : counter[k] = Len(issued[k]) + 1
Reading == \A c \in Callers :
              pc[c] = "inc" => /\ pid[c] = counter[kind[c]]
                               /\ counter[kind[c]] # MaxPID
IInv == TypeOK /\ Excl /\ Count /\ Reading /\ FreshPacketIDs

LEMMA InitIInv == Init => IInv
<1> SUFFICES ASSUME Init PROVE IInv
  OBVIOUS
<1>1. <<>> \in Seq(1..MaxPID)
  OBVIOUS
<1>2. 1 \in 1..MaxPID /\ 0 \in 0..MaxKeys /\ 0 \in 0..MaxRemoteSets
  BY ManagerAssumption
<1>3. TypeOK
  BY <1>1, <1>2 DEF Init, TypeOK, NegStates, PCs, Kinds
<1>4. Excl /\ Count /\ Reading /\ FreshPacketIDs
  BY DEF Init, Excl, Count, Reading, FreshPacketIDs, Inside
<1>5. QED
  BY <1>3, <1>4 DEF IInv

(* The increment at a counter below the largest id does not wrap.          *)
LEMMA IncNoWrap ==
    ASSUME NEW x \in 1..MaxPID, x # MaxPID
    PROVE  Inc(x) = x + 1 /\ Inc(x) \in 1..MaxPID
BY ManagerAssumption DEF Inc, PIDSpace

LEMMA NextIInv == IInv /\ [Next]_vars => IInv'
<1> SUFFICES ASSUME IInv, [Next]_vars PROVE IInv'
  OBVIOUS
<1> USE ManagerAssumption DEF IInv, TypeOK, PCs, Inside
<1>1. CASE \E c \in Callers : \E k \in Kinds : NewPacket(c, k)
  <2>1. PICK c \in Callers, k \in Kinds : NewPacket(c, k)
    BY <1>1
  <2>2. mu = NoHolder /\ mu' = c /\ pc' = [pc EXCEPT ![c] = "read"]
        /\ kind' = [kind EXCEPT ![c] = k]
        /\ UNCHANGED <<counter, pid, issued>>
    BY <2>1 DEF NewPacket, Lock
  <2>3. \A d \in Callers : pc[d] \notin Inside
    BY <2>2 DEF Excl
  <2>4. Excl'
    BY <2>2, <2>3 DEF Excl
  <2>5. Reading'
    BY <2>2, <2>3 DEF Reading
  <2>6. TypeOK'
    BY <2>1, <2>2 DEF NewPacket
  <2>7. QED
    BY <2>2, <2>4, <2>5, <2>6 DEF Count, FreshPacketIDs
<1>2. CASE \E c \in Callers : ReadPID(c)
  <2>1. PICK c \in Callers : ReadPID(c)
    BY <1>2
  <2>2. UNCHANGED <<counter, issued, kind>> /\ mu = c
        /\ pid' = [pid EXCEPT ![c] = counter[kind[c]]]
    BY <2>1 DEF ReadPID, Excl
  <2>3. CASE counter[kind[c]] = MaxPID
    <3>1. pc' = [pc EXCEPT ![c] = "idle"] /\ mu' = NoHolder
      BY <2>1, <2>3 DEF ReadPID
    <3>2. \A d \in Callers : pc[d] \in Inside => d = c
      BY <2>2, ManagerAssumption DEF Excl
    <3>3. Excl' /\ Reading'
      BY <2>2, <3>1, <3>2 DEF Excl, Reading
    <3>4. QED
      BY <2>1, <2>2, <3>1, <3>3 DEF ReadPID, Count, FreshPacketIDs
  <2>4. CASE counter[kind[c]] # MaxPID
    <3>1. pc' = [pc EXCEPT ![c] = "inc"] /\ mu' = mu
      BY <2>1, <2>4 DEF ReadPID
    <3>2. Excl'
      BY <2>2, <3>1 DEF Excl
    <3>3. Reading'
      BY <2>2, <2>4, <3>1 DEF Reading
    <3>4. QED
      BY <2>1, <2>2, <3>1, <3>2, <3>3 DEF ReadPID, Count, FreshPacketIDs
  <2>5. QED
    BY <2>3, <2>4
<1>3. CASE \E c \in Callers : IncPID(c)
  <2>1. PICK c \in Callers : IncPID(c)
    BY <1>3
  <2> DEFINE k == kind[c]
  <2>2. /\ pc[c] = "inc" /\ mu = c
        /\ pid[c] = counter[k] /\ counter[k] # MaxPID
        /\ k \in Kinds
    BY <2>1 DEF IncPID, Excl, Reading
  <2>3. /\ counter' = [counter EXCEPT ![k] = Inc(counter[k])]
        /\ issued' = [issued EXCEPT ![k] = Append(issued[k], pid[c])]
        /\ pc' = [pc EXCEPT ![c] = "idle"] /\ mu' = NoHolder
        /\ UNCHANGED <<kind, pid>>
    BY <2>1 DEF IncPID
  <2>4. Inc(counter[k]) = counter[k] + 1 /\ Inc(counter[k]) \in 1..MaxPID
    BY <2>2, IncNoWrap
  <2>5. \A d \in Callers : pc[d] \in Inside => d = c
    BY <2>2 DEF Excl
  <2>6. Excl' /\ Reading'
    BY <2>3, <2>5 DEF Excl, Reading
  <2>7. Count'
    BY <2>2, <2>3, <2>4 DEF Count
  <2>8. FreshPacketIDs'
    BY <2>2, <2>3 DEF Count, FreshPacketIDs
  <2>9. TypeOK'
    BY <2>1, <2>2, <2>3, <2>4 DEF IncPID
  <2>10. QED
    BY <2>6, <2>7, <2>8, <2>9
<1>4. CASE \E c \in Callers : SetRemoteSessionID(c)
  <2>1. PICK c \in Callers : SetRemoteSessionID(c)
    BY <1>4
  <2>2. UNCHANGED <<mu, counter, pc, kind, pid, issued>>
    BY <2>1 DEF SetRemoteSessionID
  <2>3. remoteSets' \in 0..MaxRemoteSets
    BY <2>1 DEF SetRemoteSessionID
  <2>5. remoteSet' \in BOOLEAN /\ panicked' \in BOOLEAN
    BY <2>1 DEF SetRemoteSessionID
  <2>6. UNCHANGED <<negState, keys, tun>>
    BY <2>1 DEF SetRemoteSessionID
  <2>4. QED
    BY <2>2, <2>3, <2>5, <2>6 DEF Excl, Count, Reading, FreshPacketIDs
<1>5. CASE \E c \in Callers : \E s \in HandshakeStates : SetNegotiationState(c, s)
  <2>1. PICK c \in Callers, s \in HandshakeStates : SetNegotiationState(c, s)
    BY <1>5
  <2>2. mu = NoHolder /\ UNCHANGED <<counter, kind, pid, issued>>
    BY <2>1 DEF SetNegotiationState
  <2>3. \A d \in Callers : pc[d] \notin Inside
    BY <2>2 DEF Excl
  <2>4. CASE s = "S_GENERATED_KEYS"
    <3>1. mu' = c /\ pc' = [pc EXCEPT ![c] = "ready"] /\ keys' = keys + 1
          /\ keys < MaxKeys
      BY <2>1, <2>4 DEF SetNegotiationState
    <3>2. Excl' /\ Reading'
      BY <2>2, <2>3, <3>1 DEF Excl, Reading
    <3>3. TypeOK'
      BY <2>1, <3>1 DEF SetNegotiationState, HandshakeStates, NegStates
    <3>4. QED
      BY <2>2, <3>2, <3>3 DEF Count, FreshPacketIDs
  <2>5. CASE s # "S_GENERATED_KEYS"
    <3>1. UNCHANGED <<mu, pc, keys>>
      BY <2>1, <2>5 DEF SetNegotiationState
    <3>2. TypeOK'
      BY <2>1, <3>1 DEF SetNegotiationState, HandshakeStates, NegStates
    <3>3. QED
      BY <2>2, <3>1, <3>2 DEF Excl, Count, Reading, FreshPacketIDs
  <2>6. QED
    BY <2>4, <2>5
<1>6. CASE \E c \in Callers : ReadyHandoff(c)
  <2>1. PICK c \in Callers : ReadyHandoff(c)
    BY <1>6
  <2>2. /\ pc[c] = "ready" /\ mu = c
        /\ pc' = [pc EXCEPT ![c] = "idle"] /\ mu' = NoHolder
        /\ UNCHANGED <<counter, kind, pid, issued>>
    BY <2>1 DEF ReadyHandoff, Excl
  <2>3. \A d \in Callers : pc[d] \in Inside => d = c
    BY <2>2 DEF Excl
  <2>4. Excl' /\ Reading'
    BY <2>2, <2>3 DEF Excl, Reading
  <2>5. TypeOK'
    BY <2>1 DEF ReadyHandoff
  <2>6. QED
    BY <2>2, <2>4, <2>5 DEF Count, FreshPacketIDs
<1>7. CASE TunnelInfo
  BY <1>7 DEF TunnelInfo, Excl, Count, Reading, FreshPacketIDs
<1>8. CASE UNCHANGED vars
  BY <1>8 DEF vars, Excl, Count, Reading, FreshPacketIDs
<1>9. QED
  BY <1>1, <1>2, <1>3, <1>4, <1>5, <1>6, <1>7, <1>8, NextCases

(* Every variable keeps its type; in particular the uint32 increments of   *)
(* localControlPacketID and localDataPacketID never wrap to 0.             *)
THEOREM TypeCorrect == Spec => []TypeOK
BY InitIInv, NextIInv, PTL DEF Spec, IInv

(* However the goroutines interleave their NewPacket calls, each counter   *)
(* hands out 1, 2, 3, ... each exactly once, for every number of callers   *)
(* and every largest id: the mutex makes read-and-increment atomic.        *)
THEOREM PacketIDsFresh == Spec => []FreshPacketIDs
BY InitIInv, NextIInv, PTL DEF Spec, IInv

-----------------------------------------------------------------------------
(* The counters move only in IncPID, and by one, handing out the value the  *)
(* goroutine read: Reading says that value is still the counter's and not *)
(* the largest id.                                                         *)
LEMMA IncCounterStep ==
    ASSUME IInv, NEW c \in Callers, IncPID(c)
    PROVE  CounterStep
<1> DEFINE k0 == kind[c]
<1>1. k0 \in Kinds /\ pid[c] = counter[k0] /\ counter[k0] \in 1..MaxPID
      /\ counter[k0] # MaxPID
  BY DEF IInv, Reading, TypeOK, IncPID
<1>2. counter'[k0] = counter[k0] + 1
  BY <1>1, IncNoWrap DEF IncPID, IInv, TypeOK
<1>3. issued'[k0] = Append(issued[k0], counter[k0])
  BY <1>1 DEF IncPID, IInv, TypeOK
<1>4. \A k \in Kinds \ {k0} : counter'[k] = counter[k]
  BY DEF IncPID, IInv, TypeOK
<1>5. QED
  BY <1>2, <1>3, <1>4 DEF CounterStep

LEMMA StepCounter == IInv /\ [Next]_vars => CounterStep
<1> SUFFICES ASSUME IInv, [Next]_vars PROVE CounterStep
  OBVIOUS
<1>1. CASE \E c \in Callers : IncPID(c)
  BY <1>1, IncCounterStep
<1>2. CASE ~\E c \in Callers : IncPID(c)
  <2>1. counter' = counter
    BY <1>2, NextCases DEF vars, NewPacket, ReadPID, SetRemoteSessionID,
       SetNegotiationState, ReadyHandoff, TunnelInfo
  <2>2. QED
    BY <2>1 DEF CounterStep
<1>3. QED
  BY <1>1, <1>2

(* Concurrent NewPacket calls never hand out a stale id: every move of a   *)
(* counter is an increment by one that gives its old value to the caller,  *)
(* for any number of goroutines and any largest id.                        *)
THEOREM CounterIssuesHolds == Spec => CounterIssues
BY InitIInv, NextIInv, StepCounter, PTL DEF Spec, CounterIssues

-----------------------------------------------------------------------------
(* The refinement of PacketIDAllocator.                                    *)

(* An IncPID step is the allocator's Issue of its counter: Count and       *)
(* Reading make the id it appends Len(issued[k]) + 1, and that id is below *)
(* the largest one because ReadPID returned ErrExpiredKey at it.           *)
LEMMA IncRefines ==
    ASSUME IInv, NEW c \in Callers, IncPID(c)
    PROVE  Allocator!Issue(kind[c])
<1> DEFINE k0 == kind[c]
<1>1. /\ k0 \in Kinds
      /\ pid[c] = Len(issued[k0]) + 1
      /\ Len(issued[k0]) + 1 \in 1..MaxPID
      /\ Len(issued[k0]) + 1 # MaxPID
  BY DEF IInv, Reading, Count, TypeOK, IncPID
<1>2. Len(issued[k0]) + 1 < MaxPID
  BY <1>1, ManagerAssumption
<1>3. issued' = [issued EXCEPT ![k0] = Append(@, Len(@) + 1)]
  BY <1>1 DEF IncPID
<1>4. QED
  BY <1>2, <1>3 DEF Allocator!Issue

LEMMA StepRefinesAllocator == IInv /\ [Next]_vars => [Allocator!Next]_issued
<1> SUFFICES ASSUME IInv, [Next]_vars PROVE [Allocator!Next]_issued
  OBVIOUS
<1>1. CASE \E c \in Callers : IncPID(c)
  <2>1. PICK c \in Callers : IncPID(c)
    BY <1>1
  <2>2. kind[c] \in Kinds
    BY DEF IInv, TypeOK
  <2>3. QED
    BY <2>1, <2>2, IncRefines DEF Allocator!Next
<1>2. CASE ~\E c \in Callers : IncPID(c)
  BY <1>2, NextCases DEF vars, NewPacket, ReadPID, SetRemoteSessionID,
     SetNegotiationState, ReadyHandoff, TunnelInfo
<1>3. QED
  BY <1>1, <1>2

(* However the goroutines interleave, the manager's packet ids are those  *)
(* of the atomic allocator: 1, 2, 3, ... per counter, one per call, never  *)
(* the largest id, for any number of callers and any largest id.           *)
THEOREM AllocatorRefinement == Spec => ImplementsAllocator
<1>1. Init => Allocator!Init
  BY DEF Init, Allocator!Init
<1>2. QED
  BY <1>1, InitIInv, NextIInv, StepRefinesAllocator, PTL
     DEF Spec, ImplementsAllocator, Allocator!Spec

=============================================================================
