-------------------------- MODULE PacketIDAllocator --------------------------
(***************************************************************************)
(* What the session manager promises the callers of NewPacket and         *)
(* LocalDataPacketID: each counter hands out 1, 2, 3, ... one id per call, *)
(* each at once, and none at or past the largest id, which ErrExpiredKey   *)
(* refuses instead of letting the uint32 wrap.                             *)
(***************************************************************************)
EXTENDS Naturals, Sequences

CONSTANTS
    Kinds,     \* the counters: control and data
    MaxPID     \* the largest packet id

VARIABLE issued   \* [Kinds -> the ids handed out so far, in order]

Init == issued = [k \in Kinds |-> << >>]

(* One call gets the id after the last one handed out by its counter.      *)
Issue(k) ==
    /\ Len(issued[k]) + 1 < MaxPID
    /\ issued' = [issued EXCEPT ![k] = Append(@, Len(@) + 1)]

Next == \E k \in Kinds : Issue(k)

Spec == Init /\ [][Next]_issued
=============================================================================
