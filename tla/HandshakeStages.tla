-------------------------- MODULE HandshakeStages ---------------------------
(***************************************************************************)
(* What the handshake driver promises, as a stage machine: the hard-reset  *)
(* exchange, then the TLS handshake, then the data-channel set-up (key     *)
(* exchange and pushed options), and the handshake is done; it may fail in *)
(* any stage before it is done.  The caller of Handshake learns an outcome *)
(* once: success only for a handshake that is done, failure at any time.  *)
(***************************************************************************)

VARIABLES
    stage,    \* "reset", "tls", "data", "done" or "error"
    outcome   \* what Handshake returned: "pending", "ok" or "failed"

Stages == {"reset", "tls", "data", "done", "error"}

(* The stage that follows each one on success.                             *)
Succ == [reset |-> "tls", tls |-> "data", data |-> "done"]

Init == stage = "reset" /\ outcome = "pending"

Advance ==
    /\ stage \in DOMAIN Succ
    /\ stage' = Succ[stage]
    /\ UNCHANGED outcome

Fail ==
    /\ stage \in DOMAIN Succ
    /\ stage' = "error"
    /\ UNCHANGED outcome

ReportOk ==
    /\ outcome = "pending"
    /\ stage = "done"
    /\ outcome' = "ok"
    /\ UNCHANGED stage

ReportFailure ==
    /\ outcome = "pending"
    /\ outcome' = "failed"
    /\ UNCHANGED stage

Next == Advance \/ Fail \/ ReportOk \/ ReportFailure

Spec == Init /\ [][Next]_<<stage, outcome>>

=============================================================================
