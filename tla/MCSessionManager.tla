-------------------------- MODULE MCSessionManager --------------------------
(* Two goroutines sharing the manager; ids up to 3 stand for MaxUint32.    *)
EXTENDS SessionManager, TLC

CONSTANTS c1, c2

MCCallers == {c1, c2}
MCMaxPID == 3

(* The callers are interchangeable goroutines. *)
Symm == Permutations(MCCallers)
=============================================================================
