--------------------------- MODULE ReliableStream ---------------------------
(***************************************************************************)
(* What the reliability layer promises the TLS library above it: the       *)
(* control records 1..MaxId are handed up one at a time, each exactly once *)
(* and in the order the peer numbered them.  Nothing else ever happens to  *)
(* the stream: no record is skipped, repeated or taken back.               *)
(***************************************************************************)
EXTENDS Naturals, Sequences

CONSTANT MaxId

VARIABLE records   \* the records handed to TLS so far, by packet id

Init == records = << >>

(* The next record in sequence reaches the TLS library.                    *)
Deliver ==
    /\ Len(records) < MaxId
    /\ records' = Append(records, Len(records) + 1)

Spec == Init /\ [][Deliver]_records

=============================================================================
