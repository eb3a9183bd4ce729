----------------------- MODULE MCDataChannelWorkers -------------------------
(* Small instances of the data-channel workers.                            *)
EXTENDS DataChannelWorkers
=============================================================================
