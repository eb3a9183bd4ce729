------------------------- MODULE MCMuxerHandshake ---------------------------
(* The handshake driver with every outcome of every I/O call.              *)
EXTENDS MuxerHandshake
=============================================================================
