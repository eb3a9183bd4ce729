----------------------------- MODULE MCPadding ------------------------------
(* Padding with 2-byte blocks and plaintexts of up to 2 bytes: the         *)
(* aligned plaintexts (0 and 2 bytes) get a whole block of padding, the    *)
(* tampered buffers are 0, 2 or 4 bytes long, and bytes run to 5, above    *)
(* every length and the block size, so "larger than the buffer" happens.  *)
(* Key material of 16 and 32 bytes is shorter than, exactly, or longer     *)
(* than the key of each suite; IVs of 8, 12 and 16 bytes are short for     *)
(* both modes, right for GCM, and right for CBC.                           *)
EXTENDS Padding

MCBS == 2
MCMaxLen == 2
MCByteTop == 5
MCKeyLens == {16, 32}
MCIvLens == {8, 12, 16}
=============================================================================
