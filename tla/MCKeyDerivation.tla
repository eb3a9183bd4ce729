------------------------- MODULE MCKeyDerivation ---------------------------
(* Digests of 2 and 3 bytes stand for MD5's 16 and SHA-1's 20: outputs of  *)
(* up to 7 bytes take several blocks of each and cut the last one short;   *)
(* secrets of up to 3 bytes have both parities; each seed part is empty or *)
(* one distinct value, so any mix-up of their order shows.                  *)
EXTENDS KeyDerivation

CONSTANTS l, c, s, ci, si

MCLabel == <<l>>
MCSeedParts == [client    |-> {<< >>, <<c>>},
                server    |-> {<< >>, <<s>>},
                clientSid |-> {<< >>, <<ci>>},
                serverSid |-> {<< >>, <<si>>}]
=============================================================================
