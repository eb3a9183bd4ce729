--------------------------- MODULE KeyDerivation ----------------------------
(***************************************************************************)
(* The key-derivation PRF of src/vpn/crypto.go: prf builds the seed,       *)
(* prf10 splits the secret (splitPreMasterSecret), runs pHash with MD5 on  *)
(* the first half and with SHA-1 on the second, and XORs the two outputs.  *)
(* pHash is the loop of RFC 2246 section 5, run on one hmac.Hash whose     *)
(* state (key and bytes written since the last Reset) is modelled, so that *)
(* every Reset, Write and Sum of the code is a step of the model.          *)
(*                                                                         *)
(* Data: an HMAC output is a symbolic term, one per output byte, that      *)
(* records the hash, the key and the message: equal terms mean equal       *)
(* inputs, as for a collision-free hash.  Secret bytes are told apart by   *)
(* their position, seeds are model values, XOR is a term.  The digest     *)
(* sizes (16 for MD5, 20 for SHA-1) are constants, taken small, so that    *)
(* outputs of several blocks and a cut last block both happen.             *)
(***************************************************************************)
EXTENDS Naturals, Sequences

CONSTANTS
    MD5Len,      \* md5.Size
    SHA1Len,     \* sha1.Size
    MaxSecret,   \* longest secret
    MaxOut,      \* largest olen
    Label,       \* the label, a sequence of model values
    SeedParts    \* [client, server, clientSid, serverSid -> candidate byte strings]

ASSUME KeyDerivationAssumption ==
    /\ MD5Len \in Nat \ {0} /\ SHA1Len \in Nat \ {0}
    /\ MaxSecret \in Nat /\ MaxOut \in Nat
    /\ MD5Len <= SHA1Len     \* md5.Size = 16, sha1.Size = 20

Hashes == {"md5", "sha1"}

HashLen(h) == IF h = "md5" THEN MD5Len ELSE SHA1Len

(* HMAC_h(key, msg): one term per output byte.                             *)
Mac(h, key, msg) == [i \in 1..HashLen(h) |-> <<h, key, msg, i>>]

Xor(x, y) == <<"xor", x, y>>

Zeros(n) == [i \in 1..n |-> 0]

VARIABLES
    secret, cseed, sseed, csid, ssid, olen,   \* the arguments of prf
    pc,      \* "prf", "start", "loop", "xor", "done"
    ph,      \* the pHash call being run: "md5" (first) or "sha1" (second)
    las,     \* labelAndSeed
    s1, s2,  \* the halves of the secret
    out,     \* [Hashes -> bytes]: result and result2
    hkey,    \* the key of the hmac.Hash of the running pHash
    hbuf,    \* the bytes written to it since the last Reset
    a,       \* pHash's a
    j        \* pHash's j

inputs == <<secret, cseed, sseed, csid, ssid, olen>>
vars == <<secret, cseed, sseed, csid, ssid, olen, pc, ph, las, s1, s2, out,
          hkey, hbuf, a, j>>

-----------------------------------------------------------------------------
(* splitPreMasterSecret: s1 = secret[0:(n+1)/2], s2 = secret[n/2:].         *)
SplitFirst(s) == SubSeq(s, 1, (Len(s) + 1) \div 2)

(* Mutant: the second half starts after the first one, one byte short for  *)
(* an odd length.                                                          *)
SplitSecondDisjoint(s) == SubSeq(s, ((Len(s) + 1) \div 2) + 1, Len(s))

SplitSecond(s) == SubSeq(s, (Len(s) \div 2) + 1, Len(s))

(* prf's seed: clientSeed ++ serverSeed, then clientSid and serverSid when *)
(* they are not empty.                                                     *)
PrfSeed(c, s, ci, si) ==
    LET base == c \o s
        withC == IF Len(ci) # 0 THEN base \o ci ELSE base
    IN  IF Len(si) # 0 THEN withC \o si ELSE withC

(* Mutant: dst = append(dst[:j], src...), as if copy grew the slice.        *)
CopyAtAppend(dst, jj, src) == SubSeq(dst, 1, jj) \o src

(* copy(dst[j:], src) on 0-based j: as many bytes as both have room for.   *)
CopyAt(dst, jj, src) ==
    [i \in 1..Len(dst) |->
        IF i > jj /\ i <= jj + Len(src) THEN src[i - jj] ELSE dst[i]]

Init ==
    /\ \E n \in 0..MaxSecret : secret = [i \in 1..n |-> i]
    /\ cseed \in SeedParts["client"] /\ sseed \in SeedParts["server"]
    /\ csid \in SeedParts["clientSid"] /\ ssid \in SeedParts["serverSid"]
    /\ olen \in 0..MaxOut
    /\ pc = "prf"
    /\ ph = "md5"
    /\ las = << >> /\ s1 = << >> /\ s2 = << >>
    /\ out = [h \in Hashes |-> << >>]
    /\ hkey = << >> /\ hbuf = << >> /\ a = << >> /\ j = 0

(* prf: build the seed and result := make([]byte, olen); prf10: build      *)
(* labelAndSeed and split the secret.                                       *)
Prf ==
    /\ pc = "prf"
    /\ las' = Label \o PrfSeed(cseed, sseed, csid, ssid)
    /\ s1' = SplitFirst(secret)
    /\ s2' = SplitSecond(secret)
    /\ out' = [out EXCEPT !["md5"] = Zeros(olen)]
    /\ pc' = "start"
    /\ UNCHANGED <<inputs, ph, hkey, hbuf, a, j>>

(* pHash: h := hmac.New(hash, secret); h.Write(seed); a := h.Sum(nil);      *)
(* j := 0.  Sum does not reset h.                                           *)
PHashStart ==
    /\ pc = "start"
    /\ LET key == IF ph = "md5" THEN s1 ELSE s2
       IN  /\ hkey' = key
           /\ hbuf' = las
           /\ a' = Mac(ph, key, las)
    /\ j' = 0
    /\ pc' = "loop"
    /\ UNCHANGED <<inputs, ph, las, s1, s2, out>>

(* One turn of `for j < len(result)`: h.Reset(); h.Write(a);              *)
(* h.Write(seed); b := h.Sum(nil); copy(result[j:], b); j += len(b);       *)
(* h.Reset(); h.Write(a); a = h.Sum(nil).                                   *)
PHashIter ==
    /\ pc = "loop"
    /\ j < Len(out[ph])
    /\ LET b == Mac(ph, hkey, a \o las)
       IN  /\ out' = [out EXCEPT ![ph] = CopyAt(@, j, b)]
           /\ j' = j + Len(b)
    /\ hbuf' = a
    /\ a' = Mac(ph, hkey, a)
    /\ UNCHANGED <<inputs, pc, ph, las, s1, s2, hkey>>

(* The loop ends.  After the MD5 pHash, prf10 makes result2 and runs the   *)
(* SHA-1 pHash on it; after that one, it goes to the XOR.                  *)
PHashDone ==
    /\ pc = "loop"
    /\ j >= Len(out[ph])
    /\ IF ph = "md5"
       THEN /\ ph' = "sha1"
            /\ out' = [out EXCEPT !["sha1"] = Zeros(Len(out["md5"]))]
            /\ pc' = "start"
       ELSE /\ pc' = "xor"
            /\ UNCHANGED <<ph, out>>
    /\ UNCHANGED <<inputs, las, s1, s2, hkey, hbuf, a, j>>

(* for i, b := range result2 { result[i] ^= b }; return result.             *)
XorOut ==
    /\ pc = "xor"
    /\ out' = [out EXCEPT !["md5"] =
                 [i \in 1..Len(out["md5"]) |-> Xor(out["md5"][i], out["sha1"][i])]]
    /\ pc' = "done"
    /\ UNCHANGED <<inputs, ph, las, s1, s2, hkey, hbuf, a, j>>

Next == Prf \/ PHashStart \/ PHashIter \/ PHashDone \/ XorOut

Spec == Init /\ [][Next]_vars

-----------------------------------------------------------------------------
(* RFC 2246, section 5.  A(0) = seed, A(i) = HMAC(secret, A(i-1));         *)
(* P_hash = HMAC(secret, A(1) + seed) + HMAC(secret, A(2) + seed) + ...,   *)
(* cut to n bytes.  S1 and S2 are the first and the last ceil(L/2) bytes   *)
(* of the secret; PRF = P_MD5(S1, label + seed) XOR P_SHA-1(S2, ...).      *)
RefPHash(h, key, seed, n) ==
    LET A[i \in Nat] == IF i = 0 THEN seed ELSE Mac(h, key, A[i - 1])
        HL == HashLen(h)
    IN  [k \in 1..n |-> Mac(h, key, A[((k - 1) \div HL) + 1] \o seed)[((k - 1) % HL) + 1]]

RFCHalf(sec) == (Len(sec) + 1) \div 2

RFCS1(sec) == [i \in 1..RFCHalf(sec) |-> sec[i]]

RFCS2(sec) == [i \in 1..RFCHalf(sec) |-> sec[Len(sec) - RFCHalf(sec) + i]]

RefPRF(sec, label, seed, n) ==
    LET P1 == RefPHash("md5", RFCS1(sec), label \o seed, n)
        P2 == RefPHash("sha1", RFCS2(sec), label \o seed, n)
    IN  [i \in 1..n |-> Xor(P1[i], P2[i])]

(* The type invariant: both outputs keep the length olen they were made    *)
(* with, and j stays below olen plus one digest.                           *)
TypeOK ==
    /\ pc \in {"prf", "start", "loop", "xor", "done"}
    /\ ph \in Hashes
    /\ olen \in 0..MaxOut
    /\ j \in 0..(olen + HashLen(ph))
    /\ \A h \in Hashes : DOMAIN out[h] \in {1..0, 1..olen}

(* Once prf10 has split the secret, the two halves that key the MD5 and  *)
(* the SHA-1 pHash are the RFC's S1 and S2, the first and the last         *)
(* ceil(L/2) bytes, sharing the middle byte when the length is odd, for    *)
(* every secret length.                                                    *)
SplitAsRFC ==
    pc # "prf" => s1 = RFCS1(secret) /\ s2 = RFCS2(secret)

(* prf returns exactly the TLS 1.0 PRF of RFC 2246 over label + clientSeed *)
(* + serverSeed + clientSid + serverSid, for every secret length (odd ones *)
(* share the middle byte) and every olen (a last block cut short).         *)
PrfMatchesRFC ==
    pc = "done" => out["md5"] = RefPRF(secret, Label, cseed \o sseed \o csid \o ssid, olen)

=============================================================================
