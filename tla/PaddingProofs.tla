--------------------------- MODULE PaddingProofs ----------------------------
(***************************************************************************)
(* Proofs about the data cipher of src/vpn/ciphers.go and crypto.go: the  *)
(* PKCS#7 padding, crypto.go's decrypt in both modes and the agreement of  *)
(* its checks with encrypt's, for every block size up to 255, every       *)
(* plaintext, every suite and every length of key material and IV.        *)
(***************************************************************************)
EXTENDS Padding, SequenceTheorems, TLAPS

(* The facts about the block size and the byte range the proofs use.     *)
LEMMA SizeFacts ==
    /\ BS \in 1..255
    /\ MaxLen \in Nat
    /\ ByteTop \in Nat /\ ByteTop > BS
BY PaddingAssumption

USE SizeFacts

(* The number of padding bytes cipherPadTextPKCS7 adds is in 1..bs, and    *)
(* the padded length is a multiple of bs.                                  *)
LEMMA PadCount ==
    ASSUME NEW L \in Nat
    PROVE  /\ BS - (L % BS) \in 1..BS
           /\ (L + (BS - (L % BS))) % BS = 0
<1>1. L % BS \in 0..(BS - 1)
  OBVIOUS
<1>2. L = BS * (L \div BS) + (L % BS)
  OBVIOUS
<1>3. L + (BS - (L % BS)) = BS * (L \div BS + 1)
  BY <1>2
<1>4. (BS * (L \div BS + 1)) % BS = 0
  OBVIOUS
<1>5. QED
  BY <1>1, <1>3, <1>4

(* A multiple of the block size is aligned.                               *)
LEMMA MultipleAligned ==
    ASSUME NEW k \in Nat
    PROVE  k * BS \in Nat /\ (k * BS) % BS = 0
OBVIOUS

(* For every plaintext, cipherPadTextPKCS7 gives a well-padded buffer, and *)
(* the reference unpadding of it is the plaintext.                         *)
LEMMA PadRoundTrip ==
    ASSUME NEW b \in Seq(Nat)
    PROVE  /\ WellPadded(PadText(b, BS))
           /\ RefUnpad(PadText(b, BS)) = b
<1> DEFINE L == Len(b)
           p == BS - (L % BS)
           pad == [i \in 1..p |-> p]
           w == b \o pad
<1>1. p \in 1..BS /\ (L + p) % BS = 0
  BY PadCount
<1>2. PadText(b, BS) = w
  BY DEF PadText
<1>3. pad \in Seq(Nat) /\ Len(pad) = p
  BY <1>1
<1>4. /\ w \in Seq(Nat)
      /\ Len(w) = L + p
      /\ \A i \in 1..L : w[i] = b[i]
      /\ \A i \in (L + 1)..(L + p) : w[i] = p
  BY <1>3
<1>5. WellPadded(w)
  <2>1. Len(w) > 0 /\ Len(w) % BS = 0
    BY <1>1, <1>4
  <2>2. w[Len(w)] = p
    <3>1. L + p \in (L + 1)..(L + p)
      BY <1>1
    <3>2. QED
      BY <1>4, <3>1
  <2>3. \A i \in 1..p : w[Len(w) + 1 - i] = p
    BY <1>1, <1>4
  <2>4. QED
    BY <1>1, <2>1, <2>2, <2>3 DEF WellPadded
<1>6. RefUnpad(w) = b
  <2>1. Len(w) - w[Len(w)] = L
    BY <1>1, <1>4
  <2>2. [i \in 1..L |-> w[i]] = b
    BY <1>4
  <2>3. QED
    BY <2>1, <2>2 DEF RefUnpad
<1>7. QED
  BY <1>2, <1>5, <1>6

(* A buffer that bytesUnpadPKCS7 accepts is well padded, and it returns    *)
(* what the reference unpadding returns.                                   *)
LEMMA BytesUnpadSound ==
    ASSUME NEW buf \in Seq(Nat), ~BytesUnpadRejects(buf, BS)
    PROVE  /\ WellPadded(buf)
           /\ BytesUnpad(buf) = RefUnpad(buf)
           /\ buf[Len(buf)] \in 1..Len(buf)
<1> DEFINE n == Len(buf)
<1>1. n > 0 /\ n % BS = 0 /\ buf[n] \in 1..BS
  BY DEF BytesUnpadRejects
<1>2. n >= BS
  <2>1. n = BS * (n \div BS)
    BY <1>1
  <2>2. n \div BS >= 1
    BY <1>1, <2>1
  <2>3. QED
    BY <2>1, <2>2
<1>3. \A i \in (n - buf[n] + 1)..n : buf[i] = buf[n]
  BY DEF BytesUnpadRejects
<1>4. \A i \in 1..buf[n] : buf[n + 1 - i] = buf[n]
  BY <1>1, <1>2, <1>3
<1>5. WellPadded(buf)
  BY <1>1, <1>4 DEF WellPadded
<1>6. BytesUnpad(buf) = RefUnpad(buf)
  BY <1>1, <1>2 DEF BytesUnpad, RefUnpad
<1>7. QED
  BY <1>1, <1>2, <1>5, <1>6

-----------------------------------------------------------------------------
(* A cipher the constructors build without an error has mode CBC or GCM.   *)
LEMMA BuiltMode ==
    DC.err = "none" => DC.mode \in {"cbc", "gcm"}
BY DEF DC, NewDataCipherFromCipherSuite, NewDataCipher, Cipher

(* Both decrypt methods return a result of the type.                       *)
LEMMA DecryptTypes ==
    ASSUME NEW ct \in Seq(Bytes), NEW c, NEW kl, NEW v, NEW au
    PROVE  /\ CipherDecrypt(c, kl, ct, v, au) \in [res : Outcomes, data : Seq(Bytes)]
           /\ CryptoDecrypt(c, kl, ct, v, au) \in [res : Outcomes, data : Seq(Bytes)]
<1>0. ASSUME NEW m \in 0..Len(ct)
      PROVE  SubSeq(ct, 1, m) \in Seq(Bytes)
  BY SubSeqProperties
<1>1. ~UnpadPanics(ct) => UnpadText(ct) \in Seq(Bytes)
  <2> SUFFICES ASSUME ~UnpadPanics(ct) PROVE UnpadText(ct) \in Seq(Bytes)
    OBVIOUS
  <2>0. Len(ct) \in Nat /\ Len(ct) # 0
    BY LenProperties DEF UnpadPanics
  <2>4. ct[Len(ct)] \in Bytes
    BY <2>0, ElementOfSeq
  <2>1. Len(ct) > 0 /\ ct[Len(ct)] <= Len(ct)
    BY <2>0, <2>4 DEF UnpadPanics, Bytes
  <2>2. Len(ct) - ct[Len(ct)] \in 0..Len(ct)
    BY <2>1, <2>4 DEF Bytes
  <2>3. QED
    BY <2>2, <1>0 DEF UnpadText
<1>2. ~BytesUnpadRejects(ct, BS) => BytesUnpad(ct) \in Seq(Bytes)
  <2> SUFFICES ASSUME ~BytesUnpadRejects(ct, BS) PROVE BytesUnpad(ct) \in Seq(Bytes)
    OBVIOUS
  <2>0. ct \in Seq(Nat)
    BY SeqMonotonic DEF Bytes
  <2>1. Len(ct) - ct[Len(ct)] \in 0..Len(ct)
    BY <2>0, BytesUnpadSound
  <2>2. QED
    BY <2>1, <1>0 DEF BytesUnpad
<1>3. << >> \in Seq(Bytes)
  OBVIOUS
<1>4. /\ CipherCBC(ct) \in [res : Outcomes, data : Seq(Bytes)]
      /\ CryptoCBC(ct) \in [res : Outcomes, data : Seq(Bytes)]
  BY <1>1, <1>2, <1>3 DEF CipherCBC, CryptoCBC, Result, Outcomes
<1>5. QED
  BY <1>3, <1>4 DEF CipherDecrypt, CryptoDecrypt, Result, Outcomes

(* The padded plaintext is a block-aligned byte string.                    *)
LEMMA PadTextType ==
    ASSUME NEW b \in Seq(Bytes)
    PROVE  PadText(b, BS) \in Seq(Bytes) /\ Len(PadText(b, BS)) % BS = 0
<1> DEFINE p == BS - (Len(b) % BS)
<1>1. p \in 1..BS
  BY PadCount
<1>2. [i \in 1..p |-> p] \in Seq(Bytes)
  <2>1. p \in Bytes
    BY <1>1 DEF Bytes
  <2>2. [i \in 1..p |-> p] \in [1..p -> Bytes] /\ p \in Nat
    BY <1>1, <2>1
  <2>3. [i \in 1..p |-> p] \in UNION {[1..n -> Bytes] : n \in Nat}
    BY <2>2
  <2>4. QED
    BY <2>3, SeqDef
<1>3. PadText(b, BS) \in Seq(Bytes)
  BY <1>2, ConcatProperties DEF PadText
<1>4. Len(PadText(b, BS)) % BS = 0
  <2>1. b \in Seq(Nat)
    BY SeqMonotonic DEF Bytes
  <2>2. QED
    BY <2>1, PadRoundTrip DEF WellPadded
<1>5. QED
  BY <1>3, <1>4

(* A buffer of Aligned is a block-aligned byte string.                     *)
LEMMA AlignedType ==
    ASSUME NEW w \in Aligned
    PROVE  w \in Seq(Bytes) /\ Len(w) % BS = 0
<1>1. PICK k \in 0..((MaxLen \div BS) + 1) : w \in [1..(k * BS) -> Bytes]
  BY DEF Aligned
<1>2. k * BS \in Nat /\ (k * BS) % BS = 0
  <2>1. k \in Nat
    BY <1>1
  <2>2. QED
    BY <2>1, MultipleAligned
<1>3. w \in Seq(Bytes)
  BY <1>1, <1>2, SeqDef
<1>4. Len(w) = k * BS
  BY <1>1, <1>2, <1>3, LenProperties
<1>5. QED
  BY <1>2, <1>3, <1>4

-----------------------------------------------------------------------------
(* The inductive invariant.  Nothing is decrypted before the packet is     *)
(* sent; a packet is sent only by a built cipher whose key checks passed;  *)
(* an untampered packet holds what encrypt made (the padded plaintext with *)
(* a 16-byte IV for CBC, the plaintext with a 12-byte nonce for GCM); and  *)
(* crypto.go's result is its decrypt of the packet as it is now, since     *)
(* Tamper no longer happens once a result is there.                        *)
KeyChecked == sent => DC.err = "none" /\ keyLen >= DC.ksb /\ AESKeyOK(DC.ksb)

AsSent ==
    sent /\ ~tampered =>
        /\ wire = (IF IsCBC THEN PadText(plain, BS) ELSE plain)
        /\ iv = (IF IsCBC THEN AESBlockSize ELSE GCMNonceSize)

Out2Current ==
    out2.res # "none" => out2 = CryptoDecrypt(DC, keyLen, wire, iv, ~tampered)

IInv ==
    /\ TypeOK
    /\ ~sent => out2.res = "none"
    /\ KeyChecked
    /\ AsSent
    /\ Out2Current

LEMMA InitIInv == Init => IInv
<1> SUFFICES ASSUME Init PROVE IInv
  OBVIOUS
<1>1. plain \in Seq(Bytes) /\ Len(plain) <= MaxLen
  BY DEF Init, Plaintexts
<1>2. << >> \in Seq(Bytes) /\ Len(<< >>) % BS = 0
  OBVIOUS
<1>3. Result("none", << >>) \in [res : Outcomes, data : Seq(Bytes)]
  BY <1>2 DEF Result, Outcomes
<1>4. TypeOK
  BY <1>1, <1>2, <1>3 DEF Init, TypeOK
<1>5. QED
  BY <1>4 DEF Init, IInv, Result, KeyChecked, AsSent, Out2Current

LEMMA NextIInv == IInv /\ [Next]_vars => IInv'
<1> SUFFICES ASSUME IInv, [Next]_vars PROVE IInv'
  OBVIOUS
<1> USE DEF IInv, TypeOK
<1>0. UNCHANGED suite => DC' = DC /\ IsCBC' = IsCBC
  BY DEF DC, IsCBC
<1>1. CASE Encrypt
  <2>1. UNCHANGED <<suite, keyLen, plain, tampered, out1, out2>> /\ ~sent
        /\ DC.err = "none"
    BY <1>1 DEF Encrypt
  <2>2. CASE keyLen < DC.ksb \/ ~AESKeyOK(DC.ksb)
    <3>1. encErr' = TRUE /\ UNCHANGED <<sent, wire, iv>>
      BY <1>1, <2>2 DEF Encrypt
    <3>2. QED
      BY <1>0, <2>1, <3>1 DEF KeyChecked, AsSent, Out2Current
  <2>3. CASE ~(keyLen < DC.ksb \/ ~AESKeyOK(DC.ksb))
    <3>1. /\ sent' = TRUE /\ UNCHANGED encErr
          /\ wire' = (IF IsCBC THEN PadText(plain, BS) ELSE plain)
          /\ iv' = (IF IsCBC THEN AESBlockSize ELSE GCMNonceSize)
      BY <1>1, <2>3 DEF Encrypt
    <3>2. PadText(plain, BS) \in Seq(Bytes) /\ Len(PadText(plain, BS)) % BS = 0
      BY PadTextType
    <3>3. DC.ksb \in {16, 24, 32}
      BY <2>3 DEF AESKeyOK
    <3>4. IsCBC' = IsCBC /\ DC' = DC
      BY <1>0, <2>1
    <3>5. wire' \in Seq(Bytes) /\ (IsCBC' => Len(wire') % BS = 0)
      <4>1. CASE IsCBC
        BY <3>1, <3>2, <3>4, <4>1
      <4>2. CASE ~IsCBC
        BY <2>1, <3>1, <3>4, <4>2
      <4>3. QED
        BY <4>1, <4>2
    <3>6. iv' \in IvLens \cup {0, AESBlockSize, GCMNonceSize}
      BY <3>1
    <3>7. TypeOK'
      BY <2>1, <3>1, <3>5, <3>6
    <3>8. KeyChecked'
      <4>1. keyLen \in Nat
        BY PaddingAssumption
      <4>2. QED
        BY <2>1, <2>3, <3>1, <3>3, <3>4, <4>1 DEF KeyChecked
    <3>9. AsSent'
      BY <2>1, <3>1, <3>4 DEF AsSent
    <3>10. QED
      BY <2>1, <3>7, <3>8, <3>9 DEF Out2Current
  <2>4. QED
    BY <2>2, <2>3
<1>2. CASE Tamper
  <2>1. /\ UNCHANGED <<suite, keyLen, plain, encErr, sent, out1, out2>>
        /\ tampered' = TRUE /\ sent
        /\ out2.res = "none"
    BY <1>2 DEF Tamper
  <2>2. wire' \in Seq(Bytes) /\ (IsCBC => Len(wire') % BS = 0)
        /\ iv' \in IvLens \cup {0, AESBlockSize, GCMNonceSize}
    <3>1. CASE IsCBC /\ (\E w \in Aligned \ {wire} : wire' = w) /\ UNCHANGED iv
      BY <3>1, AlignedType
    <3>2. CASE (\E v \in IvLens \ {iv} : iv' = v) /\ UNCHANGED wire
      BY <3>2
    <3>3. CASE ~IsCBC /\ UNCHANGED <<wire, iv>>
      BY <3>3
    <3>4. QED
      BY <1>2, <3>1, <3>2, <3>3 DEF Tamper
  <2>3. QED
    BY <1>0, <2>1, <2>2 DEF KeyChecked, AsSent, Out2Current
<1>3. CASE DecryptCipher
  <2>1. UNCHANGED <<suite, keyLen, plain, encErr, sent, wire, iv, tampered, out2>>
        /\ out1' = CipherDecrypt(DC, keyLen, wire, iv, ~tampered)
    BY <1>3 DEF DecryptCipher
  <2>2. out1' \in [res : Outcomes, data : Seq(Bytes)]
    BY <2>1, DecryptTypes
  <2>3. QED
    BY <1>0, <2>1, <2>2 DEF KeyChecked, AsSent, Out2Current
<1>4. CASE DecryptCrypto
  <2>1. UNCHANGED <<suite, keyLen, plain, encErr, sent, wire, iv, tampered, out1>>
        /\ out2' = CryptoDecrypt(DC, keyLen, wire, iv, ~tampered) /\ sent
    BY <1>4 DEF DecryptCrypto
  <2>2. out2' \in [res : Outcomes, data : Seq(Bytes)]
    BY <2>1, DecryptTypes
  <2>3. QED
    BY <1>0, <2>1, <2>2 DEF KeyChecked, AsSent, Out2Current
<1>5. CASE UNCHANGED vars
  BY <1>0, <1>5 DEF vars, KeyChecked, AsSent, Out2Current
<1>6. QED
  BY <1>1, <1>2, <1>3, <1>4, <1>5 DEF Next

-----------------------------------------------------------------------------
(* Every variable keeps its type; in particular a CBC packet is always     *)
(* block aligned, so CryptBlocks never panics on it.                       *)
THEOREM TypeCorrect == Spec => []TypeOK
BY InitIInv, NextIInv, PTL DEF Spec, IInv

(* For every block size and every plaintext, the buffer cipherPadTextPKCS7 *)
(* produces is well padded and unpads, by the reference, to the plaintext. *)
THEOREM PadInvertibleHolds == Spec => []PadInvertible
<1>1. IInv => PadInvertible
  <2> SUFFICES ASSUME IInv, sent, ~tampered, IsCBC
               PROVE  WellPadded(wire) /\ RefUnpad(wire) = plain
    BY DEF PadInvertible
  <2>1. plain \in Seq(Nat) /\ wire = PadText(plain, BS)
    BY SeqMonotonic DEF IInv, TypeOK, Bytes, AsSent
  <2>2. QED
    BY <2>1, PadRoundTrip
<1>2. QED
  BY <1>1, InitIInv, NextIInv, PTL DEF Spec

(* crypto.go's decrypt returns bytes only for a packet it can vouch for:   *)
(* for CBC a well-padded buffer, exactly its reference unpadding; for GCM  *)
(* an untampered packet, exactly the sender's plaintext.                   *)
THEOREM CryptoDecryptSoundHolds == Spec => []CryptoDecryptSound
<1>1. IInv => CryptoDecryptSound
  <2> SUFFICES ASSUME IInv, out2.res = "ok"
               PROVE  IF IsCBC THEN WellPadded(wire) /\ out2.data = RefUnpad(wire)
                               ELSE ~tampered /\ out2.data = plain
    BY DEF CryptoDecryptSound
  <2>1. out2 = CryptoDecrypt(DC, keyLen, wire, iv, ~tampered) /\ sent
        /\ DC.err = "none"
    BY DEF IInv, Out2Current, KeyChecked
  <2>2. CASE IsCBC
    <3>1. out2 = CryptoCBC(wire)
      BY <2>1, <2>2 DEF IsCBC, CryptoDecrypt, Result
    <3>2. ~BytesUnpadRejects(wire, BS) /\ out2.data = BytesUnpad(wire)
      BY <3>1 DEF CryptoCBC, Result
    <3>3. wire \in Seq(Nat)
      BY SeqMonotonic DEF IInv, TypeOK, Bytes
    <3>4. QED
      BY <2>2, <3>2, <3>3, BytesUnpadSound
  <2>3. CASE ~IsCBC
    <3>1. DC.mode = "gcm"
      BY <2>1, <2>3, BuiltMode DEF IsCBC
    <3>2. ~tampered /\ out2.data = wire
      BY <2>1, <3>1 DEF CryptoDecrypt, Result
    <3>3. wire = plain
      BY <2>1, <2>3, <3>2 DEF IInv, AsSent
    <3>4. QED
      BY <2>3, <3>2, <3>3
  <2>4. QED
    BY <2>2, <2>3
<1>2. QED
  BY <1>1, InitIInv, NextIInv, PTL DEF Spec

(* crypto.go's encrypt and decrypt agree on the key material and the IV:  *)
(* for every suite and every length of key material, a packet that        *)
(* arrives as it was sent is never refused for its key or its IV.         *)
THEOREM ChecksAgreeHolds == Spec => []ChecksAgree
<1>1. IInv => ChecksAgree
  <2> SUFFICES ASSUME IInv, sent, ~tampered, out2.res # "none"
               PROVE  out2.res \notin {"errKeySize", "errIV"}
    BY DEF ChecksAgree
  <2>1. out2 = CryptoDecrypt(DC, keyLen, wire, iv, TRUE)
    BY DEF IInv, Out2Current
  <2>2. DC.err = "none" /\ keyLen >= DC.ksb /\ DC.ksb \in {16, 24, 32}
    BY DEF IInv, KeyChecked, AESKeyOK
  <2>3. DC.mode \in {"cbc", "gcm"}
    BY <2>2, BuiltMode
  <2>4. iv = (IF DC.mode = "cbc" THEN AESBlockSize ELSE GCMNonceSize)
    BY <2>2 DEF IInv, AsSent, IsCBC
  <2>5. CryptoCBC(wire).res \notin {"errKeySize", "errIV"}
    BY DEF CryptoCBC, Result
  <2>6. keyLen \in Nat
    BY PaddingAssumption DEF IInv, TypeOK
  <2>7. QED
    BY <2>1, <2>2, <2>3, <2>4, <2>5, <2>6 DEF CryptoDecrypt, AESKeyOK, Result,
       AESBlockSize, GCMNonceSize
<1>2. QED
  BY <1>1, InitIInv, NextIInv, PTL DEF Spec

=============================================================================
